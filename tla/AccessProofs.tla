----------------------------- MODULE AccessProofs -----------------------------
(***************************************************************************)
(* Proofs about Access: a token whose logout was answered is refused, and  *)
(* the rate limiter lets no more calls through than RateBounded says.      *)
(*                                                                         *)
(* The inductive invariant LogInv says what a call knows of its token at   *)
(* each step, and that the entry of a token that was logged out stays in   *)
(* Redis as long as the token lives.  RateInv counts, for each window, the *)
(* calls let through and those that are about to be, and says what the     *)
(* expiry of the key may have lost.                                        *)
(***************************************************************************)
EXTENDS Access, FiniteSetTheorems, TLAPS

(* A record with the fields of a call; what it found may be anything. *)
IsCall(c) == DOMAIN c = {"step", "request", "now", "user", "found", "late", "status", "fault"}

CallsOK == call = [q \in Calls |-> call[q]] /\ \A q \in Calls : IsCall(call[q])

(* The steps before the token of a call was checked, and before the answer of Redis. *)
Unverified == {"prune", "count", "record", "expire", "verify"}
Early == Unverified \cup {"answered", "revoked"}

AskInv ==
  \A q \in Calls : call[q].step # "answered" =>
    /\ call[q].request \in Request
    /\ call[q].late => call[q].request.token \in loggedOut
    /\ call[q].step \notin Unverified /\ call[q].request.op \notin Public
         => call[q].request.token # None /\ tokens[call[q].request.token] # None

TokenInv ==
  /\ tokens = [t \in Tokens |-> tokens[t]]
  /\ revoked = [t \in Tokens |-> revoked[t]]
  /\ \A t \in Tokens : tokens[t] # None => tokens[t].exp \in Nat

(* The entry outlives the token. *)
OutInv ==
  \A t \in loggedOut :
    /\ t \in Tokens /\ tokens[t] # None
    /\ revoked[t] \in Nat /\ 2 * tokens[t].exp <= revoked[t]

LogInv == workload \in Workload /\ clock \in Nat /\ CallsOK /\ AskInv /\ TokenInv /\ OutInv

(* What LoggedOutRefused says of a step. *)
Refused ==
  \A q \in Calls :
    call[q].late /\ call[q].step = "revoked" /\ call'[q].step \in {"handler", "cached"}
      => Seconds(clock) >= tokens[call[q].request.token].exp

(* The call q goes on within its handler, or is answered. *)
Proceeds(q) ==
  /\ call' = [call EXCEPT ![q] = call'[q]]
  /\ IsCall(call'[q])
  /\ \/ call'[q].step = "answered"
     \/ /\ call'[q].step \notin Early
        /\ call'[q].request = call[q].request /\ call'[q].late = call[q].late

-----------------------------------------------------------------------------
LEMMA BecomeProceeds ==
  ASSUME CallsOK, NEW q \in Calls, NEW c, NEW rd, NEW wr, Become(q, c, rd, wr), IsCall(c),
         \/ c.step = "answered"
         \/ c.step \notin Early /\ c.request = call[q].request /\ c.late = call[q].late
  PROVE  Proceeds(q)
<1>1. call' = [call EXCEPT ![q] = c] /\ call = [p \in Calls |-> call[p]]
  BY DEF Become, CallsOK
<1>2. call'[q] = c
  BY <1>1
<1> QED
  BY <1>1, <1>2 DEF Proceeds

LEMMA AnswerProceeds ==
  ASSUME CallsOK, NEW q \in Calls, NEW st, Answer(q, st)
  PROVE  Proceeds(q)
<1>1. IsCall(Answered(q, st)) /\ Answered(q, st).step = "answered"
  BY DEF Answered, Idle, IsCall
<1> QED
  BY <1>1, BecomeProceeds DEF Answer

LEMMA AnswerWritingProceeds ==
  ASSUME CallsOK, NEW q \in Calls, NEW st, NEW rows, AnswerWriting(q, st, rows)
  PROVE  Proceeds(q)
<1>1. IsCall(Answered(q, st)) /\ Answered(q, st).step = "answered"
  BY DEF Answered, Idle, IsCall
<1> QED
  BY <1>1, BecomeProceeds DEF AnswerWriting

LEMMA StepRecord ==
  ASSUME CallsOK, NEW q \in Calls, NEW step, NEW c, c = [call[q] EXCEPT !.step = step]
  PROVE  /\ IsCall(c) /\ c.step = step
         /\ c.request = call[q].request /\ c.late = call[q].late /\ c.now = call[q].now
<1>1. IsCall(call[q])
  BY DEF CallsOK
<1> QED
  BY <1>1 DEF IsCall

(* What a handler does to its call when it writes rows and goes on. *)
LEMMA StepProceeds ==
  ASSUME CallsOK, NEW q \in Calls, NEW step, NEW rd, NEW wr,
         Become(q, [call[q] EXCEPT !.step = step], rd, wr), step \notin Early
  PROVE  Proceeds(q)
<1> DEFINE c == [call[q] EXCEPT !.step = step]
<1>1. IsCall(c) /\ c.step = step /\ c.request = call[q].request /\ c.late = call[q].late
  BY StepRecord
<1> HIDE DEF c
<1> QED
  BY <1>1, BecomeProceeds DEF c

LEMMA FoundProceeds ==
  ASSUME CallsOK, NEW q \in Calls, NEW step, NEW row, NEW rd, NEW wr,
         Become(q, [call[q] EXCEPT !.step = step, !.found = row], rd, wr), step \notin Early
  PROVE  Proceeds(q)
<1>1. PICK c : c = [call[q] EXCEPT !.step = step, !.found = row]
  OBVIOUS
<1>2. IsCall(c) /\ c.step = step /\ c.request = call[q].request /\ c.late = call[q].late
  BY <1>1 DEF IsCall, CallsOK
<1>3. Become(q, c, rd, wr)
  BY <1>1
<1> QED
  BY <1>2, <1>3, BecomeProceeds

LEMMA GotoProceeds ==
  ASSUME CallsOK, NEW q \in Calls, NEW step, Goto(q, step), step \notin Early
  PROVE  Proceeds(q)
BY StepProceeds DEF Goto

LEMMA GotoReadingProceeds ==
  ASSUME CallsOK, NEW q \in Calls, NEW step, NEW rows, GotoReading(q, step, rows), step \notin Early
  PROVE  Proceeds(q)
BY StepProceeds DEF GotoReading

LEMMA KeepProceeds ==
  ASSUME CallsOK, NEW q \in Calls, NEW step, NEW row, Keep(q, step, row), step \notin Early
  PROVE  Proceeds(q)
BY FoundProceeds DEF Keep

-----------------------------------------------------------------------------
(* A call that goes on within its handler learns nothing new about its token. *)
LEMMA ProceedingKeeps ==
  ASSUME LogInv, NEW q \in Calls, Proceeds(q), call[q].step \notin Early,
         UNCHANGED <<workload, clock, tokens, revoked, loggedOut>>
  PROVE  LogInv' /\ Refused
<1>1. CallsOK' /\ TokenInv' /\ OutInv' /\ clock' \in Nat /\ workload' \in Workload
  BY DEF LogInv, CallsOK, Proceeds, TokenInv, OutInv
<1>2. AskInv'
  BY DEF LogInv, CallsOK, AskInv, Proceeds, Early, Unverified
<1>3. Refused
  BY DEF Refused, LogInv, CallsOK, Proceeds, Early
<1> QED
  BY <1>1, <1>2, <1>3 DEF LogInv

LEMMA NoCallKeeps ==
  ASSUME LogInv, UNCHANGED <<workload, call, tokens, revoked, loggedOut>>, clock' \in Nat
  PROVE  LogInv' /\ Refused
BY DEF LogInv, CallsOK, AskInv, TokenInv, OutInv, Refused

-----------------------------------------------------------------------------
(* The handlers of projects. *)
LEMMA ProjectProceeds ==
  ASSUME LogInv, NEW q \in Calls, Project(q)
  PROVE  Proceeds(q) /\ call[q].step \notin Early /\ UNCHANGED <<clock, tokens, revoked, loggedOut>>
<1> USE AnswerProceeds, AnswerWritingProceeds, GotoProceeds, GotoReadingProceeds, KeepProceeds,
        StepProceeds, FoundProceeds
    DEF LogInv, Early, Unverified, At, Same
<1>1. CASE CachedRole(q)
  BY <1>1 DEF CachedRole, Admit
<1>2. CASE ReadRole(q)
  BY <1>2 DEF ReadRole, Admit
<1>3. CASE FindKey(q)
  <2>1. Answer(q, 409) \/ \E rows : GotoReading(q, "save", rows)
    BY <1>3 DEF FindKey
  <2>2. call[q].step \notin Early /\ UNCHANGED <<clock, tokens, revoked, loggedOut>>
    BY <1>3 DEF FindKey
  <2>3. ASSUME NEW rows, GotoReading(q, "save", rows)
        PROVE  Proceeds(q)
    BY <2>3, GotoReadingProceeds
  <2> QED
    BY <2>1, <2>2, <2>3
<1>4. CASE SaveProject(q)
  <2>1. \/ Answer(q, 500)
        \/ \E p, rows : Become(q, [call[q] EXCEPT !.step = "admin", !.found = p], {}, rows)
    BY <1>4 DEF SaveProject
  <2>2. call[q].step \notin Early /\ UNCHANGED <<clock, tokens, revoked, loggedOut>>
    BY <1>4 DEF SaveProject
  <2>3. ASSUME NEW p, NEW rows,
               Become(q, [call[q] EXCEPT !.step = "admin", !.found = p], {}, rows)
        PROVE  Proceeds(q)
    BY <2>3, FoundProceeds
  <2> QED
    BY <2>1, <2>2, <2>3
<1>5. CASE SaveAdmin(q)
  BY <1>5 DEF SaveAdmin
<1>6. CASE FindProject(q)
  BY <1>6 DEF FindProject
<1>7. CASE FindMembership(q)
  BY <1>7 DEF FindMembership
<1>8. CASE CachedList(q)
  BY <1>8 DEF CachedList
<1>9. CASE QueryList(q)
  BY <1>9 DEF QueryList
<1>10. CASE ListMembers(q)
  BY <1>10 DEF ListMembers
<1>11. CASE UpdateProject(q)
  BY <1>11 DEF UpdateProject
<1>12. CASE DeleteProject(q)
  BY <1>12 DEF DeleteProject
<1>13. CASE FindMember(q)
  <2>1. \/ Answer(q, 409)
        \/ \E rows : GotoReading(q, "save", rows)
    BY <1>13 DEF FindMember
  <2>2. call[q].step \notin Early /\ UNCHANGED <<clock, tokens, revoked, loggedOut>>
    BY <1>13 DEF FindMember
  <2>3. ASSUME NEW rows, GotoReading(q, "save", rows)
        PROVE  Proceeds(q)
    BY <2>3, GotoReadingProceeds
  <2> QED
    BY <2>1, <2>2, <2>3
<1>14. CASE SaveMember(q)
  BY <1>14 DEF SaveMember
<1>15. CASE RemoveMember(q)
  <2>1. \E rows : Become(q, [call[q] EXCEPT !.step = "settled"], {}, rows)
    BY <1>15 DEF RemoveMember
  <2>2. call[q].step \notin Early /\ UNCHANGED <<clock, tokens, revoked, loggedOut>>
    BY <1>15 DEF RemoveMember
  <2> QED
    BY <2>1, <2>2
<1>16. CASE Settled(q)
  BY <1>16 DEF Settled
<1> QED
  BY <1>1, <1>2, <1>3, <1>4, <1>5, <1>6, <1>7, <1>8, <1>9, <1>10, <1>11, <1>12, <1>13, <1>14,
     <1>15, <1>16 DEF Project

(* The handlers of custom fields. *)
LEMMA FieldProceeds ==
  ASSUME LogInv, NEW q \in Calls, Field(q)
  PROVE  Proceeds(q) /\ call[q].step \notin Early /\ UNCHANGED <<clock, tokens, revoked, loggedOut>>
<1> USE AnswerProceeds, AnswerWritingProceeds, GotoProceeds, GotoReadingProceeds, KeepProceeds,
        StepProceeds, FoundProceeds
    DEF LogInv, Early, Unverified, At, Others
<1>1. CASE ListDefinitions(q)
  BY <1>1 DEF ListDefinitions
<1>2. CASE CreateDefinition(q)
  BY <1>2 DEF CreateDefinition
<1>3. CASE FindDefinition(q)
  BY <1>3 DEF FindDefinition
<1>4. CASE UpdateDefinition(q)
  BY <1>4 DEF UpdateDefinition
<1>5. CASE DeleteValues(q)
  <2>1. \E rd, wr : Become(q, [call[q] EXCEPT !.step = "emptied"], rd, wr)
    BY <1>5 DEF DeleteValues
  <2>2. call[q].step \notin Early /\ UNCHANGED <<clock, tokens, revoked, loggedOut>>
    BY <1>5 DEF DeleteValues
  <2> QED
    BY <2>1, <2>2
<1>6. CASE DeleteDefinition(q)
  BY <1>6 DEF DeleteDefinition
<1>7. CASE ListValues(q)
  BY <1>7 DEF ListValues
<1>8. CASE CheckValue(q)
  <2>1. \/ \E st : Answer(q, st)
        \/ \E rows : GotoReading(q, "value", rows)
    BY <1>8 DEF CheckValue
  <2>2. call[q].step \notin Early /\ UNCHANGED <<clock, tokens, revoked, loggedOut>>
    BY <1>8 DEF CheckValue
  <2> QED
    BY <2>1, <2>2
<1>9. CASE FindValue(q)
  BY <1>9 DEF FindValue
<1>10. CASE SaveValue(q)
  BY <1>10 DEF SaveValue
<1>11. CASE ClearValue(q)
  BY <1>11 DEF ClearValue
<1> QED
  BY <1>1, <1>2, <1>3, <1>4, <1>5, <1>6, <1>7, <1>8, <1>9, <1>10, <1>11 DEF Field

-----------------------------------------------------------------------------
(* The limiter, and what comes before the token of a call is checked. *)
LEMMA UncheckedKeeps ==
  ASSUME LogInv, NEW q \in Calls, NEW c, NEW rd, NEW wr, Become(q, c, rd, wr), IsCall(c),
         call[q].step \in Unverified,
         \/ c.step = "answered"
         \/ /\ c.request = call[q].request /\ c.late = call[q].late
            /\ c.step \notin Unverified /\ c.request.op \notin Public
                 => c.request.token # None /\ tokens[c.request.token] # None,
         UNCHANGED <<workload, clock, tokens, revoked, loggedOut>>
  PROVE  LogInv' /\ Refused
<1>1. call' = [call EXCEPT ![q] = c] /\ call = [p \in Calls |-> call[p]]
  BY DEF Become, LogInv, CallsOK
<1>2. call'[q] = c /\ \A p \in Calls \ {q} : call'[p] = call[p]
  BY <1>1
<1>3. CallsOK' /\ TokenInv' /\ OutInv' /\ clock' \in Nat /\ workload' \in Workload
  BY <1>1, <1>2 DEF LogInv, CallsOK, TokenInv, OutInv
<1>4. call[q].step # "answered" /\ call[q].step # "revoked"
  BY DEF Unverified
<1>5. AskInv'
  BY <1>2, <1>4 DEF LogInv, AskInv
<1>6. Refused
  BY <1>2, <1>4 DEF Refused, LogInv
<1> QED
  BY <1>3, <1>5, <1>6 DEF LogInv

LEMMA LimitKeeps ==
  ASSUME LogInv, NEW q \in Calls, Limit(q), UNCHANGED <<workload, accountVars>>
  PROVE  LogInv' /\ Refused
<1>1. CallsOK /\ call[q].step \in Unverified /\ UNCHANGED <<workload, clock, tokens, revoked, loggedOut>>
  BY DEF LogInv, Limit, Prune, Count, Record, Expire, Unverified, accountVars
<1>2. CASE Answer(q, 429)
  <2>1. IsCall(Answered(q, 429)) /\ Answered(q, 429).step = "answered"
    BY DEF Answered, Idle, IsCall
  <2> QED
    BY <1>1, <1>2, <2>1, UncheckedKeeps DEF Answer
<1>3. ASSUME NEW step \in Unverified, Goto(q, step)
      PROVE  LogInv' /\ Refused
  <2>1. PICK c : c = [call[q] EXCEPT !.step = step]
    OBVIOUS
  <2>2. IsCall(c) /\ c.step = step /\ c.request = call[q].request /\ c.late = call[q].late
    BY <1>1, <2>1, StepRecord
  <2>3. Become(q, c, {}, {})
    BY <1>3, <2>1 DEF Goto
  <2> QED
    BY <1>1, <2>2, <2>3, UncheckedKeeps
<1>4. ASSUME NEW step \in Unverified, NEW row, Keep(q, step, row)
      PROVE  LogInv' /\ Refused
  <2>1. PICK c : c = [call[q] EXCEPT !.step = step, !.found = row]
    OBVIOUS
  <2>2. IsCall(c) /\ c.step = step /\ c.request = call[q].request /\ c.late = call[q].late
    BY <1>1, <2>1 DEF CallsOK, IsCall
  <2>3. Become(q, c, {}, {})
    BY <1>4, <2>1 DEF Keep
  <2> QED
    BY <1>1, <2>2, <2>3, UncheckedKeeps
<1>5. \/ Answer(q, 429)
      \/ \E step \in Unverified : Goto(q, step) \/ \E row : Keep(q, step, row)
  BY DEF Limit, Prune, Count, Record, Expire, Unverified
<1> QED
  BY <1>2, <1>3, <1>4, <1>5

(* What fails ends the call. *)
LEMMA FailsAnswers ==
  ASSUME NEW q \in Calls, Fails(q)
  PROVE  \E c : /\ Become(q, c, {}, {}) /\ IsCall(c)
                /\ c.step = "answered" /\ c.status = 500 /\ c.fault = TRUE
                /\ c.now = 0 /\ c.user = None /\ c.late = call[q].late
<1>1. PICK c : c = [Answered(q, 500) EXCEPT !.fault = TRUE]
  OBVIOUS
<1>2. /\ IsCall(c) /\ c.step = "answered" /\ c.status = 500 /\ c.fault = TRUE
      /\ c.now = 0 /\ c.user = None /\ c.late = call[q].late
  BY <1>1 DEF Answered, Idle, IsCall
<1> QED
  BY <1>1, <1>2 DEF Fails

LEMMA FailsKeeps ==
  ASSUME LogInv, NEW q \in Calls, Fails(q), UNCHANGED workload
  PROVE  LogInv' /\ Refused
<1>1. PICK c : Become(q, c, {}, {}) /\ IsCall(c) /\ c.step = "answered"
  BY FailsAnswers
<1>2. /\ call' = [call EXCEPT ![q] = c] /\ call = [p \in Calls |-> call[p]]
      /\ UNCHANGED <<workload, clock, tokens, revoked, loggedOut>>
  BY <1>1 DEF Become, LogInv, CallsOK, Fails, accountVars
<1>3. call'[q] = c /\ \A p \in Calls \ {q} : call'[p] = call[p]
  BY <1>2
<1>4. CallsOK' /\ TokenInv' /\ OutInv' /\ clock' \in Nat /\ workload' \in Workload
  BY <1>1, <1>2, <1>3 DEF LogInv, CallsOK, TokenInv, OutInv
<1>5. AskInv'
  BY <1>1, <1>2, <1>3 DEF LogInv, AskInv
<1>6. Refused
  BY <1>1, <1>3 DEF Refused, LogInv
<1> QED
  BY <1>4, <1>5, <1>6 DEF LogInv

LEMMA VerifyKeeps ==
  ASSUME LogInv, NEW q \in Calls, Verify(q), UNCHANGED workload
  PROVE  LogInv' /\ Refused
<1> DEFINE t == call[q].request.token
<1>1. CallsOK /\ call[q].step \in Unverified /\ UNCHANGED <<workload, clock, tokens, revoked, loggedOut>>
  BY DEF LogInv, Verify, Unverified, accountVars
<1>2. CASE Answer(q, 401)
  <2>1. IsCall(Answered(q, 401)) /\ Answered(q, 401).step = "answered"
    BY DEF Answered, Idle, IsCall
  <2> QED
    BY <1>1, <1>2, <2>1, UncheckedKeeps DEF Answer
<1>3. CASE call[q].request.op \in Public /\ Goto(q, "handler")
  <2>1. PICK c : c = [call[q] EXCEPT !.step = "handler"]
    OBVIOUS
  <2>2. IsCall(c) /\ c.request = call[q].request /\ c.late = call[q].late
    BY <1>1, <2>1, StepRecord
  <2>3. Become(q, c, {}, {})
    BY <1>3, <2>1 DEF Goto
  <2> QED
    BY <1>1, <1>3, <2>2, <2>3, UncheckedKeeps
<1>4. CASE /\ t # None /\ tokens[t] # None
           /\ Become(q, [call[q] EXCEPT !.step = "revoked", !.user = tokens[t].user], {}, {})
  <2>1. PICK c : c = [call[q] EXCEPT !.step = "revoked", !.user = tokens[t].user]
    OBVIOUS
  <2>2. IsCall(c) /\ c.request = call[q].request /\ c.late = call[q].late
    BY <1>1, <2>1 DEF CallsOK, IsCall
  <2>3. Become(q, c, {}, {})
    BY <1>4, <2>1
  <2> QED
    BY <1>1, <1>4, <2>2, <2>3, UncheckedKeeps
<1> QED
  BY <1>2, <1>3, <1>4 DEF Verify

-----------------------------------------------------------------------------
(* A late call gets past Redis only when the token has expired. *)
LEMMA CheckRevokedKeeps ==
  ASSUME LogInv, NEW q \in Calls, CheckRevoked(q), UNCHANGED workload
  PROVE  LogInv' /\ Refused
<1> DEFINE t == call[q].request.token
<1>1. CallsOK /\ call[q].step = "revoked" /\ UNCHANGED <<workload, clock, tokens, revoked, loggedOut>>
  BY DEF LogInv, CheckRevoked, accountVars
<1>2. call = [p \in Calls |-> call[p]] /\ IsCall(call[q])
  BY <1>1 DEF CallsOK
<1>3. CASE IsRevoked(t)
  <2>1. Answer(q, 401)
    BY <1>3 DEF CheckRevoked
  <2>2. PICK c : c = Answered(q, 401)
    OBVIOUS
  <2>3. IsCall(c) /\ c.step = "answered"
    BY <2>2 DEF Answered, Idle, IsCall
  <2>4. call' = [call EXCEPT ![q] = c]
    BY <2>1, <2>2 DEF Answer, Become
  <2>5. call'[q] = c /\ \A p \in Calls \ {q} : call'[p] = call[p]
    BY <1>2, <2>4
  <2>6. CallsOK' /\ TokenInv' /\ OutInv' /\ clock' \in Nat /\ workload' \in Workload
    BY <1>1, <1>2, <2>3, <2>4, <2>5 DEF LogInv, CallsOK, TokenInv, OutInv
  <2>7. AskInv'
    BY <1>1, <2>3, <2>5 DEF LogInv, AskInv
  <2>8. Refused
    BY <2>3, <2>5 DEF Refused, LogInv
  <2> QED
    BY <2>6, <2>7, <2>8 DEF LogInv
<1>4. CASE ~IsRevoked(t)
  <2>1. PICK step \in {"handler", "cached"} : Goto(q, step)
    BY <1>4 DEF CheckRevoked
  <2>2. PICK c : c = [call[q] EXCEPT !.step = step]
    OBVIOUS
  <2>3. IsCall(c) /\ c.step = step /\ c.request = call[q].request /\ c.late = call[q].late
    BY <1>1, <2>2, StepRecord
  <2>4. call' = [call EXCEPT ![q] = c]
    BY <2>1, <2>2 DEF Goto, Become
  <2>5. call'[q] = c /\ \A p \in Calls \ {q} : call'[p] = call[p]
    BY <1>2, <2>4
  <2>6. CallsOK' /\ TokenInv' /\ OutInv' /\ clock' \in Nat /\ workload' \in Workload
    BY <1>1, <1>2, <2>3, <2>4, <2>5 DEF LogInv, CallsOK, TokenInv, OutInv
  <2>7. AskInv'
    BY <1>1, <2>3, <2>5 DEF LogInv, AskInv, Unverified
  <2>8. call[q].late => Seconds(clock) >= tokens[t].exp
    <3>1. SUFFICES ASSUME call[q].late
                   PROVE  Seconds(clock) >= tokens[t].exp
      OBVIOUS
    <3>2. t \in loggedOut
      BY <1>1, <3>1 DEF LogInv, AskInv
    <3>3. t \in Tokens /\ tokens[t] # None /\ revoked[t] \in Nat /\ 2 * tokens[t].exp <= revoked[t]
      BY <3>2 DEF LogInv, OutInv
    <3>4. tokens[t].exp \in Nat /\ clock \in Nat
      BY <3>3 DEF LogInv, TokenInv
    <3>5. ~(clock < revoked[t])
      BY <1>4, <3>3, AccountsAssumption DEF IsRevoked
    <3> QED
      BY <3>3, <3>4, <3>5 DEF Seconds
  <2>9. Refused
    BY <2>5, <2>3, <2>8, <1>1 DEF Refused, LogInv
  <2> QED
    BY <2>6, <2>7, <2>9 DEF LogInv
<1> QED
  BY <1>3, <1>4

-----------------------------------------------------------------------------
(* The handlers of accounts. *)
AccountReads(q) == FindEmail(q) \/ SaveUser(q) \/ CheckPassword(q)

LEMMA AccountProceeds ==
  ASSUME LogInv, NEW q \in Calls, AccountReads(q)
  PROVE  Proceeds(q) /\ call[q].step \notin Early /\ UNCHANGED <<clock, tokens, revoked, loggedOut>>
<1> USE DEF LogInv, Early, Unverified, At, accountVars
<1>1. /\ call[q].step \notin Early
      /\ UNCHANGED <<clock, tokens, revoked, loggedOut>>
      /\ \/ \E st : Answer(q, st)
         \/ \E rows : AnswerWriting(q, 201, rows)
         \/ \E rows : GotoReading(q, "save", rows)
         \/ \E u : Keep(q, "sign", u)
  BY DEF AccountReads, FindEmail, SaveUser, CheckPassword
<1>2. ASSUME NEW st, Answer(q, st) PROVE Proceeds(q)
  BY <1>2, AnswerProceeds
<1>3. ASSUME NEW rows, AnswerWriting(q, 201, rows) PROVE Proceeds(q)
  BY <1>3, AnswerWritingProceeds
<1>4. ASSUME NEW rows, GotoReading(q, "save", rows) PROVE Proceeds(q)
  BY <1>4, GotoReadingProceeds
<1>5. ASSUME NEW u, Keep(q, "sign", u) PROVE Proceeds(q)
  BY <1>5, KeepProceeds
<1> QED
  BY <1>1, <1>2, <1>3, <1>4, <1>5

(* What every handler leaves alone. *)
LEMMA HandlerKeeps ==
  ASSUME LogInv, NEW q \in Calls, UNCHANGED workload,
         AccountReads(q) \/ Project(q) \/ Field(q)
  PROVE  LogInv' /\ Refused
<1>1. Proceeds(q) /\ call[q].step \notin Early /\ UNCHANGED <<clock, tokens, revoked, loggedOut>>
  BY AccountProceeds, ProjectProceeds, FieldProceeds
<1> QED
  BY <1>1, ProceedingKeeps

(* A login signs a token that nobody has. *)
LEMMA SignTokenKeeps ==
  ASSUME LogInv, NEW q \in Calls, SignToken(q), UNCHANGED workload
  PROVE  LogInv' /\ Refused
<1>1. Proceeds(q) /\ call[q].step \notin Early
  BY AnswerProceeds DEF SignToken, LogInv, At, Early, Unverified
<1>2. PICK x, new :
        /\ x \in Tokens /\ tokens[x] = None /\ new.exp = Seconds(clock) + TokenLife
        /\ tokens' = [tokens EXCEPT ![x] = new]
        /\ UNCHANGED <<clock, revoked, loggedOut>>
  <2>1. Unsigned # {} /\ (CHOOSE t \in Unsigned : TRUE) \in Unsigned
    BY DEF SignToken
  <2> QED
    BY <2>1 DEF SignToken, Unsigned
<1>3. tokens'[x] = new /\ new.exp \in Nat /\ \A t \in Tokens \ {x} : tokens'[t] = tokens[t]
  BY <1>2, AccountsAssumption DEF LogInv, TokenInv, Seconds
<1>4. CallsOK' /\ clock' \in Nat /\ workload' \in Workload
  BY <1>1, <1>2 DEF LogInv, CallsOK, Proceeds
<1>5. TokenInv' /\ OutInv'
  BY <1>2, <1>3 DEF LogInv, TokenInv, OutInv
<1>6. \A t \in Tokens : tokens[t] # None => tokens'[t] # None
  BY <1>2, <1>3
<1>7. \A p \in Calls : call[p].request \in Request /\ call[p].request.token # None
                         => call[p].request.token \in Tokens
  BY DEF Request
<1>8. AskInv'
  BY <1>1, <1>2, <1>6, <1>7 DEF LogInv, CallsOK, AskInv, Proceeds, Early, Unverified
<1>9. Refused
  BY <1>1 DEF Refused, LogInv, CallsOK, Proceeds, Early
<1> QED
  BY <1>4, <1>5, <1>8, <1>9 DEF LogInv

(* What Max is of two. *)
LEMMA MaxOfTwo ==
  ASSUME NEW m \in Int, NEW n \in Int
  PROVE  Max({m, n}) >= m /\ Max({m, n}) >= n /\ Max({m, n}) \in {m, n}
<1>1. \E x \in {m, n} : \A y \in {m, n} : x >= y
  BY DEF Max
<1> QED
  BY <1>1 DEF Max

(* The entry of the logout is kept for what the token has left, rounded up. *)
LEMMA LogoutKeeps ==
  ASSUME LogInv, NEW q \in Calls, Logout(q), UNCHANGED workload
  PROVE  LogInv' /\ Refused
<1> DEFINE t == call[q].request.token
<1>1. Proceeds(q) /\ call[q].step \notin Early /\ call[q].request.op = "logout"
  BY AnswerProceeds DEF Logout, LogInv, At, Early, Unverified
<1>2. t \in Tokens /\ tokens[t] # None
  <2>1. call[q].step # "answered"
    BY DEF Logout, At
  <2> QED
    BY <1>1, <2>1 DEF LogInv, AskInv, Request, Early, Public
<1>3. tokens[t].exp \in Nat /\ clock \in Nat /\ Seconds(clock) \in Nat
  BY <1>2 DEF LogInv, TokenInv, Seconds
<1>4. Lifetime(t) \in Nat /\ Lifetime(t) >= 1 /\ Lifetime(t) >= tokens[t].exp - Seconds(clock)
  <2>1. PICK left \in Int : left = tokens[t].exp - Seconds(clock)
    BY <1>3
  <2>2. /\ Max({left, 1}) >= left /\ Max({left, 1}) >= 1 /\ Max({left, 1}) \in {left, 1}
    BY MaxOfTwo
  <2>3. Lifetime(t) = Max({left, 1})
    BY <2>1 DEF Lifetime
  <2> QED
    BY <2>1, <2>2, <2>3
<1>5. clock + 2 * Lifetime(t) \in Nat /\ 2 * tokens[t].exp <= clock + 2 * Lifetime(t)
  BY <1>3, <1>4 DEF Seconds
<1>6. /\ revoked' = [revoked EXCEPT ![t] = clock + 2 * Lifetime(t)]
      /\ loggedOut' = loggedOut \cup {t}
      /\ UNCHANGED <<clock, tokens>>
  BY DEF Logout
<1>7. PICK x, new : x = t /\ new = clock + 2 * Lifetime(t)
  OBVIOUS
<1> HIDE DEF t
<1>8. CallsOK' /\ clock' \in Nat /\ workload' \in Workload
  BY <1>1, <1>6 DEF LogInv, CallsOK, Proceeds
<1>9. TokenInv' /\ OutInv'
  BY <1>2, <1>5, <1>6, <1>7 DEF LogInv, TokenInv, OutInv
<1>10. AskInv'
  BY <1>1, <1>6 DEF LogInv, CallsOK, AskInv, Proceeds, Early, Unverified
<1>11. Refused
  BY <1>1 DEF Refused, LogInv, CallsOK, Proceeds, Early
<1> QED
  BY <1>8, <1>9, <1>10, <1>11 DEF LogInv

-----------------------------------------------------------------------------
(* A call begins; it comes after the logout of its token, or before. *)
LEMMA BeginKeeps ==
  ASSUME LogInv, NEW q \in Calls, Begin(q), UNCHANGED workload
  PROVE  LogInv' /\ Refused
<1>1. PICK r \in workload.asks, step \in {"prune", "verify"} :
        Arrive(q, r, step, r.token \in loggedOut)
  BY DEF Begin
<1>2. r \in Request
  BY DEF LogInv, Workload
<1>3. PICK late : late = (r.token \in loggedOut)
  OBVIOUS
<1>4. PICK c : c = [Idle EXCEPT !.step = step, !.request = r, !.now = clock, !.late = late]
  OBVIOUS
<1>5. IsCall(c) /\ c.step = step /\ c.request = r /\ (c.late => r.token \in loggedOut)
  BY <1>3, <1>4 DEF Idle, IsCall
<1>6. /\ call' = [call EXCEPT ![q] = c] /\ call = [p \in Calls |-> call[p]]
      /\ call[q].step = "answered" /\ UNCHANGED <<workload, clock, tokens, revoked, loggedOut>>
  BY <1>1, <1>3, <1>4 DEF Arrive, Become, Begin, accountVars, LogInv, CallsOK
<1>7. call'[q] = c /\ \A p \in Calls \ {q} : call'[p] = call[p]
  BY <1>6
<1>8. CallsOK' /\ TokenInv' /\ OutInv' /\ clock' \in Nat /\ workload' \in Workload
  BY <1>5, <1>6, <1>7 DEF LogInv, CallsOK, TokenInv, OutInv
<1>9. AskInv'
  BY <1>2, <1>5, <1>6, <1>7 DEF LogInv, AskInv, Unverified
<1>10. Refused
  BY <1>6, <1>7 DEF Refused
<1> QED
  BY <1>8, <1>9, <1>10 DEF LogInv

-----------------------------------------------------------------------------
(* The first states. *)
LEMMA InitLogInv == Init => LogInv
<1> SUFFICES ASSUME Init PROVE LogInv
  OBVIOUS
<1>1. workload \in Workload /\ clock \in Nat
  BY AccessAssumption DEF Init
<1>2. CallsOK
  BY DEF Init, CallsOK, IsCall, Idle
<1>3. AskInv
  BY DEF Init, AskInv, Idle
<1>4. TokenInv /\ OutInv
  BY AccessAssumption DEF Init, TokenInv, OutInv, Token
<1> QED
  BY <1>1, <1>2, <1>3, <1>4 DEF LogInv

(* Every step keeps the invariant and refuses late calls. *)
LEMMA NextKeeps ==
  ASSUME LogInv, [Next]_vars
  PROVE  LogInv' /\ Refused
<1>1. CASE UNCHANGED vars
  BY <1>1, NoCallKeeps DEF vars, limiterVars, accountVars, LogInv
<1>2. CASE Next
  <2> UNCHANGED workload
    BY <1>2 DEF Next
  <2>1. ASSUME NEW q \in workload.calls, Begin(q) \/ Handle(q)
        PROVE  LogInv' /\ Refused
    <3>1. q \in Calls
      BY DEF LogInv, Workload
    <3>2. CASE Begin(q)
      BY <3>1, <3>2, BeginKeeps
    <3>3. CASE Limit(q) /\ UNCHANGED accountVars
      BY <3>1, <3>3, LimitKeeps
    <3>4. CASE Account(q)
      <4>1. CASE Verify(q)
        BY <3>1, <4>1, VerifyKeeps
      <4>2. CASE CheckRevoked(q)
        BY <3>1, <4>2, CheckRevokedKeeps
      <4>3. CASE AccountReads(q)
        BY <3>1, <4>3, HandlerKeeps
      <4>4. CASE SignToken(q)
        BY <3>1, <4>4, SignTokenKeeps
      <4>5. CASE Logout(q)
        BY <3>1, <4>5, LogoutKeeps
      <4> QED
        BY <3>4, <4>1, <4>2, <4>3, <4>4, <4>5 DEF Account, AccountReads
    <3>5. CASE Project(q) \/ Field(q)
      BY <3>1, <3>5, HandlerKeeps
    <3>6. CASE Redis(q)
      BY <3>6, NoCallKeeps DEF Redis, limiterVars, accountVars, LogInv
    <3>7. CASE Fails(q)
      BY <3>1, <3>7, FailsKeeps
    <3> QED
      BY <2>1, <3>2, <3>3, <3>4, <3>5, <3>6, <3>7 DEF Handle
  <2>2. CASE Tick /\ UNCHANGED accountVars
    BY <2>2, NoCallKeeps DEF Tick, accountVars, LogInv
  <2>3. CASE \/ \E p \in ProjectIds, u \in Users : RoleExpires(p, u)
             \/ \E u \in Users : ListExpires(u)
    BY <2>3, NoCallKeeps DEF RoleExpires, ListExpires, limiterVars, accountVars, LogInv
  <2> QED
    BY <1>2, <2>1, <2>2, <2>3 DEF Next
<1> QED
  BY <1>1, <1>2

(* For any number of calls, tokens and users, any limit and any lifetime of the tokens:  *)
(* a call that came after the logout of its token was answered does not get past the     *)
(* middleware while the token has time left (src/src/core/middleware/auth.ts,            *)
(* AuthService.logout).                                                                  *)
THEOREM LateCallsRefused == Spec => LoggedOutRefused
<1>1. LogInv /\ [Next]_vars => LogInv'
  BY NextKeeps
<1>2. LogInv /\ [Next]_vars =>
        [\A q \in Calls :
           call[q].late /\ call[q].step = "revoked" /\ call'[q].step \in {"handler", "cached"}
             => Seconds(clock) >= tokens[call[q].request.token].exp]_<<clock, call>>
  BY NextKeeps DEF Refused
<1> QED
  BY <1>1, <1>2, InitLogInv, PTL DEF Spec, LoggedOutRefused

-----------------------------------------------------------------------------
(***************************************************************************)
(* The limiter.  Of a window that ends at t: while the clock has not       *)
(* passed t, Redis has lost no more members than there are processes, and  *)
(* the calls let through or about to be recorded are as many as the limit  *)
(* and the processes allow; later no call comes any more within it, and    *)
(* those under way, each of which may be let through, become fewer.        *)
(***************************************************************************)
Asking == {"prune", "count", "record"}
Limited == Asking \cup {"expire"}

Held(t) == InWindow(admitted, t)

Lost(t) == Held(t) \ hits

(* The calls of the window that are at one of these steps. *)
Pending(steps, t) == {q \in Calls : call[q].step \in steps /\ Within(call[q].now, t)}

MemberOK(m) ==
  /\ m[1] \in Nat /\ m[1] <= clock /\ m[2] \in Nat
  /\ m[2] < Cardinality({o \in recorded : o[1] = m[1]})

RateTypes ==
  /\ IsFiniteSet(recorded) /\ hits \subseteq recorded /\ admitted \subseteq recorded
  /\ \A m \in recorded : MemberOK(m)
  /\ expiry \in Nat \cup {None}
  /\ \A q \in Calls : call[q].step \in Asking => call[q].now \in Nat /\ call[q].now <= clock

(* A key that expires within the window was last given its TTL before it: the calls of   *)
(* the window that were let through have not yet given it theirs.                         *)
ExpiryAt(t) ==
  expiry \in Nat /\ expiry <= t => Cardinality(Held(t)) <= Cardinality(Pending({"expire"}, t))

BoundAt(t) ==
  IF clock <= t
    THEN /\ Cardinality(Lost(t)) <= Cardinality(Calls)
         /\ Cardinality(Held(t)) + Cardinality(Pending({"record"}, t))
              <= MaxRequests + 2 * Cardinality(Calls) - 1
    ELSE Cardinality(Held(t)) + Cardinality(Pending(Asking, t))
              <= MaxRequests + 3 * Cardinality(Calls) - 1

(* A call that is about to give the key its TTL knows its member. *)
Expiring ==
  \A q \in Calls : call[q].step = "expire" =>
    /\ call[q].found \in admitted /\ call[q].found[1] = call[q].now
    /\ \A p \in Calls \ {q} : call[p].step = "expire" => call[p].found # call[q].found

RateInv == RateTypes /\ Expiring /\ \A t \in Nat : ExpiryAt(t) /\ BoundAt(t)

-----------------------------------------------------------------------------
(* How many calls may be at a step. *)
LEMMA CallsCounted ==
  ASSUME NEW P \in SUBSET Calls
  PROVE  /\ IsFiniteSet(P) /\ Cardinality(P) \in Nat /\ Cardinality(P) <= Cardinality(Calls)
         /\ Cardinality(Calls) \in Nat /\ Cardinality(Calls) >= 1
<1>1. IsFiniteSet(Calls) /\ Calls # {}
  BY LimiterAssumption
<1>2. Cardinality(Calls) \in Nat /\ Cardinality(Calls) # 0
  BY <1>1, FS_CardinalityType, FS_EmptySet
<1>3. IsFiniteSet(P) /\ Cardinality(P) <= Cardinality(Calls)
  BY <1>1, FS_Subset
<1> QED
  BY <1>2, <1>3, FS_CardinalityType

LEMMA PendingFinite ==
  ASSUME NEW steps, NEW t
  PROVE  /\ IsFiniteSet(Pending(steps, t)) /\ Cardinality(Pending(steps, t)) \in Nat
         /\ Cardinality(Pending(steps, t)) <= Cardinality(Calls)
         /\ IsFiniteSet(Pending(steps, t)') /\ Cardinality(Pending(steps, t)') \in Nat
         /\ Cardinality(Pending(steps, t)') <= Cardinality(Calls)
         /\ Cardinality(Calls) \in Nat /\ Cardinality(Calls) >= 1
<1>1. Pending(steps, t) \in SUBSET Calls /\ Pending(steps, t)' \in SUBSET Calls
  BY DEF Pending
<1> QED
  BY <1>1, CallsCounted

LEMMA PendingFewer ==
  ASSUME NEW steps, NEW t, Pending(steps, t)' \subseteq Pending(steps, t)
  PROVE  Cardinality(Pending(steps, t)') <= Cardinality(Pending(steps, t))
BY PendingFinite, FS_Subset

LEMMA HeldFinite ==
  ASSUME RateTypes, NEW t
  PROVE  /\ IsFiniteSet(Held(t)) /\ Cardinality(Held(t)) \in Nat
         /\ IsFiniteSet(Lost(t)) /\ Cardinality(Lost(t)) \in Nat
         /\ IsFiniteSet(hits) /\ Cardinality(hits) \in Nat
<1>1. Held(t) \subseteq recorded /\ Lost(t) \subseteq recorded /\ hits \subseteq recorded
  BY DEF RateTypes, Held, Lost, InWindow
<1>2. IsFiniteSet(recorded)
  BY DEF RateTypes
<1> QED
  BY <1>1, <1>2, FS_Subset, FS_CardinalityType

(* The call q goes from one step to another and the rest stay where they are. *)
Moves(q, c) ==
  /\ call'[q] = c /\ c.now = call[q].now
  /\ \A p \in Calls \ {q} : call'[p] = call[p]

LEMMA GotoMoves ==
  ASSUME LogInv, NEW q \in Calls, NEW step, Goto(q, step)
  PROVE  \E c : Moves(q, c) /\ c.step = step
<1>1. PICK c : c = [call[q] EXCEPT !.step = step]
  OBVIOUS
<1>2. c.step = step /\ c.now = call[q].now
  BY <1>1, StepRecord DEF LogInv
<1>3. call' = [call EXCEPT ![q] = c] /\ call = [p \in Calls |-> call[p]]
  BY <1>1 DEF Goto, Become, LogInv, CallsOK
<1>4. call'[q] = c /\ \A p \in Calls \ {q} : call'[p] = call[p]
  BY <1>3
<1> QED
  BY <1>2, <1>4 DEF Moves

LEMMA KeepMoves ==
  ASSUME LogInv, NEW q \in Calls, NEW step, NEW row, Keep(q, step, row)
  PROVE  \E c : Moves(q, c) /\ c.step = step /\ c.found = row
<1>1. PICK c : c = [call[q] EXCEPT !.step = step, !.found = row]
  OBVIOUS
<1>2. c.step = step /\ c.now = call[q].now /\ c.found = row
  BY <1>1 DEF LogInv, CallsOK, IsCall
<1>3. call' = [call EXCEPT ![q] = c] /\ call = [p \in Calls |-> call[p]]
  BY <1>1 DEF Keep, Become, LogInv, CallsOK
<1>4. call'[q] = c /\ \A p \in Calls \ {q} : call'[p] = call[p]
  BY <1>3
<1> QED
  BY <1>2, <1>4 DEF Moves

(* The call that moves is not about to give the key its TTL. *)
LEMMA ExpiringStays ==
  ASSUME Expiring, NEW q \in Calls, NEW c, Moves(q, c), c.step # "expire", UNCHANGED admitted
  PROVE  Expiring'
BY DEF Expiring, Moves

LEMMA PendingStays ==
  ASSUME NEW q \in Calls, NEW c, Moves(q, c), NEW steps, NEW t,
         c.step \in steps <=> call[q].step \in steps
  PROVE  Pending(steps, t)' = Pending(steps, t)
BY DEF Moves, Pending

LEMMA PendingLeft ==
  ASSUME NEW q \in Calls, NEW c, Moves(q, c), NEW steps, NEW t,
         call[q].step \in steps, c.step \notin steps, Within(call[q].now, t)
  PROVE  Cardinality(Pending(steps, t)') = Cardinality(Pending(steps, t)) - 1
<1>1. Pending(steps, t)' = Pending(steps, t) \ {q} /\ q \in Pending(steps, t)
  BY DEF Moves, Pending
<1> QED
  BY <1>1, PendingFinite, FS_RemoveElement

LEMMA PendingLeaves ==
  ASSUME NEW q \in Calls, NEW c, Moves(q, c), NEW steps, NEW t, c.step \notin steps
  PROVE  Pending(steps, t)' \subseteq Pending(steps, t)
BY DEF Moves, Pending

LEMMA PendingEntered ==
  ASSUME NEW q \in Calls, NEW c, Moves(q, c), NEW steps, NEW t,
         call[q].step \notin steps, c.step \in steps, Within(call[q].now, t)
  PROVE  Cardinality(Pending(steps, t)') = Cardinality(Pending(steps, t)) + 1
<1>1. Pending(steps, t)' = Pending(steps, t) \cup {q} /\ q \notin Pending(steps, t)
  BY DEF Moves, Pending
<1> QED
  BY <1>1, PendingFinite, FS_AddElement

(* Nothing is recorded or dropped, and no call enters the limiter. *)
LEMMA RateQuiet ==
  ASSUME RateInv, UNCHANGED <<clock, hits, expiry, recorded, admitted>>,
         \A p \in Calls : \/ call'[p] = call[p]
                          \/ call'[p].step \notin Limited /\ call[p].step # "expire"
  PROVE  RateInv'
<1>1. RateTypes' /\ Expiring'
  BY DEF RateInv, RateTypes, Expiring, MemberOK, Limited
<1>2. ASSUME NEW t \in Nat
      PROVE  ExpiryAt(t)' /\ BoundAt(t)'
  <2>1. Held(t)' = Held(t) /\ Lost(t)' = Lost(t)
    BY DEF Held, Lost
  <2>2. Pending({"expire"}, t) \subseteq Pending({"expire"}, t)'
    BY DEF Pending
  <2>3. Cardinality(Pending({"expire"}, t)) <= Cardinality(Pending({"expire"}, t)')
    BY <2>2, PendingFinite, FS_Subset
  <2>4. /\ Pending({"record"}, t)' \subseteq Pending({"record"}, t)
        /\ Pending(Asking, t)' \subseteq Pending(Asking, t)
    BY DEF Pending, Asking, Limited
  <2>5. /\ Cardinality(Pending({"record"}, t)') <= Cardinality(Pending({"record"}, t))
        /\ Cardinality(Pending(Asking, t)') <= Cardinality(Pending(Asking, t))
    BY <2>4, PendingFewer
  <2>6. ExpiryAt(t) /\ BoundAt(t)
    BY DEF RateInv
  <2>7. ExpiryAt(t)'
    BY <2>1, <2>3, <2>6, PendingFinite, HeldFinite DEF RateInv, ExpiryAt
  <2>8. BoundAt(t)'
    BY <2>1, <2>5, <2>6, PendingFinite, HeldFinite, LimiterAssumption DEF RateInv, BoundAt
  <2> QED
    BY <2>7, <2>8
<1> QED
  BY <1>1, <1>2 DEF RateInv

(* What a step of the limiter leaves alone. *)
LEMMA StepTypes ==
  ASSUME LogInv, RateTypes, NEW q \in Calls, NEW c, Moves(q, c), call[q].step \in Asking,
         UNCHANGED <<clock, recorded, admitted>>, hits' \subseteq hits, expiry' \in {expiry, None},
         Expiring, c.step # "expire"
  PROVE  RateTypes' /\ Expiring'
BY ExpiringStays DEF RateTypes, MemberOK, Moves

(* What Prune removes is older than the window of a call that came by now. *)
LEMMA PruneBounded ==
  ASSUME LogInv, RateInv, NEW q \in Calls, Prune(q)
  PROVE  RateInv'
<1>1. /\ call[q].step = "prune" /\ Goto(q, "count")
      /\ hits' = {m \in hits : m[1] + Window > call[q].now}
      /\ expiry' \in {expiry, None} /\ UNCHANGED <<clock, recorded, admitted>>
  BY DEF Prune
<1>2. PICK c : Moves(q, c) /\ c.step = "count"
  BY <1>1, GotoMoves
<1>3. RateTypes' /\ Expiring'
  BY <1>1, <1>2, StepTypes DEF RateInv, Asking
<1>4. clock \in Nat /\ Window \in Nat /\ call[q].now \in Nat /\ call[q].now <= clock
  BY <1>1, LimiterAssumption DEF LogInv, RateInv, RateTypes, Asking
<1>5. ASSUME NEW t \in Nat
      PROVE  ExpiryAt(t)' /\ BoundAt(t)'
  <2>1. ExpiryAt(t) /\ BoundAt(t) /\ Held(t)' = Held(t)
    BY <1>1 DEF RateInv, Held
  <2>2. /\ Pending({"expire"}, t)' = Pending({"expire"}, t)
        /\ Pending({"record"}, t)' = Pending({"record"}, t)
        /\ Pending(Asking, t)' = Pending(Asking, t)
    BY <1>1, <1>2, PendingStays DEF Asking
  <2>3. ExpiryAt(t)'
    BY <1>1, <2>1, <2>2, AccountsAssumption DEF ExpiryAt
  <2>4. CASE clock > t
    BY <1>1, <1>4, <2>1, <2>2, <2>3, <2>4 DEF BoundAt
  <2>5. CASE clock <= t
    <3>1. ASSUME NEW m \in Held(t), m \in hits
          PROVE  m[1] + Window > call[q].now
      <4>1. m[1] \in Nat /\ t < m[1] + Window
        BY DEF Held, InWindow, Within, RateInv, RateTypes, MemberOK
      <4> QED
        BY <1>4, <2>5, <4>1
    <3>2. Lost(t)' = Lost(t)
      BY <1>1, <2>1, <3>1 DEF Lost
    <3> QED
      BY <1>1, <2>1, <2>2, <2>3, <2>5, <3>2 DEF BoundAt
  <2> QED
    BY <1>4, <2>3, <2>4, <2>5
<1> QED
  BY <1>3, <1>5 DEF RateInv

(* A call that passes found fewer members than the limit, those of the window among them. *)
LEMMA CountBounded ==
  ASSUME LogInv, RateInv, NEW q \in Calls, Count(q), Cardinality(hits) < MaxRequests
  PROVE  RateInv'
<1>1. call[q].step = "count" /\ Goto(q, "record") /\ UNCHANGED <<clock, hits, expiry, recorded, admitted>>
  BY HeldFinite, LimiterAssumption DEF Count, RateInv
<1>2. PICK c : Moves(q, c) /\ c.step = "record"
  BY <1>1, GotoMoves
<1>3. RateTypes' /\ Expiring'
  BY <1>1, <1>2, StepTypes DEF RateInv, Asking
<1>4. ASSUME NEW t \in Nat
      PROVE  ExpiryAt(t)' /\ BoundAt(t)'
  <2>1. ExpiryAt(t) /\ BoundAt(t) /\ Held(t)' = Held(t) /\ Lost(t)' = Lost(t)
    BY <1>1 DEF RateInv, Held, Lost
  <2>2. /\ Pending({"expire"}, t)' = Pending({"expire"}, t)
        /\ Pending(Asking, t)' = Pending(Asking, t)
    BY <1>1, <1>2, PendingStays DEF Asking
  <2>3. ExpiryAt(t)'
    BY <1>1, <2>1, <2>2 DEF ExpiryAt
  <2>4. CASE clock > t
    BY <1>1, <2>1, <2>2, <2>3, <2>4 DEF BoundAt, LogInv
  <2>5. CASE clock <= t
    <3>1. /\ IsFiniteSet(hits) /\ Cardinality(hits) \in Nat
          /\ IsFiniteSet(Lost(t)) /\ Cardinality(Lost(t)) \in Nat
          /\ Cardinality(Held(t)) \in Nat
      BY HeldFinite DEF RateInv
    <3>2. /\ IsFiniteSet(hits \cup Lost(t))
          /\ Cardinality(hits \cup Lost(t))
               = Cardinality(hits) + Cardinality(Lost(t)) - Cardinality(hits \cap Lost(t))
      BY <3>1, FS_Union
    <3>3. Cardinality(hits \cap Lost(t)) = 0
      <4>1. hits \cap Lost(t) = {}
        BY DEF Lost
      <4> QED
        BY <4>1, FS_EmptySet
    <3>4. Cardinality(Held(t)) <= Cardinality(hits \cup Lost(t))
      <4>1. Held(t) \in SUBSET (hits \cup Lost(t))
        BY DEF Lost
      <4> QED
        BY <3>2, <4>1, FS_Subset
    <3>5. Cardinality(Lost(t)) <= Cardinality(Calls)
      BY <2>1, <2>5 DEF BoundAt
    <3>6. /\ Cardinality(Pending({"record"}, t)') \in Nat /\ Cardinality(Calls) \in Nat
          /\ Cardinality(Pending({"record"}, t)') <= Cardinality(Calls)
      BY PendingFinite
    <3>7. Cardinality(Held(t)) + Cardinality(Pending({"record"}, t)')
            <= MaxRequests + 2 * Cardinality(Calls) - 1
      BY <3>1, <3>2, <3>3, <3>4, <3>5, <3>6, LimiterAssumption
    <3> QED
      BY <1>1, <2>1, <2>3, <2>5, <3>5, <3>7 DEF BoundAt
  <2> QED
    BY <2>3, <2>4, <2>5 DEF LogInv
<1> QED
  BY <1>3, <1>4 DEF RateInv

(* The member recorded is new. *)
LEMMA RecordBounded ==
  ASSUME LogInv, RateInv, NEW q \in Calls, Record(q)
  PROVE  RateInv'
<1>1. PICK now, n, m : /\ now = call[q].now /\ n = Cardinality({o \in recorded : o[1] = now})
                       /\ m = <<now, n>>
  OBVIOUS
<1>2. /\ call[q].step = "record" /\ Keep(q, "expire", m) /\ UNCHANGED <<clock, expiry>>
      /\ hits' = hits \cup {m} /\ recorded' = recorded \cup {m} /\ admitted' = admitted \cup {m}
  BY <1>1 DEF Record
<1>3. PICK c : Moves(q, c) /\ c.step = "expire" /\ c.found = m
  BY <1>2, KeepMoves
<1>4. IsFiniteSet(recorded) /\ now \in Nat /\ now <= clock /\ clock \in Nat
  BY <1>1, <1>2 DEF RateInv, RateTypes, LogInv, Asking
<1>5. m[1] = now /\ m[2] = n
  BY <1>1
<1>6. n \in Nat
  <2>1. {o \in recorded : o[1] = now} \in SUBSET recorded
    OBVIOUS
  <2> QED
    BY <1>1, <1>4, <2>1, FS_Subset, FS_CardinalityType
<1>7. m \notin recorded /\ m \notin admitted
  <2>1. SUFFICES ASSUME m \in recorded PROVE FALSE
    BY DEF RateInv, RateTypes
  <2>2. m[2] < Cardinality({o \in recorded : o[1] = m[1]})
    BY <2>1 DEF RateInv, RateTypes, MemberOK
  <2> QED
    BY <1>1, <1>5, <1>6, <2>2
<1>8. RateTypes'
  <2>1. IsFiniteSet(recorded') /\ hits' \subseteq recorded' /\ admitted' \subseteq recorded'
    BY <1>2, <1>4, FS_AddElement DEF RateInv, RateTypes
  <2>2. ASSUME NEW o \in recorded'
        PROVE  MemberOK(o)'
    <3>1. {p \in recorded : p[1] = o[1]} \in SUBSET {p \in recorded' : p[1] = o[1]}
      BY <1>2
    <3>2. IsFiniteSet({p \in recorded' : p[1] = o[1]})
      <4>1. {p \in recorded' : p[1] = o[1]} \in SUBSET recorded'
        OBVIOUS
      <4> QED
        BY <2>1, <4>1, FS_Subset
    <3>3. /\ Cardinality({p \in recorded : p[1] = o[1]}) \in Nat
          /\ Cardinality({p \in recorded' : p[1] = o[1]}) \in Nat
          /\ Cardinality({p \in recorded : p[1] = o[1]})
               <= Cardinality({p \in recorded' : p[1] = o[1]})
      BY <3>1, <3>2, FS_Subset, FS_CardinalityType
    <3>4. CASE o \in recorded
      <4>1. MemberOK(o)
        BY <3>4 DEF RateInv, RateTypes
      <4> QED
        BY <1>2, <3>3, <4>1 DEF MemberOK
    <3>5. CASE o = m
      <4>1. {p \in recorded' : p[1] = o[1]} = {p \in recorded : p[1] = o[1]} \cup {m}
        BY <1>2, <3>5
      <4>2. IsFiniteSet({p \in recorded : p[1] = o[1]}) /\ m \notin {p \in recorded : p[1] = o[1]}
        BY <1>7, <3>1, <3>2, FS_Subset
      <4>3. Cardinality({p \in recorded : p[1] = o[1]}) = n
        BY <1>1, <1>5, <3>5
      <4>4. Cardinality({p \in recorded' : p[1] = o[1]}) = n + 1
        BY <4>1, <4>2, <4>3, FS_AddElement
      <4> QED
        BY <1>2, <1>4, <1>5, <1>6, <3>5, <4>4 DEF MemberOK
    <3> QED
      BY <1>2, <3>4, <3>5
  <2>3. \A p \in Calls : call'[p].step \in Asking => call'[p].now \in Nat /\ call'[p].now <= clock'
    BY <1>2, <1>3 DEF RateInv, RateTypes, Moves, Asking
  <2> QED
    BY <1>2, <2>1, <2>2, <2>3 DEF RateInv, RateTypes
<1>9. ASSUME NEW t \in Nat
      PROVE  ExpiryAt(t)' /\ BoundAt(t)'
  <2>1. /\ ExpiryAt(t) /\ BoundAt(t)
        /\ IsFiniteSet(Held(t)) /\ Cardinality(Held(t)) \in Nat
        /\ Cardinality(Lost(t)) \in Nat
    BY HeldFinite DEF RateInv
  <2>2. /\ Cardinality(Pending({"record"}, t)) \in Nat /\ Cardinality(Pending({"expire"}, t)) \in Nat
        /\ Cardinality(Pending(Asking, t)) \in Nat /\ Cardinality(Calls) \in Nat
        /\ Cardinality(Pending({"record"}, t)') \in Nat
        /\ Cardinality(Pending({"expire"}, t)') \in Nat
        /\ Cardinality(Pending(Asking, t)') \in Nat
    BY PendingFinite
  <2>3. Lost(t)' = Lost(t)
    BY <1>2, <1>7 DEF Lost, Held, InWindow
  <2>4. CASE Within(now, t)
    <3>1. Held(t)' = Held(t) \cup {m} /\ m \notin Held(t)
      BY <1>2, <1>5, <1>7, <2>4 DEF Held, InWindow
    <3>2. Cardinality(Held(t)') = Cardinality(Held(t)) + 1
      BY <2>1, <3>1, FS_AddElement
    <3>3. Cardinality(Pending({"expire"}, t)') = Cardinality(Pending({"expire"}, t)) + 1
      BY <1>1, <1>2, <1>3, <2>4, PendingEntered
    <3>4. Cardinality(Pending({"record"}, t)') = Cardinality(Pending({"record"}, t)) - 1
      BY <1>1, <1>2, <1>3, <2>4, PendingLeft
    <3>5. Cardinality(Pending(Asking, t)') = Cardinality(Pending(Asking, t)) - 1
      BY <1>1, <1>2, <1>3, <2>4, PendingLeft DEF Asking
    <3>6. ExpiryAt(t)'
      BY <1>2, <2>1, <2>2, <3>2, <3>3 DEF ExpiryAt
    <3>7. BoundAt(t)'
      BY <1>2, <2>1, <2>2, <2>3, <3>2, <3>4, <3>5, LimiterAssumption DEF BoundAt
    <3> QED
      BY <3>6, <3>7
  <2>5. CASE ~Within(now, t)
    <3>1. Held(t)' = Held(t)
      BY <1>2, <1>5, <2>5 DEF Held, InWindow
    <3>2. /\ Pending({"expire"}, t)' = Pending({"expire"}, t)
          /\ Pending({"record"}, t)' = Pending({"record"}, t)
          /\ Pending(Asking, t)' = Pending(Asking, t)
      BY <1>1, <1>3, <2>5 DEF Pending, Moves
    <3> QED
      BY <1>2, <2>1, <2>3, <3>1, <3>2 DEF ExpiryAt, BoundAt
  <2> QED
    BY <2>4, <2>5
<1>10. Expiring'
  <2>1. \A p \in Calls \ {q} : call[p].step = "expire" => call[p].found \in admitted
    BY DEF RateInv, Expiring
  <2> QED
    BY <1>1, <1>2, <1>3, <1>5, <1>7, <2>1 DEF RateInv, Expiring, Moves
<1> QED
  BY <1>8, <1>9, <1>10 DEF RateInv

(* A TTL that ends within a window was given before it. *)
LEMMA ExpireBounded ==
  ASSUME LogInv, RateInv, NEW q \in Calls, Expire(q)
  PROVE  RateInv'
<1>1. /\ call[q].step = "expire" /\ Keep(q, "verify", None) /\ expiry' \in {clock + Window, None}
      /\ UNCHANGED <<clock, hits, recorded, admitted>>
  BY DEF Expire
<1>2. PICK c : Moves(q, c) /\ c.step = "verify"
  BY <1>1, KeepMoves
<1>3. clock \in Nat /\ Window \in Nat /\ None \notin Nat
  BY LimiterAssumption, AccountsAssumption DEF LogInv
<1>4. RateTypes' /\ Expiring'
  BY <1>1, <1>2, <1>3, ExpiringStays DEF RateInv, RateTypes, MemberOK, Moves, Asking
<1>5. ASSUME NEW t \in Nat
      PROVE  ExpiryAt(t)' /\ BoundAt(t)'
  <2>1. BoundAt(t) /\ Held(t)' = Held(t) /\ Lost(t)' = Lost(t)
    BY <1>1 DEF RateInv, Held, Lost
  <2>2. /\ Pending({"record"}, t)' = Pending({"record"}, t)
        /\ Pending(Asking, t)' = Pending(Asking, t)
    BY <1>1, <1>2, PendingStays DEF Asking
  <2>3. BoundAt(t)'
    BY <1>1, <2>1, <2>2 DEF BoundAt
  <2>4. CASE expiry' \in Nat /\ expiry' <= t
    <3>1. clock + Window <= t
      BY <1>1, <1>3, <2>4
    <3>2. ASSUME NEW m \in Held(t)
          PROVE  FALSE
      <4>1. m[1] \in Nat /\ m[1] <= clock /\ t < m[1] + Window
        BY DEF Held, InWindow, Within, RateInv, RateTypes, MemberOK
      <4> QED
        BY <1>3, <3>1, <4>1
    <3>3. Cardinality(Held(t)') = 0
      BY <2>1, <3>2, FS_EmptySet
    <3> QED
      BY <2>3, <3>3, PendingFinite DEF ExpiryAt
  <2>5. CASE ~(expiry' \in Nat /\ expiry' <= t)
    BY <2>3, <2>5 DEF ExpiryAt
  <2> QED
    BY <2>4, <2>5
<1> QED
  BY <1>4, <1>5 DEF RateInv

(* When the key expires within the window, the calls of the window that were let through *)
(* are still in the limiter. *)
LEMMA TickBounded ==
  ASSUME LogInv, RateInv, Tick
  PROVE  RateInv'
<1>1. /\ clock \in Nat /\ clock' = clock + 1 /\ UNCHANGED <<call, recorded, admitted>>
      /\ \/ expiry = clock + 1 /\ hits' = {} /\ expiry' = None
         \/ UNCHANGED <<hits, expiry>>
  BY DEF Tick, LogInv
<1>2. RateTypes' /\ Expiring'
  BY <1>1 DEF RateInv, RateTypes, Expiring, MemberOK
<1>3. ASSUME NEW t \in Nat
      PROVE  ExpiryAt(t)' /\ BoundAt(t)'
  <2>1. /\ ExpiryAt(t) /\ BoundAt(t) /\ Held(t)' = Held(t)
        /\ Cardinality(Held(t)) \in Nat
        /\ \A steps : Pending(steps, t)' = Pending(steps, t)
    BY <1>1, HeldFinite DEF RateInv, Held, Pending
  <2>2. ExpiryAt(t)'
    BY <1>1, <2>1, AccountsAssumption DEF ExpiryAt
  <2>3. /\ Cardinality(Pending({"record"}, t)) \in Nat /\ Cardinality(Pending({"expire"}, t)) \in Nat
        /\ Cardinality(Pending(Asking, t)) \in Nat /\ Cardinality(Calls) \in Nat
        /\ Cardinality(Calls) >= 1 /\ Cardinality(Pending(Asking, t)) <= Cardinality(Calls)
        /\ Cardinality(Pending({"record"}, t)) <= Cardinality(Calls)
        /\ Cardinality(Pending({"expire"}, t)) <= Cardinality(Calls)
    BY PendingFinite
  <2>4. CASE clock > t
    <3>1. Cardinality(Held(t)) + Cardinality(Pending(Asking, t))
            <= MaxRequests + 3 * Cardinality(Calls) - 1
      BY <1>1, <2>1, <2>4 DEF BoundAt
    <3> QED
      BY <1>1, <2>1, <2>2, <2>4, <3>1 DEF BoundAt
  <2>5. CASE clock = t
    <3>1. /\ Cardinality(Held(t)) + Cardinality(Pending({"record"}, t))
              <= MaxRequests + 2 * Cardinality(Calls) - 1
      BY <2>1, <2>5 DEF BoundAt
    <3>2. Cardinality(Held(t)) + Cardinality(Pending(Asking, t))
              <= MaxRequests + 3 * Cardinality(Calls) - 1
      BY <2>1, <2>3, <3>1, LimiterAssumption
    <3> QED
      BY <1>1, <2>1, <2>2, <2>5, <3>2 DEF BoundAt
  <2>6. CASE clock < t /\ UNCHANGED hits
    BY <1>1, <2>1, <2>2, <2>6 DEF BoundAt, Lost
  <2>7. CASE clock < t /\ expiry = clock + 1 /\ hits' = {}
    <3>1. Cardinality(Held(t)) <= Cardinality(Pending({"expire"}, t))
      BY <1>1, <2>1, <2>7 DEF ExpiryAt
    <3>2. Lost(t)' = Held(t)
      BY <2>1, <2>7 DEF Lost
    <3>3. Cardinality(Held(t)) + Cardinality(Pending({"record"}, t)) <= 2 * Cardinality(Calls)
      BY <2>1, <2>3, <3>1
    <3>4. /\ Cardinality(Held(t)) <= Cardinality(Calls)
          /\ Cardinality(Held(t)) + Cardinality(Pending({"record"}, t))
              <= MaxRequests + 2 * Cardinality(Calls) - 1
      BY <2>1, <2>3, <3>1, <3>3, LimiterAssumption
    <3> QED
      BY <1>1, <2>1, <2>2, <2>7, <3>2, <3>4 DEF BoundAt
  <2> QED
    <3>1. clock > t \/ clock = t \/ clock < t
      BY <1>1
    <3>2. UNCHANGED hits \/ (expiry = clock + 1 /\ hits' = {})
      BY <1>1
    <3> QED
      BY <3>1, <3>2, <2>4, <2>5, <2>6, <2>7
<1> QED
  BY <1>2, <1>3 DEF RateInv

-----------------------------------------------------------------------------
(* A call comes with the time it is. *)
LEMMA BeginBounded ==
  ASSUME LogInv, RateInv, NEW q \in Calls, Begin(q)
  PROVE  RateInv'
<1>1. PICK r \in workload.asks, step \in {"prune", "verify"} :
        Arrive(q, r, step, r.token \in loggedOut)
  BY DEF Begin
<1>2. PICK c : c = [Idle EXCEPT !.step = step, !.request = r, !.now = clock,
                                !.late = (r.token \in loggedOut)]
  OBVIOUS
<1>3. c.step = step /\ c.now = clock
  BY <1>2 DEF Idle
<1>4. /\ call' = [call EXCEPT ![q] = c] /\ call = [p \in Calls |-> call[p]]
      /\ call[q].step = "answered" /\ UNCHANGED <<clock, hits, expiry, recorded, admitted>>
  BY <1>1, <1>2 DEF Arrive, Become, LogInv, CallsOK
<1>5. call'[q] = c /\ \A p \in Calls \ {q} : call'[p] = call[p]
  BY <1>4
<1>6. clock \in Nat
  BY DEF LogInv
<1>7. RateTypes'
  <2>1. \A p \in Calls : call'[p].step \in Asking => call'[p].now \in Nat /\ call'[p].now <= clock
    BY <1>3, <1>5, <1>6 DEF RateInv, RateTypes
  <2> QED
    BY <1>4, <2>1 DEF RateInv, RateTypes, MemberOK
<1>8. ASSUME NEW t \in Nat
      PROVE  ExpiryAt(t)' /\ BoundAt(t)'
  <2>1. ExpiryAt(t) /\ BoundAt(t) /\ Held(t)' = Held(t) /\ Lost(t)' = Lost(t)
    BY <1>4 DEF RateInv, Held, Lost
  <2>2. /\ Pending({"expire"}, t)' = Pending({"expire"}, t)
        /\ Pending({"record"}, t)' = Pending({"record"}, t)
    BY <1>3, <1>4, <1>5 DEF Pending
  <2>3. ExpiryAt(t)'
    BY <1>4, <2>1, <2>2 DEF ExpiryAt
  <2>4. CASE clock <= t
    BY <1>4, <2>1, <2>2, <2>3, <2>4 DEF BoundAt
  <2>5. CASE clock > t
    <3>1. ~(clock <= t)
      BY <1>6, <2>5
    <3>2. Pending(Asking, t)' = Pending(Asking, t)
      BY <1>3, <1>4, <1>5, <3>1 DEF Pending, Within, Asking
    <3> QED
      BY <1>4, <2>1, <2>3, <3>1, <3>2 DEF BoundAt
  <2> QED
    BY <1>6, <2>4, <2>5
<1>9. Expiring'
  BY <1>3, <1>4, <1>5 DEF RateInv, Expiring
<1> QED
  BY <1>7, <1>8, <1>9 DEF RateInv

(* A call that has passed the limiter does not come back, and one that is refused leaves. *)
LEMMA PassedBounded ==
  ASSUME LogInv, RateInv, NEW q \in Calls, NEW c, NEW rd, NEW wr, Become(q, c, rd, wr),
         call[q].step # "expire", c.step \notin Limited, UNCHANGED <<clock, hits, expiry, recorded, admitted>>
  PROVE  RateInv'
<1>1. call' = [call EXCEPT ![q] = c] /\ call = [p \in Calls |-> call[p]]
  BY DEF Become, LogInv, CallsOK
<1>2. call'[q] = c /\ \A p \in Calls \ {q} : call'[p] = call[p]
  BY <1>1
<1> QED
  BY <1>2, RateQuiet

LEMMA AnswerBounded ==
  ASSUME LogInv, RateInv, NEW q \in Calls, NEW st, Answer(q, st), call[q].step # "expire",
         UNCHANGED <<clock, hits, expiry, recorded, admitted>>
  PROVE  RateInv'
<1>1. Answered(q, st).step \notin Limited
  BY DEF Answered, Idle, Asking, Limited
<1> QED
  BY <1>1, PassedBounded DEF Answer

LEMMA GotoBounded ==
  ASSUME LogInv, RateInv, NEW q \in Calls, NEW step, Goto(q, step), call[q].step # "expire",
         step \notin Limited, UNCHANGED <<clock, hits, expiry, recorded, admitted>>
  PROVE  RateInv'
<1>1. PICK c : c = [call[q] EXCEPT !.step = step]
  OBVIOUS
<1>2. c.step = step
  BY <1>1, StepRecord DEF LogInv
<1>3. Become(q, c, {}, {})
  BY <1>1 DEF Goto
<1> QED
  BY <1>2, <1>3, PassedBounded

LEMMA LimitBounded ==
  ASSUME LogInv, RateInv, NEW q \in Calls, Limit(q)
  PROVE  RateInv'
<1>1. CASE Count(q) /\ Cardinality(hits) >= MaxRequests
  <2>1. call[q].step # "expire" /\ Answer(q, 429) /\ UNCHANGED <<clock, hits, expiry, recorded, admitted>>
    BY <1>1 DEF Count
  <2> QED
    BY <2>1, AnswerBounded
<1>2. CASE Count(q) /\ ~(Cardinality(hits) >= MaxRequests)
  <2>1. Cardinality(hits) < MaxRequests
    BY <1>2, HeldFinite, LimiterAssumption DEF RateInv
  <2> QED
    BY <1>2, <2>1, CountBounded
<1> QED
  BY <1>1, <1>2, PruneBounded, RecordBounded, ExpireBounded DEF Limit

LEMMA VerifyBounded ==
  ASSUME LogInv, RateInv, NEW q \in Calls, Verify(q)
  PROVE  RateInv'
<1> DEFINE t == call[q].request.token
<1>1. call[q].step # "expire" /\ UNCHANGED <<clock, hits, expiry, recorded, admitted>>
  BY DEF Verify
<1>2. CASE Answer(q, 401)
  BY <1>1, <1>2, AnswerBounded
<1>3. CASE Goto(q, "handler")
  BY <1>1, <1>3, GotoBounded DEF Asking, Limited
<1>4. CASE Become(q, [call[q] EXCEPT !.step = "revoked", !.user = tokens[t].user], {}, {})
  <2>1. PICK c : c = [call[q] EXCEPT !.step = "revoked", !.user = tokens[t].user]
    OBVIOUS
  <2>2. c.step = "revoked"
    BY <2>1 DEF LogInv, CallsOK, IsCall
  <2>3. Become(q, c, {}, {})
    BY <1>4, <2>1
  <2> QED
    BY <1>1, <2>2, <2>3, PassedBounded DEF Asking, Limited
<1> QED
  BY <1>2, <1>3, <1>4 DEF Verify

LEMMA CheckRevokedBounded ==
  ASSUME LogInv, RateInv, NEW q \in Calls, CheckRevoked(q)
  PROVE  RateInv'
<1>1. call[q].step # "expire" /\ UNCHANGED <<clock, hits, expiry, recorded, admitted>>
  BY DEF CheckRevoked
<1>2. Answer(q, 401) \/ Goto(q, "handler") \/ Goto(q, "cached")
  BY DEF CheckRevoked
<1> QED
  BY <1>1, <1>2, AnswerBounded, GotoBounded DEF Asking, Limited

(* The handlers. *)
LEMMA HandlerBounded ==
  ASSUME LogInv, RateInv, NEW q \in Calls,
         AccountReads(q) \/ SignToken(q) \/ Logout(q) \/ Project(q) \/ Field(q)
  PROVE  RateInv'
<1>1. Proceeds(q) /\ call[q].step \notin Early
  <2>1. CASE SignToken(q) \/ Logout(q)
    BY <2>1, AnswerProceeds DEF SignToken, Logout, LogInv, At, Early, Unverified
  <2> QED
    BY <2>1, AccountProceeds, ProjectProceeds, FieldProceeds
<1>2. UNCHANGED <<clock, hits, expiry, recorded, admitted>>
  <2>1. CASE AccountReads(q) \/ SignToken(q) \/ Logout(q)
    BY <2>1 DEF AccountReads, FindEmail, SaveUser, CheckPassword, SignToken, Logout
  <2>2. CASE Project(q)
    BY <2>2 DEF Project, CachedRole, ReadRole, FindKey, SaveProject, SaveAdmin, FindProject,
       FindMembership, CachedList, QueryList, ListMembers, UpdateProject, DeleteProject,
       FindMember, SaveMember, RemoveMember, Settled, Same
  <2>3. CASE Field(q)
    BY <2>3 DEF Field, ListDefinitions, CreateDefinition, FindDefinition, UpdateDefinition,
       DeleteValues, DeleteDefinition, ListValues, CheckValue, FindValue, SaveValue, ClearValue,
       Others
  <2> QED
    BY <2>1, <2>2, <2>3
<1>3. \A p \in Calls : \/ call'[p] = call[p]
                       \/ call'[p].step \notin Limited /\ call[p].step # "expire"
  BY <1>1 DEF Proceeds, LogInv, CallsOK, Early, Unverified, Asking, Limited
<1> QED
  BY <1>2, <1>3, RateQuiet

(* A call whose TTL fails is not let through: its member, which Redis keeps, is none of   *)
(* those held any more.                                                                  *)
LEMMA FailsBounded ==
  ASSUME LogInv, RateInv, NEW q \in Calls, Fails(q)
  PROVE  RateInv'
<1>1. PICK c : Become(q, c, {}, {}) /\ c.step = "answered"
  BY FailsAnswers
<1>2. /\ call' = [call EXCEPT ![q] = c] /\ call = [p \in Calls |-> call[p]]
      /\ UNCHANGED <<clock, hits, expiry, recorded>>
  BY <1>1 DEF Become, LogInv, CallsOK, Fails
<1>3. call'[q] = c /\ \A p \in Calls \ {q} : call'[p] = call[p]
  BY <1>2
<1>4. CASE call[q].step # "expire"
  <2>1. UNCHANGED admitted
    BY <1>4 DEF Fails
  <2> QED
    BY <1>1, <1>2, <1>3, <1>4, <2>1, RateQuiet DEF Limited, Asking
<1>5. CASE call[q].step = "expire"
  <2>1. PICK m : m = call[q].found
    OBVIOUS
  <2>2. /\ admitted' = admitted \ {m} /\ m \in admitted /\ m[1] = call[q].now
        /\ \A p \in Calls \ {q} : call[p].step = "expire" => call[p].found # m
    BY <1>5, <2>1 DEF Fails, RateInv, Expiring
  <2>3. RateTypes'
    BY <1>1, <1>2, <1>3, <2>2 DEF RateInv, RateTypes, MemberOK, Asking
  <2>4. Expiring'
    BY <1>1, <1>3, <2>2 DEF RateInv, Expiring
  <2>5. ASSUME NEW t \in Nat
        PROVE  ExpiryAt(t)' /\ BoundAt(t)'
    <3>1. /\ ExpiryAt(t) /\ BoundAt(t) /\ IsFiniteSet(Held(t)) /\ Cardinality(Held(t)) \in Nat
          /\ IsFiniteSet(Lost(t)) /\ Cardinality(Lost(t)) \in Nat
      BY HeldFinite DEF RateInv
    <3>2. /\ Cardinality(Held(t)') \in Nat /\ Cardinality(Held(t)') <= Cardinality(Held(t))
          /\ Cardinality(Lost(t)') \in Nat /\ Cardinality(Lost(t)') <= Cardinality(Lost(t))
      <4>1. Held(t)' \in SUBSET Held(t) /\ Lost(t)' \in SUBSET Lost(t)
        BY <1>2, <2>2 DEF Held, Lost, InWindow
      <4> QED
        BY <3>1, <4>1, FS_Subset, FS_CardinalityType
    <3>3. /\ Pending({"record"}, t)' = Pending({"record"}, t)
          /\ Pending(Asking, t)' = Pending(Asking, t)
      BY <1>1, <1>3, <1>5 DEF Pending, Asking
    <3>4. /\ Cardinality(Calls) \in Nat /\ MaxRequests \in Nat
          /\ Cardinality(Pending({"record"}, t)) \in Nat /\ Cardinality(Pending(Asking, t)) \in Nat
          /\ IsFiniteSet(Pending({"expire"}, t)) /\ Cardinality(Pending({"expire"}, t)) \in Nat
          /\ Cardinality(Pending({"expire"}, t)') \in Nat
      BY PendingFinite, LimiterAssumption
    <3>5. BoundAt(t)'
      BY <1>2, <3>1, <3>2, <3>3, <3>4 DEF BoundAt
    <3>6. CASE Within(call[q].now, t)
      <4>1. /\ Held(t)' = Held(t) \ {m} /\ m \in Held(t)
            /\ Pending({"expire"}, t)' = Pending({"expire"}, t) \ {q} /\ q \in Pending({"expire"}, t)
        BY <1>1, <1>3, <1>5, <2>2, <3>6 DEF Held, InWindow, Pending
      <4>2. /\ Cardinality(Held(t)') = Cardinality(Held(t)) - 1
            /\ Cardinality(Pending({"expire"}, t)') = Cardinality(Pending({"expire"}, t)) - 1
        <5>1. Cardinality(Held(t) \ {m}) = Cardinality(Held(t)) - 1
          BY <3>1, <4>1, FS_RemoveElement
        <5>2. Cardinality(Pending({"expire"}, t) \ {q}) = Cardinality(Pending({"expire"}, t)) - 1
          BY <3>4, <4>1, FS_RemoveElement
        <5> QED
          BY <4>1, <5>1, <5>2
      <4>3. ExpiryAt(t)'
        BY <1>2, <3>1, <3>4, <4>2 DEF ExpiryAt
      <4> QED
        BY <3>5, <4>3
    <3>7. CASE ~Within(call[q].now, t)
      <4>1. Held(t)' = Held(t) /\ Pending({"expire"}, t)' = Pending({"expire"}, t)
        BY <1>1, <1>3, <2>2, <3>7 DEF Held, InWindow, Pending
      <4>2. ExpiryAt(t)'
        BY <1>2, <3>1, <4>1 DEF ExpiryAt
      <4> QED
        BY <3>5, <4>2
    <3> QED
      BY <3>6, <3>7
  <2> QED
    BY <2>3, <2>4, <2>5 DEF RateInv
<1> QED
  BY <1>4, <1>5

LEMMA InitRateInv == Init => RateInv
<1> SUFFICES ASSUME Init PROVE RateInv
  OBVIOUS
<1>1. /\ clock = 0 /\ hits = {} /\ recorded = {} /\ admitted = {} /\ expiry = None
      /\ \A q \in Calls : call[q].step = "answered"
  BY DEF Init, Idle
<1>2. RateTypes /\ Expiring
  BY <1>1, FS_EmptySet DEF RateTypes, Expiring, Asking
<1>3. ASSUME NEW t \in Nat
      PROVE  ExpiryAt(t) /\ BoundAt(t)
  <2>1. Held(t) = {} /\ Lost(t) = {} /\ Pending({"record"}, t) = {} /\ Pending(Asking, t) = {}
    BY <1>1 DEF Held, Lost, InWindow, Pending, Asking
  <2>2. Cardinality({}) = 0 /\ Cardinality(Calls) \in Nat /\ Cardinality(Calls) >= 1
    BY PendingFinite, FS_EmptySet
  <2>3. ExpiryAt(t)
    BY <1>1, AccountsAssumption DEF ExpiryAt
  <2>4. /\ Cardinality(Lost(t)) = 0 /\ Cardinality(Held(t)) = 0
        /\ Cardinality(Pending({"record"}, t)) = 0
    BY <2>1, <2>2
  <2>5. BoundAt(t)
    BY <1>1, <2>2, <2>4, LimiterAssumption DEF BoundAt
  <2> QED
    BY <2>3, <2>5
<1> QED
  BY <1>2, <1>3 DEF RateInv

LEMMA NextBounded ==
  ASSUME LogInv, RateInv, [Next]_vars
  PROVE  RateInv'
<1>1. CASE UNCHANGED <<clock, call, hits, expiry, recorded, admitted>>
  BY <1>1, RateQuiet
<1>2. CASE \E q \in workload.calls : Begin(q) \/ Handle(q)
  <2>1. PICK q \in Calls : Begin(q) \/ Handle(q)
    BY <1>2 DEF LogInv, Workload
  <2>2. CASE Redis(q)
    BY <2>2, <1>1 DEF Redis, limiterVars
  <2>3. CASE Account(q)
    BY <2>3, VerifyBounded, CheckRevokedBounded, HandlerBounded DEF Account, AccountReads
  <2> QED
    BY <2>1, <2>2, <2>3, BeginBounded, LimitBounded, HandlerBounded, FailsBounded DEF Handle
<1>3. CASE Tick
  BY <1>3, TickBounded
<1>4. CASE UNCHANGED limiterVars
  BY <1>1, <1>4 DEF limiterVars
<1>5. \/ \E q \in workload.calls : Begin(q) \/ Handle(q)
      \/ Tick \/ UNCHANGED limiterVars
  BY DEF Next, vars, RoleExpires, ListExpires
<1> QED
  BY <1>2, <1>3, <1>4, <1>5

LEMMA RateBound == RateInv => RateBounded
<1> SUFFICES ASSUME RateInv, NEW t \in Times
             PROVE  Cardinality(InWindow(admitted, t)) <= MaxRequests + 3 * Cardinality(Calls) - 1
  BY DEF RateBounded
<1>1. t \in Nat
  BY LimiterAssumption DEF Times
<1>2. BoundAt(t) /\ Cardinality(Held(t)) \in Nat
  BY <1>1, HeldFinite DEF RateInv
<1>3. Cardinality(Held(t)) <= MaxRequests + 3 * Cardinality(Calls) - 1
  BY <1>2, PendingFinite, LimiterAssumption DEF BoundAt
<1> QED
  BY <1>3 DEF Held

(* For any number of processes, any limit and any window: of the calls that came within  *)
(* a window, at most the limit and three more for each process, less one, are let         *)
(* through, however the commands of the limiter fail, and interleave with one another and *)
(* with the expiry of the key (src/src/core/middleware/rateLimiter.ts).                            *)
THEOREM CallsLimited == Spec => []RateBounded
<1>1. LogInv /\ RateInv /\ [Next]_vars => LogInv' /\ RateInv'
  BY NextKeeps, NextBounded
<1> QED
  BY <1>1, InitLogInv, InitRateInv, RateBound, PTL DEF Spec
=============================================================================
