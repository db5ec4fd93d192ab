---------------------------- MODULE HandlersProofs ----------------------------
(***************************************************************************)
(* Proofs about Access: the role that requireProjectRole finds in its      *)
(* cache is the one the user has, but for the races RoleCacheTrue names;   *)
(* and a call is answered 500 only for a race, or what                     *)
(* ServerErrorsAreRaces names besides.                                     *)
(*                                                                         *)
(* The danger for the cache is a write of a role that invalidates nothing: *)
(* create and addMember do not touch it.  That it is no danger rests on    *)
(* protocol: nobody has a role in a project, cached or on its way to the   *)
(* cache, before its creator has (Begun).                                  *)
(*                                                                         *)
(* The races rest on what a call has found before its save (Found), which  *)
(* stays so until another call writes one of the rows it has read          *)
(* (Covered, FoundStays).                                                  *)
(***************************************************************************)
EXTENDS AccessProofs, SequenceTheorems

(* A project is begun when the second save of create is over. *)
Begun(p) == projects[p] # None /\ \A q \in Calls : call[q].step = "admin" => call[q].found # p

Command ==
  {c \in [cmd: {"setRole", "delRole", "setList", "delList"}, project: ProjectIds \cup {None},
          user: Users \cup {None}, value: Roles \cup (SUBSET ProjectIds) \cup {None}] :
     /\ c.cmd = "setRole" => c.value \in Roles
     /\ c.cmd \in {"setRole", "delRole"} => c.project \in ProjectIds /\ c.user \in Users
     /\ c.cmd \in {"setList", "delList"} => c.value \in (SUBSET ProjectIds) \cup {None}}

(* What Redis has yet to execute. *)
Waiting == {c \in Command : \E q \in Calls : \E k \in DOMAIN sent[q] : sent[q][k] = c}

(* What a call is known to have passed at each step. *)
InProject(c, steps, ops) ==
  c.step \in steps /\ c.request.op \in ops /\ c.request.project \in ProjectIds

(* A route that asks for a role has a project in its path. *)
InPath(r) == Complete(r) /\ (MinRole(r.op) # None => r.project \in ProjectIds)

Passed(c) ==
  /\ c.step # "answered" => InPath(c.request)
  /\ c.step \in {"cached", "member"} => MinRole(c.request.op) # None
  /\ c.step \notin Unverified \cup {"answered"} /\ c.request.op \notin Public => c.user \in Users
  /\ c.step = "sign" => c.found \in Users
  /\ InProject(c, {"handler", "save"}, {"addMember"}) => Begun(c.request.project)
  /\ InProject(c, {"found"}, {"updateProject", "deleteProject"})
       => projects[c.request.project] # None
  /\ c.step = "admin" => c.found \in ProjectIds /\ projects[c.found] # None

UsersKnown == \A t \in Tokens : tokens[t] # None => tokens[t].user \in Users

RoleTypes ==
  /\ projects \in [ProjectIds -> ProjectRow \cup {None}]
  /\ members \in [Pairs -> Roles \cup {None}] /\ roleCache \in [Pairs -> Roles \cup {None}]
  /\ sent \in [Calls -> Seq(Command)]
  /\ UsersKnown
  /\ \A r \in workload.asks : InPath(r)

CallsInv ==
  /\ \A q \in Calls : Passed(call[q])
  /\ \A q, o \in Calls : call[q].step = "admin" /\ call[o].step = "admin" /\ q # o
                           => call[q].found # call[o].found

(* No role of any kind in a project that is not begun. *)
BegunInv ==
  /\ \A k \in Pairs : members[k] # None \/ roleCache[k] # None => Begun(k[1])
  /\ \A c \in Waiting : c.cmd = "setRole" /\ c.project \in ProjectIds => Begun(c.project)

RoleInv == RoleTypes /\ CallsInv /\ BegunInv /\ RoleCacheTrue

-----------------------------------------------------------------------------
(* What a process sends waits until Redis executes it. *)
LEMMA SendWaits ==
  ASSUME RoleTypes, NEW q \in Calls, NEW cmds \in Seq(Command), Send(q, cmds)
  PROVE  /\ sent' \in [Calls -> Seq(Command)]
         /\ Waiting' = Waiting \cup {cmds[k] : k \in DOMAIN cmds}
<1>1. sent \in [Calls -> Seq(Command)]
  BY DEF RoleTypes
<1>2. PICK old \in Seq(Command) : old = sent[q]
  BY <1>1
<1>3. PICK new : new = old \o cmds
  OBVIOUS
<1>4. /\ new \in Seq(Command) /\ Len(new) = Len(old) + Len(cmds)
      /\ \A i \in 1 .. Len(old) + Len(cmds) :
           new[i] = IF i <= Len(old) THEN old[i] ELSE cmds[i - Len(old)]
  BY <1>3, ConcatProperties
<1>5. sent' = [sent EXCEPT ![q] = new]
  BY <1>2, <1>3 DEF Send
<1>6. /\ sent' \in [Calls -> Seq(Command)] /\ sent'[q] = new
      /\ \A o \in Calls \ {q} : sent'[o] = sent[o]
  BY <1>1, <1>4, <1>5
<1>7. Len(old) \in Nat /\ Len(cmds) \in Nat
  OBVIOUS
<1>8. \A k \in DOMAIN old : k \in DOMAIN new /\ new[k] = old[k]
  BY <1>4, <1>7
<1>9. \A k \in DOMAIN cmds : k + Len(old) \in DOMAIN new /\ new[k + Len(old)] = cmds[k]
  BY <1>4, <1>7
<1>10. \A k \in DOMAIN new : \/ k \in DOMAIN old /\ new[k] = old[k]
                             \/ k - Len(old) \in DOMAIN cmds /\ new[k] = cmds[k - Len(old)]
  BY <1>4, <1>7
<1>11. \A k \in DOMAIN cmds : cmds[k] \in Command
  OBVIOUS
<1>12. ASSUME NEW c \in Waiting PROVE c \in Waiting'
  BY <1>2, <1>6, <1>8 DEF Waiting
<1>13. ASSUME NEW k \in DOMAIN cmds PROVE cmds[k] \in Waiting'
  BY <1>6, <1>9, <1>11 DEF Waiting
<1>14. ASSUME NEW c \in Waiting' PROVE c \in Waiting \/ \E k \in DOMAIN cmds : c = cmds[k]
  <2>1. PICK o, k : o \in Calls /\ k \in DOMAIN sent'[o] /\ sent'[o][k] = c
    BY DEF Waiting
  <2>2. c \in Command
    BY DEF Waiting
  <2>3. CASE o # q
    BY <1>6, <2>1, <2>2, <2>3 DEF Waiting
  <2>4. CASE o = q
    BY <1>2, <1>6, <1>10, <2>1, <2>2, <2>4 DEF Waiting
  <2> QED
    BY <2>3, <2>4
<1> QED
  BY <1>6, <1>12, <1>13, <1>14

LEMMA ExecutedWaits ==
  ASSUME RoleTypes, NEW q \in Calls, sent[q] # <<>>, sent' = [sent EXCEPT ![q] = Tail(@)]
  PROVE  /\ sent' \in [Calls -> Seq(Command)] /\ Head(sent[q]) \in Waiting
         /\ Waiting' \subseteq Waiting
         /\ Waiting \subseteq Waiting' \cup {Head(sent[q])}
<1>1. sent \in [Calls -> Seq(Command)]
  BY DEF RoleTypes
<1>2. PICK old \in Seq(Command) : old = sent[q] /\ old # <<>>
  BY <1>1
<1>3. PICK new : new = Tail(old)
  OBVIOUS
<1>4. /\ Head(old) \in Command /\ new \in Seq(Command) /\ Len(new) = Len(old) - 1
      /\ \A i \in 1 .. Len(new) : new[i] = old[i + 1]
  BY <1>2, <1>3, HeadTailProperties
<1>5. Len(old) \in Nat \ {0} /\ DOMAIN old = 1 .. Len(old) /\ Head(old) = old[1]
  BY <1>2, EmptySeq
<1>6. /\ sent' \in [Calls -> Seq(Command)] /\ sent'[q] = new
      /\ \A o \in Calls \ {q} : sent'[o] = sent[o]
  BY <1>1, <1>2, <1>3, <1>4
<1>7. DOMAIN new = 1 .. Len(new)
  BY <1>4
<1>8. \A k \in DOMAIN new : k + 1 \in DOMAIN old /\ new[k] = old[k + 1]
  BY <1>4, <1>5, <1>7
<1>9. \A k \in DOMAIN old : k = 1 \/ (k - 1 \in DOMAIN new /\ new[k - 1] = old[k])
  BY <1>4, <1>5, <1>7
<1>10. Head(old) \in Waiting
  BY <1>2, <1>4, <1>5 DEF Waiting
<1>11. ASSUME NEW c \in Waiting' PROVE c \in Waiting
  <2>1. PICK o, k : o \in Calls /\ k \in DOMAIN sent'[o] /\ sent'[o][k] = c /\ c \in Command
    BY DEF Waiting
  <2> QED
    BY <1>2, <1>6, <1>8, <2>1 DEF Waiting
<1>12. ASSUME NEW c \in Waiting, c # Head(old) PROVE c \in Waiting'
  <2>1. PICK o, k : o \in Calls /\ k \in DOMAIN sent[o] /\ sent[o][k] = c /\ c \in Command
    BY DEF Waiting
  <2>2. CASE o # q
    BY <1>6, <2>1, <2>2 DEF Waiting
  <2>3. CASE o = q
    <3>1. k - 1 \in DOMAIN new /\ new[k - 1] = c
      BY <1>2, <1>5, <1>9, <1>12, <2>1, <2>3
    <3> QED
      BY <1>6, <2>1, <3>1 DEF Waiting
  <2> QED
    BY <2>2, <2>3
<1> QED
  BY <1>2, <1>6, <1>10, <1>11, <1>12

(* What is waiting tells whether a removal is under way. *)
LEMMA UnderWayWaits ==
  ASSUME RoleTypes, NEW p, NEW u
  PROVE  RemovalUnderWay(p, u) <=>
           \E c \in Waiting : c.cmd = "delRole" /\ c.project = p /\ c.user = u
<1>1. \A q \in Calls : \A k \in DOMAIN sent[q] : sent[q][k] \in Command
  BY DEF RoleTypes
<1> QED
  BY <1>1 DEF RemovalUnderWay, Waiting

-----------------------------------------------------------------------------
(* The commands that a step may send: roles in projects that are begun, removals, and    *)
(* what only lists are about.                                                            *)
Sends ==
  /\ sent' \in [Calls -> Seq(Command)] /\ Waiting \subseteq Waiting'
  /\ \A c \in Waiting' : \/ c \in Waiting
                         \/ c.cmd # "setRole"
                         \/ c.project \in ProjectIds => Begun(c.project)

LEMMA SendsNothing ==
  ASSUME RoleTypes, UNCHANGED sent
  PROVE  Sends
BY DEF RoleTypes, Sends, Waiting

LEMMA SendsLists ==
  ASSUME RoleTypes, NEW q \in Calls, NEW u \in Users \cup {None}, NEW cmd \in {"setList", "delList"},
         NEW list \in (SUBSET ProjectIds) \cup {None}, Send(q, <<Cmd(cmd, None, u, list)>>)
  PROVE  Sends
<1>1. PICK c \in Command : c = Cmd(cmd, None, u, list) /\ c.cmd = cmd
  BY DEF Cmd, Command
<1>2. PICK cmds \in Seq(Command) : cmds = <<c>> /\ \A k \in DOMAIN cmds : cmds[k] = c
  <2>1. <<c>> \in Seq(Command) /\ \A k \in DOMAIN <<c>> : <<c>>[k] = c
    OBVIOUS
  <2> QED
    BY <2>1
<1>3. sent' \in [Calls -> Seq(Command)] /\ Waiting' = Waiting \cup {cmds[k] : k \in DOMAIN cmds}
  BY <1>1, <1>2, SendWaits
<1> QED
  BY <1>1, <1>2, <1>3 DEF Sends

(* A call goes on, and no project or cached role changes; a member whose role changes has  *)
(* none cached, or one that RoleCacheTrue excuses.                                       *)
LEMMA MembersKeep ==
  ASSUME RoleInv, CallsOK, NEW q \in Calls, NEW c, NEW rd, NEW wr, Become(q, c, rd, wr), Passed(c),
         c.step # "admin", call[q].step # "admin", Sends, UsersKnown',
         UNCHANGED <<workload, projects, roleCache, misfilled>>,
         members' \in [Pairs -> Roles \cup {None}],
         \A k \in Pairs : members'[k] # None => Begun(k[1]),
         \A p \in ProjectIds, u \in Users :
           members'[<<p, u>>] # members[<<p, u>>] =>
             roleCache[<<p, u>>] = None \/ <<p, u>> \in misfilled \/ RemovalUnderWay(p, u)'
  PROVE  RoleInv'
<1>1. call'[q] = c /\ \A o \in Calls \ {q} : call'[o] = call[o]
  BY DEF Become, CallsOK
<1>2. \A p : Begun(p) => Begun(p)'
  BY <1>1 DEF Begun
<1>3. RoleTypes'
  BY DEF RoleInv, RoleTypes, Sends
<1>4. \A o \in Calls : Passed(call[o])'
  BY <1>1, <1>2 DEF RoleInv, CallsInv, Passed, InProject
<1>5. CallsInv'
  BY <1>1, <1>4 DEF RoleInv, CallsInv
<1>6. BegunInv'
  <2>1. \A k \in Pairs : k[1] \in ProjectIds
    BY DEF Pairs
  <2>2. \A x \in Waiting' : x.cmd = "setRole" /\ x.project \in ProjectIds => Begun(x.project)
    BY DEF RoleInv, BegunInv, Sends
  <2> QED
    BY <1>2, <2>1, <2>2 DEF RoleInv, BegunInv
<1>7. ASSUME NEW p \in ProjectIds, NEW u \in Users, RemovalUnderWay(p, u)
      PROVE  RemovalUnderWay(p, u)'
  <2>1. PICK x \in Waiting : x.cmd = "delRole" /\ x.project = p /\ x.user = u
    BY <1>7, UnderWayWaits DEF RoleInv
  <2>2. PICK o, k : o \in Calls /\ k \in DOMAIN sent'[o] /\ sent'[o][k] = x
    BY <2>1 DEF Sends, Waiting
  <2> QED
    BY <2>1, <2>2 DEF RemovalUnderWay
<1>8. RoleCacheTrue'
  BY <1>7 DEF RoleInv, RoleCacheTrue
<1> QED
  BY <1>3, <1>5, <1>6, <1>8 DEF RoleInv

LEMMA QuietKeeps ==
  ASSUME RoleInv, CallsOK, NEW q \in Calls, NEW c, NEW rd, NEW wr, Become(q, c, rd, wr), Passed(c),
         c.step # "admin", call[q].step # "admin", Sends, UsersKnown',
         UNCHANGED <<workload, projects, members, roleCache, misfilled>>
  PROVE  RoleInv'
<1>1. members' \in [Pairs -> Roles \cup {None}] /\ \A k \in Pairs : members'[k] # None => Begun(k[1])
  BY DEF RoleInv, RoleTypes, BegunInv
<1> QED
  BY <1>1, MembersKeep

LEMMA AnswerQuiet ==
  ASSUME RoleInv, CallsOK, NEW q \in Calls, NEW st, NEW rd, NEW wr,
         Become(q, Answered(q, st), rd, wr), call[q].step # "admin", Sends,
         UNCHANGED <<workload, tokens, projects, members, roleCache, misfilled>>
  PROVE  RoleInv'
<1>1. PICK c : c = Answered(q, st)
  OBVIOUS
<1>2. c.step = "answered"
  BY <1>1 DEF Answered, Idle
<1>3. Passed(c)
  BY <1>2 DEF Passed, InProject
<1>4. Become(q, c, rd, wr)
  BY <1>1
<1> QED
  BY <1>2, <1>3, <1>4, QuietKeeps DEF RoleInv, RoleTypes, UsersKnown

(* Steps of which nothing is known that was not known before. *)
Plain == {"count", "record", "verify", "query", "settled", "emptied", "value"}

LEMMA StepQuiet ==
  ASSUME RoleInv, CallsOK, NEW q \in Calls, NEW step, NEW rd, NEW wr,
         Become(q, [call[q] EXCEPT !.step = step], rd, wr), call[q].step # "admin", Sends,
         \/ call[q].step \in Unverified /\ step \in {"count", "record", "expire", "verify"}
         \/ call[q].step \notin Unverified \cup {"answered"} /\ step \in Plain
         \/ /\ call[q].step \in {"revoked", "cached"} /\ step \in {"cached", "member"}
            /\ MinRole(call[q].request.op) # None,
         UNCHANGED <<workload, tokens, projects, members, roleCache, misfilled>>
  PROVE  RoleInv'
<1>1. PICK c : c = [call[q] EXCEPT !.step = step]
  OBVIOUS
<1>2. c.step = step /\ c.request = call[q].request /\ c.user = call[q].user
  BY <1>1 DEF CallsOK, IsCall
<1>3. Passed(c)
  BY <1>2 DEF RoleInv, CallsInv, Passed, InProject, Plain, Unverified
<1>4. Become(q, c, rd, wr)
  BY <1>1
<1> QED
  BY <1>2, <1>3, <1>4, QuietKeeps DEF RoleInv, RoleTypes, UsersKnown, Plain

(* To a step where something is known of some operations, by another. *)
LEMMA OtherOpQuiet ==
  ASSUME RoleInv, CallsOK, NEW q \in Calls, NEW c, NEW rd, NEW wr,
         Become(q, c, rd, wr), c.request = call[q].request, c.user = call[q].user,
         call[q].step \notin Unverified \cup {"answered", "admin"}, Sends,
         \/ c.step = "handler" /\ c.request.op # "addMember"
         \/ c.step = "save" /\ c.request.op # "addMember"
         \/ c.step = "found" /\ c.request.op \notin {"updateProject", "deleteProject"},
         UNCHANGED <<workload, tokens, projects, members, roleCache, misfilled>>
  PROVE  RoleInv'
<1>1. Passed(c)
  BY DEF RoleInv, CallsInv, Passed, InProject, Unverified
<1> QED
  BY <1>1, QuietKeeps DEF RoleInv, RoleTypes, UsersKnown

-----------------------------------------------------------------------------
(* The limiter, the token, accounts and fields. *)
LEMMA BeginQuiet ==
  ASSUME LogInv, RoleInv, NEW q \in Calls, Begin(q), UNCHANGED workload
  PROVE  RoleInv'
<1>1. PICK r \in workload.asks, step \in {"prune", "verify"} :
        Arrive(q, r, step, r.token \in loggedOut)
  BY DEF Begin
<1> PICK late : late = (r.token \in loggedOut)
  OBVIOUS
<1>2. PICK c : c = [Idle EXCEPT !.step = step, !.request = r, !.now = clock, !.late = late]
  OBVIOUS
<1>3. c.step = step /\ c.request = r
  BY <1>2 DEF Idle
<1>4. Passed(c)
  BY <1>3 DEF Passed, InProject, Unverified, RoleInv, RoleTypes
<1>5. Become(q, c, {}, {}) /\ call[q].step = "answered"
  BY <1>1, <1>2 DEF Arrive
<1>6. Sends /\ UsersKnown' /\ UNCHANGED <<workload, projects, members, roleCache, misfilled>>
  BY SendsNothing DEF Begin, RoleInv, RoleTypes, UsersKnown, accountVars, projectVars
<1> QED
  BY <1>3, <1>4, <1>5, <1>6, QuietKeeps DEF LogInv

LEMMA LimitQuiet ==
  ASSUME LogInv, RoleInv, NEW q \in Calls, Limit(q), UNCHANGED <<workload, accountVars, projectVars>>
  PROVE  RoleInv'
<1>1. Sends /\ UNCHANGED <<workload, tokens, projects, members, roleCache, misfilled>>
  BY SendsNothing DEF RoleInv, accountVars, projectVars
<1>2. call[q].step # "admin" /\ call[q].step \in Unverified
  BY DEF Limit, Prune, Count, Record, Expire, Unverified
<1>3. \/ Answer(q, 429)
      \/ \E step \in {"count", "record", "expire", "verify"} :
           Goto(q, step) \/ \E row : Keep(q, step, row)
  BY DEF Limit, Prune, Count, Record, Expire
<1>4. CASE Answer(q, 429)
  BY <1>1, <1>2, <1>4, AnswerQuiet DEF LogInv, Answer
<1>5. ASSUME NEW step \in {"count", "record", "expire", "verify"}, Goto(q, step)
      PROVE  RoleInv'
  BY <1>1, <1>2, <1>5, StepQuiet DEF LogInv, Goto
<1>6. ASSUME NEW step \in {"count", "record", "expire", "verify"}, NEW row, Keep(q, step, row)
      PROVE  RoleInv'
  <2>1. PICK c : c = [call[q] EXCEPT !.step = step, !.found = row]
    OBVIOUS
  <2>2. c.step = step /\ c.request = call[q].request /\ c.user = call[q].user
    BY <2>1 DEF LogInv, CallsOK, IsCall
  <2>3. Passed(c)
    BY <1>2, <2>2 DEF RoleInv, CallsInv, Passed, InProject, Unverified
  <2>4. Become(q, c, {}, {})
    BY <1>6, <2>1 DEF Keep
  <2> QED
    BY <1>1, <1>2, <2>2, <2>3, <2>4, QuietKeeps DEF LogInv, RoleInv, RoleTypes, UsersKnown
<1> QED
  BY <1>3, <1>4, <1>5, <1>6

LEMMA VerifyQuiet ==
  ASSUME LogInv, RoleInv, NEW q \in Calls, Verify(q), UNCHANGED <<workload, projectVars>>
  PROVE  RoleInv'
<1> DEFINE t == call[q].request.token
<1>1. /\ Sends /\ UsersKnown' /\ UNCHANGED <<workload, tokens, projects, members, roleCache, misfilled>>
      /\ call[q].step = "verify" /\ CallsOK /\ IsCall(call[q])
  BY SendsNothing DEF RoleInv, RoleTypes, UsersKnown, accountVars, projectVars, Verify, LogInv, CallsOK
<1>2. CASE Answer(q, 401)
  BY <1>1, <1>2, AnswerQuiet DEF Answer
<1>3. CASE call[q].request.op \in Public /\ Goto(q, "handler")
  <2>1. PICK c : c = [call[q] EXCEPT !.step = "handler"]
    OBVIOUS
  <2>2. c.step = "handler" /\ c.request = call[q].request
    BY <1>1, <2>1 DEF IsCall
  <2>3. Passed(c)
    BY <1>1, <1>3, <2>2 DEF Passed, InProject, Public, RoleInv, CallsInv
  <2>4. Become(q, c, {}, {})
    BY <1>3, <2>1 DEF Goto
  <2> QED
    BY <1>1, <2>2, <2>3, <2>4, QuietKeeps
<1>4. CASE /\ t # None /\ tokens[t] # None
           /\ Become(q, [call[q] EXCEPT !.step = "revoked", !.user = tokens[t].user], {}, {})
  <2>1. PICK c : c = [call[q] EXCEPT !.step = "revoked", !.user = tokens[t].user]
    OBVIOUS
  <2>2. c.step = "revoked" /\ c.request = call[q].request /\ c.user = tokens[t].user
    BY <1>1, <2>1 DEF IsCall
  <2>3. t \in Tokens
    BY <1>1, <1>4 DEF LogInv, AskInv, Request
  <2>4. Passed(c)
    BY <1>1, <1>4, <2>2, <2>3 DEF Passed, InProject, RoleInv, CallsInv, RoleTypes, UsersKnown
  <2>5. Become(q, c, {}, {})
    BY <1>4, <2>1
  <2> QED
    BY <1>1, <2>2, <2>4, <2>5, QuietKeeps
<1> QED
  BY <1>2, <1>3, <1>4 DEF Verify

(* A call that is asked for a role is not let through without one. *)
LEMMA CheckRevokedQuiet ==
  ASSUME LogInv, RoleInv, NEW q \in Calls, CheckRevoked(q), UNCHANGED <<workload, projectVars>>
  PROVE  RoleInv'
<1>1. /\ Sends /\ UNCHANGED <<workload, tokens, projects, members, roleCache, misfilled>>
      /\ call[q].step = "revoked" /\ CallsOK /\ IsCall(call[q])
  BY SendsNothing DEF RoleInv, accountVars, projectVars, CheckRevoked, LogInv, CallsOK
<1>2. CASE Answer(q, 401)
  BY <1>1, <1>2, AnswerQuiet DEF Answer
<1>3. CASE MinRole(call[q].request.op) # None /\ Goto(q, "cached")
  BY <1>1, <1>3, StepQuiet DEF Goto, Plain, Unverified
<1>4. CASE MinRole(call[q].request.op) = None /\ Goto(q, "handler")
  <2>1. PICK c : c = [call[q] EXCEPT !.step = "handler"]
    OBVIOUS
  <2>2. c.step = "handler" /\ c.request = call[q].request /\ c.user = call[q].user
    BY <1>1, <2>1 DEF IsCall
  <2>3. "ADMIN" # None
    BY AccessAssumption DEF Roles, Rank
  <2>4. MinRole("addMember") = "ADMIN"
    BY DEF MinRole
  <2>5. Become(q, c, {}, {})
    BY <1>4, <2>1 DEF Goto
  <2> QED
    BY <1>1, <1>4, <2>2, <2>3, <2>4, <2>5, OtherOpQuiet DEF Unverified
<1> QED
  BY <1>2, <1>3, <1>4 DEF CheckRevoked

LEMMA AccountQuiet ==
  ASSUME LogInv, RoleInv, NEW q \in Calls, AccountReads(q) \/ SignToken(q) \/ Logout(q),
         UNCHANGED <<workload, projectVars>>
  PROVE  RoleInv'
<1>1. /\ Sends /\ UNCHANGED <<workload, projects, members, roleCache, misfilled>>
      /\ CallsOK /\ IsCall(call[q])
  BY SendsNothing DEF RoleInv, projectVars, LogInv, CallsOK
<1>2. CASE FindEmail(q)
  <2>1. /\ call[q].step = "handler" /\ call[q].request.op = "register" /\ UNCHANGED tokens
        /\ Answer(q, 409) \/ \E rows : GotoReading(q, "save", rows)
    BY <1>2 DEF FindEmail, At, accountVars
  <2>2. CASE Answer(q, 409)
    BY <1>1, <2>1, <2>2, AnswerQuiet DEF Answer
  <2>3. ASSUME NEW rows, GotoReading(q, "save", rows)
        PROVE  RoleInv'
    <3>1. PICK c : c = [call[q] EXCEPT !.step = "save"]
      OBVIOUS
    <3>2. c.step = "save" /\ c.request = call[q].request /\ c.user = call[q].user
      BY <1>1, <3>1 DEF IsCall
    <3>3. Become(q, c, rows, {})
      BY <2>3, <3>1 DEF GotoReading
    <3> QED
      BY <1>1, <2>1, <3>2, <3>3, OtherOpQuiet DEF Unverified
  <2> QED
    BY <2>1, <2>2, <2>3
<1>3. CASE SaveUser(q)
  <2>1. /\ call[q].step = "save" /\ UNCHANGED tokens
        /\ \E st, rows : Become(q, Answered(q, st), {}, rows)
    BY <1>3 DEF SaveUser, At, Answer, AnswerWriting
  <2> QED
    BY <1>1, <2>1, AnswerQuiet
<1>4. CASE CheckPassword(q)
  <2>1. /\ call[q].step = "handler" /\ call[q].request.op = "login" /\ UNCHANGED tokens
        /\ Answer(q, 401) \/ \E u \in Users : Keep(q, "sign", u)
    BY <1>4 DEF CheckPassword, At, accountVars, HasEmail
  <2>2. CASE Answer(q, 401)
    BY <1>1, <2>1, <2>2, AnswerQuiet DEF Answer
  <2>3. ASSUME NEW u \in Users, Keep(q, "sign", u)
        PROVE  RoleInv'
    <3>1. PICK c : c = [call[q] EXCEPT !.step = "sign", !.found = u]
      OBVIOUS
    <3>2. c.step = "sign" /\ c.request = call[q].request /\ c.found = u
      BY <1>1, <3>1 DEF IsCall
    <3>3. Become(q, c, {}, {})
      BY <2>3, <3>1 DEF Keep
    <3>4. Passed(c)
      BY <2>1, <3>2 DEF Passed, InProject, Public, RoleInv, CallsInv
    <3> QED
      BY <1>1, <2>1, <3>2, <3>3, <3>4, QuietKeeps DEF RoleInv, RoleTypes, UsersKnown
  <2> QED
    BY <2>1, <2>2, <2>3
<1>5. CASE SignToken(q)
  <2>1. call[q].step = "sign" /\ Answer(q, 200) /\ Unsigned # {}
    BY <1>5 DEF SignToken, At
  <2>2. (CHOOSE t \in Unsigned : TRUE) \in Unsigned
    BY <2>1
  <2>3. PICK x, new : x \in Tokens /\ tokens' = [tokens EXCEPT ![x] = new] /\ new.user = call[q].found
    <3>1. PICK x, new :
            /\ x \in Tokens
            /\ tokens' = [tokens EXCEPT ![x] = new]
            /\ new = [user |-> call[q].found, exp |-> Seconds(clock) + TokenLife]
      BY <1>5, <2>2 DEF SignToken, Unsigned
    <3>2. new.user = call[q].found
      BY <3>1
    <3> QED
      BY <3>1, <3>2
  <2>4. call[q].found \in Users
    BY <2>1 DEF RoleInv, CallsInv, Passed
  <2>5. UsersKnown'
    BY <2>3, <2>4 DEF LogInv, TokenInv, RoleInv, RoleTypes, UsersKnown
  <2>6. PICK c : c = Answered(q, 200)
    OBVIOUS
  <2>7. c.step = "answered" /\ Passed(c) /\ Become(q, c, {}, {})
    BY <2>1, <2>6 DEF Answer, Answered, Idle, Passed, InProject
  <2> QED
    BY <1>1, <2>1, <2>5, <2>7, QuietKeeps
<1>6. CASE Logout(q)
  BY <1>1, <1>6, AnswerQuiet DEF Logout, At, Answer
<1> QED
  BY <1>2, <1>3, <1>4, <1>5, <1>6 DEF AccountReads

LEMMA FieldQuiet ==
  ASSUME LogInv, RoleInv, NEW q \in Calls, Field(q), UNCHANGED workload
  PROVE  RoleInv'
<1>1. /\ CallsOK /\ IsCall(call[q])
      /\ call[q].request.op \notin {"addMember", "updateProject", "deleteProject"}
      /\ call[q].step \notin Unverified \cup {"answered", "admin"}
      /\ UNCHANGED <<tokens, projectVars>>
      /\ \/ \E st, rows : Become(q, Answered(q, st), {}, rows)
         \/ \E step \in Plain : \E rd, wr : Become(q, [call[q] EXCEPT !.step = step], rd, wr)
         \/ \E step \in {"found", "save"} : \E row, rows :
              Become(q, [call[q] EXCEPT !.step = step, !.found = row], rows, {})
  <2> USE DEF At, Others, Answer, AnswerWriting, GotoReading, Goto, Keep, Plain, Unverified
  <2>1. CallsOK /\ IsCall(call[q])
    BY DEF LogInv, CallsOK
  <2>2. CASE ListDefinitions(q)
    BY <2>1, <2>2 DEF ListDefinitions
  <2>3. CASE CreateDefinition(q)
    BY <2>1, <2>3 DEF CreateDefinition
  <2>4. CASE FindDefinition(q)
    BY <2>1, <2>4 DEF FindDefinition
  <2>5. CASE UpdateDefinition(q)
    BY <2>1, <2>5 DEF UpdateDefinition
  <2>6. CASE DeleteValues(q)
    BY <2>1, <2>6 DEF DeleteValues
  <2>7. CASE DeleteDefinition(q)
    BY <2>1, <2>7 DEF DeleteDefinition
  <2>8. CASE ListValues(q)
    BY <2>1, <2>8 DEF ListValues
  <2>9. CASE CheckValue(q)
    BY <2>1, <2>9 DEF CheckValue
  <2>10. CASE FindValue(q)
    BY <2>1, <2>10 DEF FindValue
  <2>11. CASE SaveValue(q)
    BY <2>1, <2>11 DEF SaveValue
  <2>12. CASE ClearValue(q)
    BY <2>1, <2>12 DEF ClearValue
  <2> QED
    BY <2>2, <2>3, <2>4, <2>5, <2>6, <2>7, <2>8, <2>9, <2>10, <2>11, <2>12 DEF Field
<1>2. Sends /\ UNCHANGED <<workload, tokens, projects, members, roleCache, misfilled>>
  BY <1>1, SendsNothing DEF RoleInv, projectVars
<1>3. ASSUME NEW st, NEW rows, Become(q, Answered(q, st), {}, rows)
      PROVE  RoleInv'
  BY <1>1, <1>2, <1>3, AnswerQuiet
<1>4. ASSUME NEW step \in Plain, NEW rd, NEW wr, Become(q, [call[q] EXCEPT !.step = step], rd, wr)
      PROVE  RoleInv'
  BY <1>1, <1>2, <1>4, StepQuiet
<1>5. ASSUME NEW step \in {"found", "save"}, NEW row, NEW rows,
             Become(q, [call[q] EXCEPT !.step = step, !.found = row], rows, {})
      PROVE  RoleInv'
  <2>1. PICK c : c = [call[q] EXCEPT !.step = step, !.found = row]
    OBVIOUS
  <2>2. c.step = step /\ c.request = call[q].request /\ c.user = call[q].user
    BY <1>1, <2>1 DEF IsCall
  <2>3. Become(q, c, rows, {})
    BY <1>5, <2>1
  <2> QED
    BY <1>1, <1>2, <2>2, <2>3, OtherOpQuiet
<1> QED
  BY <1>1, <1>3, <1>4, <1>5

-----------------------------------------------------------------------------
(* requireProjectRole: who is let through has, or had, a role in a project that is begun. *)
LEMMA AdmitQuiet ==
  ASSUME RoleInv, CallsOK, NEW q \in Calls, NEW role, Admit(q, role), Sends,
         call[q].step \in {"cached", "member"},
         call[q].request.project \in ProjectIds /\ call[q].user \in Users
           => Begun(call[q].request.project),
         UNCHANGED <<workload, tokens, projects, members, roleCache, misfilled>>
  PROVE  RoleInv'
<1>1. CASE Answer(q, 403)
  BY <1>1, AnswerQuiet DEF Answer
<1>2. CASE Goto(q, "handler")
  <2>1. PICK c : c = [call[q] EXCEPT !.step = "handler"]
    OBVIOUS
  <2>2. c.step = "handler" /\ c.request = call[q].request /\ c.user = call[q].user
    BY <2>1 DEF CallsOK, IsCall
  <2>3. call[q].request.op \notin Public => call[q].user \in Users
    BY DEF RoleInv, CallsInv, Passed, Unverified
  <2>4. Passed(c)
    BY <2>2, <2>3 DEF Passed, InProject, Public, RoleInv, CallsInv
  <2>5. Become(q, c, {}, {})
    BY <1>2, <2>1 DEF Goto
  <2> QED
    BY <2>2, <2>4, <2>5, QuietKeeps DEF RoleInv, RoleTypes, UsersKnown
<1> QED
  BY <1>1, <1>2 DEF Admit

LEMMA CachedRoleQuiet ==
  ASSUME LogInv, RoleInv, NEW q \in Calls, CachedRole(q), UNCHANGED workload
  PROVE  RoleInv'
<1> DEFINE k == <<call[q].request.project, call[q].user>>
<1>1. /\ Sends /\ UNCHANGED <<workload, tokens, projects, members, roleCache, misfilled>> /\ CallsOK
      /\ call[q].step = "cached"
  BY SendsNothing DEF RoleInv, CachedRole, Same, LogInv
<1>2. CASE Goto(q, "member")
  <2>1. MinRole(call[q].request.op) # None
    BY <1>1 DEF RoleInv, CallsInv, Passed
  <2> QED
    BY <1>1, <1>2, <2>1, StepQuiet DEF Goto
<1>3. CASE roleCache[k] # None /\ Admit(q, roleCache[k])
  <2>1. k \in Pairs => Begun(k[1])
    BY <1>3 DEF RoleInv, BegunInv
  <2>2. call[q].request.project \in ProjectIds /\ call[q].user \in Users
          => Begun(call[q].request.project)
    BY <2>1 DEF Pairs
  <2> QED
    BY <1>1, <1>3, <2>2, AdmitQuiet
<1> QED
  BY <1>2, <1>3 DEF CachedRole

LEMMA ReadRoleQuiet ==
  ASSUME LogInv, RoleInv, NEW q \in Calls, ReadRole(q), UNCHANGED workload
  PROVE  RoleInv'
<1>1. PICK p, u, r : p = call[q].request.project /\ u = call[q].user /\ r = members[<<p, u>>]
  OBVIOUS
<1>2. /\ UNCHANGED <<workload, tokens, projects, members, roleCache, misfilled>> /\ CallsOK
      /\ call[q].step = "member"
  BY DEF ReadRole, Same, LogInv
<1>3. CASE Answer(q, 403) /\ UNCHANGED sent
  BY <1>2, <1>3, SendsNothing, AnswerQuiet DEF Answer, RoleInv
<1>4. CASE r # None /\ Admit(q, r) /\ Send(q, <<Cmd("setRole", p, u, r)>>)
  <2>1. MinRole("register") = None /\ MinRole("login") = None
    BY DEF MinRole
  <2>2. p \in ProjectIds /\ u \in Users
    BY <1>1, <1>2, <2>1 DEF RoleInv, CallsInv, Passed, InPath, Public, Unverified
  <2>3. r \in Roles /\ Begun(p)
    <3>1. <<p, u>> \in Pairs
      BY <2>2 DEF Pairs
    <3> QED
      BY <1>1, <1>4, <3>1 DEF RoleInv, RoleTypes, BegunInv
  <2>4. PICK c \in Command : c = Cmd("setRole", p, u, r) /\ c.project = p
    <3>1. PICK c : c = Cmd("setRole", p, u, r)
      OBVIOUS
    <3>2. c \in Command /\ c.project = p
      BY <2>2, <2>3, <3>1 DEF Cmd, Command
    <3> QED
      BY <3>1, <3>2
  <2>5. PICK cmds \in Seq(Command) : cmds = <<c>> /\ \A k \in DOMAIN cmds : cmds[k] = c
    <3>1. <<c>> \in Seq(Command) /\ \A k \in DOMAIN <<c>> : <<c>>[k] = c
      OBVIOUS
    <3> QED
      BY <3>1
  <2>6. sent' \in [Calls -> Seq(Command)] /\ Waiting' = Waiting \cup {cmds[k] : k \in DOMAIN cmds}
    BY <1>4, <2>4, <2>5, SendWaits DEF RoleInv
  <2>7. Sends
    BY <2>2, <2>3, <2>4, <2>5, <2>6 DEF Sends
  <2> QED
    BY <1>1, <1>2, <1>4, <2>2, <2>3, <2>7, AdmitQuiet
<1> QED
  BY <1>1, <1>3, <1>4 DEF ReadRole

-----------------------------------------------------------------------------
(* The handlers that write neither projects nor members. *)
LEMMA HandlerQuiet ==
  ASSUME LogInv, RoleInv, NEW q \in Calls, UNCHANGED workload,
         \/ FindKey(q) \/ FindProject(q) \/ FindMembership(q) \/ CachedList(q) \/ QueryList(q)
         \/ ListMembers(q) \/ FindMember(q) \/ Settled(q)
  PROVE  RoleInv'
<1>1. /\ UNCHANGED <<workload, tokens, projects, members, roleCache, misfilled>>
      /\ CallsOK /\ IsCall(call[q]) /\ Passed(call[q])
  BY DEF FindKey, FindProject, FindMembership, CachedList, QueryList, ListMembers, FindMember,
         Settled, Same, LogInv, CallsOK, RoleInv, CallsInv
<1>2. UNCHANGED sent => Sends
  BY SendsNothing DEF RoleInv
<1>3. CASE FindKey(q)
  <2>1. /\ call[q].step = "handler" /\ call[q].request.op = "createProject" /\ UNCHANGED sent
        /\ Answer(q, 409) \/ \E rows : GotoReading(q, "save", rows)
    BY <1>3 DEF FindKey, At
  <2>2. CASE Answer(q, 409)
    BY <1>1, <1>2, <2>1, <2>2, AnswerQuiet DEF Answer
  <2>3. ASSUME NEW rows, GotoReading(q, "save", rows)
        PROVE  RoleInv'
    <3>1. PICK c : c = [call[q] EXCEPT !.step = "save"]
      OBVIOUS
    <3>2. c.step = "save" /\ c.request = call[q].request /\ c.user = call[q].user
      BY <1>1, <3>1 DEF IsCall
    <3>3. Become(q, c, rows, {})
      BY <2>3, <3>1 DEF GotoReading
    <3> QED
      BY <1>1, <1>2, <2>1, <3>2, <3>3, OtherOpQuiet DEF Unverified
  <2> QED
    BY <2>1, <2>2, <2>3
<1>4. CASE FindMember(q)
  <2>1. /\ call[q].step = "handler" /\ call[q].request.op = "addMember" /\ UNCHANGED sent
        /\ Answer(q, 409) \/ \E rows : GotoReading(q, "save", rows)
    BY <1>4 DEF FindMember, At
  <2>2. CASE Answer(q, 409)
    BY <1>1, <1>2, <2>1, <2>2, AnswerQuiet DEF Answer
  <2>3. ASSUME NEW rows, GotoReading(q, "save", rows)
        PROVE  RoleInv'
    <3>1. PICK c : c = [call[q] EXCEPT !.step = "save"]
      OBVIOUS
    <3>2. c.step = "save" /\ c.request = call[q].request /\ c.user = call[q].user
      BY <1>1, <3>1 DEF IsCall
    <3>3. Become(q, c, rows, {})
      BY <2>3, <3>1 DEF GotoReading
    <3>4. Passed(c)
      BY <1>1, <2>1, <3>2 DEF Passed, InProject, Unverified
    <3> QED
      BY <1>1, <1>2, <2>1, <3>2, <3>3, <3>4, QuietKeeps DEF RoleInv, RoleTypes, UsersKnown
  <2> QED
    BY <2>1, <2>2, <2>3
<1>5. CASE FindProject(q)
  <2>1. /\ call[q].step = "handler" /\ call[q].request.op # "addMember" /\ UNCHANGED sent
        /\ Answer(q, 404) \/ (Live(call[q].request.project) /\ Goto(q, "found"))
    BY <1>5 DEF FindProject, At
  <2>2. CASE Answer(q, 404)
    BY <1>1, <1>2, <2>1, <2>2, AnswerQuiet DEF Answer
  <2>3. CASE Live(call[q].request.project) /\ Goto(q, "found")
    <3>1. PICK c : c = [call[q] EXCEPT !.step = "found"]
      OBVIOUS
    <3>2. c.step = "found" /\ c.request = call[q].request /\ c.user = call[q].user
      BY <1>1, <3>1 DEF IsCall
    <3>3. Become(q, c, {}, {})
      BY <2>3, <3>1 DEF Goto
    <3>4. Passed(c)
      BY <1>1, <2>1, <2>3, <3>2 DEF Passed, InProject, Unverified, Live
    <3> QED
      BY <1>1, <1>2, <2>1, <3>2, <3>3, <3>4, QuietKeeps DEF RoleInv, RoleTypes, UsersKnown
  <2> QED
    BY <2>1, <2>2, <2>3
<1>6. CASE CachedList(q)
  <2>1. call[q].step = "handler" /\ UNCHANGED sent /\ (Answer(q, 200) \/ Goto(q, "query"))
    BY <1>6 DEF CachedList, At
  <2>2. CASE Answer(q, 200)
    BY <1>1, <1>2, <2>1, <2>2, AnswerQuiet DEF Answer
  <2>3. CASE Goto(q, "query")
    BY <1>1, <1>2, <2>1, <2>3, StepQuiet DEF Goto, Plain, Unverified
  <2> QED
    BY <2>1, <2>2, <2>3
<1>7. CASE QueryList(q)
  <2>1. PICK u, list : u = call[q].user /\ list = ProjectsOf(call[q].user)
    OBVIOUS
  <2>2. call[q].step = "query" /\ call[q].request.op \notin Public
    BY <1>7 DEF QueryList, At, Public
  <2>3. u \in Users /\ list \in SUBSET ProjectIds
    BY <1>1, <2>1, <2>2 DEF Passed, Unverified, ProjectsOf
  <2>4. Answer(q, 200) /\ Send(q, <<Cmd("setList", None, u, list)>>)
    BY <1>7, <2>1 DEF QueryList
  <2>5. Sends
    BY <2>3, <2>4, SendsLists DEF RoleInv
  <2> QED
    BY <1>1, <2>2, <2>4, <2>5, AnswerQuiet DEF Answer
<1>8. CASE FindMembership(q) \/ ListMembers(q) \/ Settled(q)
  <2>1. call[q].step # "admin" /\ UNCHANGED sent /\ \E st : Answer(q, st)
    BY <1>8 DEF FindMembership, ListMembers, Settled, At
  <2> QED
    BY <1>1, <1>2, <2>1, AnswerQuiet DEF Answer
<1> QED
  BY <1>3, <1>4, <1>5, <1>6, <1>7, <1>8

-----------------------------------------------------------------------------
(* A call is answered that wrote projects or members; what it sends removes entries, or  *)
(* is about lists.                                                                       *)
LEMMA UpdateKeeps ==
  ASSUME LogInv, RoleInv, NEW q \in Calls, UpdateProject(q) \/ DeleteProject(q), UNCHANGED workload
  PROVE  RoleInv'
<1> PICK p : p = call[q].request.project
  OBVIOUS
<1>1. PICK b \in BOOLEAN : projects' = [projects EXCEPT ![p].deleted = b]
  BY Zenon DEF UpdateProject, DeleteProject
<1>2. /\ call[q].step = "found" /\ UNCHANGED <<workload, tokens, members, roleCache, misfilled, sent>>
      /\ call[q].request.op \in {"updateProject", "deleteProject"}
      /\ \E st, rows : Become(q, Answered(q, st), {}, rows)
  BY DEF UpdateProject, DeleteProject, At, Answer, AnswerWriting, Same
<1>3. p \in ProjectIds => projects[p] # None
  BY <1>1, <1>2 DEF RoleInv, CallsInv, Passed, InProject
<1>4. /\ projects' \in [ProjectIds -> ProjectRow \cup {None}]
      /\ \A x \in ProjectIds : projects[x] # None => projects'[x] # None
  <2>1. ASSUME NEW x \in ProjectRow PROVE [x EXCEPT !.deleted = b] \in ProjectRow
    BY DEF ProjectRow
  <2>2. None \notin ProjectRow
    BY AccessAssumption
  <2>3. projects \in [ProjectIds -> ProjectRow \cup {None}]
    BY DEF RoleInv, RoleTypes
  <2>4. CASE p \in ProjectIds
    <3>1. projects[p] \in ProjectRow
      BY <1>3, <2>3, <2>4
    <3>2. projects' = [projects EXCEPT ![p] = [projects[p] EXCEPT !.deleted = b]]
      BY <1>1
    <3> QED
      BY <2>1, <2>2, <2>3, <2>4, <3>1, <3>2
  <2>5. CASE p \notin ProjectIds
    BY <1>1, <2>3, <2>5
  <2> QED
    BY <2>4, <2>5
<1>5. call'[q].step = "answered" /\ \A o \in Calls \ {q} : call'[o] = call[o]
  BY <1>2 DEF Become, Answered, Idle, LogInv, CallsOK
<1>6. \A x \in ProjectIds : Begun(x) => Begun(x)'
  BY <1>2, <1>4, <1>5 DEF Begun
<1>7. RoleTypes' /\ RoleCacheTrue'
  BY <1>2, <1>4 DEF RoleInv, RoleTypes, UsersKnown, RoleCacheTrue, RemovalUnderWay
<1>8. \A o \in Calls : Passed(call[o])'
  BY <1>4, <1>5, <1>6 DEF RoleInv, CallsInv, Passed, InProject
<1>9. CallsInv'
  BY <1>5, <1>8 DEF RoleInv, CallsInv
<1>10. Waiting' = Waiting
  BY <1>2 DEF Waiting
<1>11. \A k \in Pairs : k[1] \in ProjectIds
  BY DEF Pairs
<1>12. BegunInv'
  BY <1>2, <1>6, <1>10, <1>11 DEF RoleInv, BegunInv
<1> QED
  BY <1>7, <1>9, <1>12 DEF RoleInv

LEMMA SaveMemberKeeps ==
  ASSUME LogInv, RoleInv, NEW q \in Calls, SaveMember(q), UNCHANGED workload
  PROVE  RoleInv'
<1>1. PICK p, t, role : /\ p = call[q].request.project /\ t = call[q].request.target
                        /\ role = call[q].request.role
  OBVIOUS
<1>2. /\ call[q].step = "save" /\ call[q].request.op = "addMember" /\ CallsOK
      /\ UNCHANGED <<workload, tokens, projects, roleCache, misfilled>>
  BY DEF SaveMember, At, Same, LogInv
<1>3. CASE Answer(q, 500) /\ UNCHANGED <<members, sent>>
  BY <1>2, <1>3, SendsNothing, AnswerQuiet DEF Answer, RoleInv
<1>4. CASE /\ ~MemberRefused(p, t) /\ members' = [members EXCEPT ![<<p, t>>] = role]
           /\ Send(q, <<Cmd("delList", None, t, None)>>)
           /\ AnswerWriting(q, 201, {<<"member", p, t>>})
  <2>1. t \in Users \cup {None} /\ role \in Roles \cup {None}
    BY <1>1, <1>2 DEF LogInv, AskInv, Request
  <2>2. MinRole("addMember") = "ADMIN" /\ "ADMIN" # None
    BY AccessAssumption DEF MinRole, Roles, Rank
  <2>3. p \in ProjectIds /\ Begun(p)
    BY <1>1, <1>2, <2>2 DEF RoleInv, CallsInv, Passed, InPath, InProject
  <2>4. Sends
    <3>1. PICK list, cmd : list = None /\ cmd = "delList"
      OBVIOUS
    <3>2. Send(q, <<Cmd(cmd, None, t, list)>>)
      BY <1>4, <3>1
    <3>3. list \in (SUBSET ProjectIds) \cup {None} /\ cmd \in {"setList", "delList"}
      BY <3>1
    <3>4. RoleTypes
      BY DEF RoleInv
    <3> QED
      BY <2>1, <3>2, <3>3, <3>4, SendsLists
  <2>5. /\ members' \in [Pairs -> Roles \cup {None}]
        /\ \A k \in Pairs : k # <<p, t>> => members'[k] = members[k]
    BY <1>4, <2>1 DEF RoleInv, RoleTypes
  <2>6. \A k \in Pairs : members'[k] # None => Begun(k[1])
    BY <2>3, <2>5 DEF RoleInv, BegunInv
  <2>7. ASSUME NEW x \in ProjectIds, NEW u \in Users, members'[<<x, u>>] # members[<<x, u>>]
        PROVE  roleCache[<<x, u>>] = None \/ <<x, u>> \in misfilled \/ RemovalUnderWay(x, u)'
    <3>1. x = p /\ u = t /\ members[<<x, u>>] = None
      BY <1>4, <2>5, <2>7 DEF Pairs, MemberRefused
    <3>2. RemovalUnderWay(x, u) => RemovalUnderWay(x, u)'
      <4>1. ASSUME NEW c \in Waiting, c.cmd = "delRole", c.project = x, c.user = u
            PROVE  RemovalUnderWay(x, u)'
        BY <2>4, <4>1 DEF Sends, Waiting, RemovalUnderWay
      <4> QED
        BY <4>1, UnderWayWaits DEF RoleInv
    <3> QED
      BY <3>1, <3>2 DEF RoleInv, RoleCacheTrue
  <2>8. PICK c : c = Answered(q, 201)
    OBVIOUS
  <2>9. c.step = "answered" /\ Passed(c) /\ Become(q, c, {}, {<<"member", p, t>>})
    BY <1>4, <2>8 DEF AnswerWriting, Answered, Idle, Passed, InProject
  <2> QED
    BY <1>2, <2>4, <2>5, <2>6, <2>7, <2>9, MembersKeep DEF RoleInv, RoleTypes, UsersKnown
<1> QED
  BY <1>1, <1>3, <1>4 DEF SaveMember

LEMMA RemoveMemberKeeps ==
  ASSUME LogInv, RoleInv, NEW q \in Calls, RemoveMember(q), UNCHANGED workload
  PROVE  RoleInv'
<1>1. PICK p, t : p = call[q].request.project /\ t = call[q].request.target
  OBVIOUS
<1>2. /\ call[q].step = "handler" /\ call[q].request.op = "removeMember"
      /\ CallsOK /\ IsCall(call[q]) /\ Passed(call[q])
      /\ UNCHANGED <<workload, tokens, projects, roleCache, misfilled>>
      /\ members' = [members EXCEPT ![<<p, t>>] = None]
      /\ Send(q, <<Cmd("delRole", p, t, None), Cmd("delList", None, t, None)>>)
      /\ \E rows : Become(q, [call[q] EXCEPT !.step = "settled"], {}, rows)
  BY <1>1 DEF RemoveMember, At, Same, LogInv, CallsOK, RoleInv, CallsInv
<1>3. p \in ProjectIds /\ t \in Users
  <2>1. MinRole(call[q].request.op) # None
    BY <1>2, AccessAssumption DEF MinRole, Roles, Rank
  <2>2. call[q].request \in Request /\ InPath(call[q].request)
    BY <1>2 DEF Passed, LogInv, AskInv
  <2> QED
    BY <1>1, <1>2, <2>1, <2>2 DEF InPath, Complete, Request
<1>4. PICK c1, c2 : c1 = Cmd("delRole", p, t, None) /\ c2 = Cmd("delList", None, t, None)
  OBVIOUS
<1>5. /\ c1 \in Command /\ c1.cmd = "delRole" /\ c1.project = p /\ c1.user = t
      /\ c2 \in Command /\ c2.cmd = "delList"
  <2>1. PICK none \in Roles \cup (SUBSET ProjectIds) \cup {None} : none = None
    OBVIOUS
  <2>2. PICK np \in ProjectIds \cup {None} : np = None
    OBVIOUS
  <2>3. c1 = [cmd |-> "delRole", project |-> p, user |-> t, value |-> none]
    BY <1>4, <2>1 DEF Cmd
  <2>4. c2 = [cmd |-> "delList", project |-> np, user |-> t, value |-> none]
    BY <1>4, <2>1, <2>2 DEF Cmd
  <2>5. c1 \in Command /\ c1.cmd = "delRole" /\ c1.project = p /\ c1.user = t
    BY <1>3, <2>3 DEF Command
  <2>6. c2 \in Command /\ c2.cmd = "delList"
    BY <1>3, <2>1, <2>4 DEF Command
  <2> QED
    BY <2>5, <2>6
<1>6. PICK cmds \in Seq(Command) : /\ cmds = <<c1, c2>> /\ 1 \in DOMAIN cmds /\ cmds[1] = c1
                                   /\ \A k \in DOMAIN cmds : cmds[k] \in {c1, c2}
  <2>1. /\ <<c1, c2>> \in Seq(Command) /\ 1 \in DOMAIN <<c1, c2>> /\ <<c1, c2>>[1] = c1
        /\ \A k \in DOMAIN <<c1, c2>> : <<c1, c2>>[k] \in {c1, c2}
    BY <1>5
  <2> QED
    BY <2>1
<1>7. sent' \in [Calls -> Seq(Command)] /\ Waiting' = Waiting \cup {cmds[k] : k \in DOMAIN cmds}
  BY <1>2, <1>4, <1>6, SendWaits DEF RoleInv
<1>8. Sends
  BY <1>5, <1>6, <1>7 DEF Sends
<1>9. RemovalUnderWay(p, t)'
  <2>1. c1 \in Waiting'
    BY <1>6, <1>7
  <2> QED
    BY <1>5, <2>1 DEF Waiting, RemovalUnderWay
<1>10. /\ members' \in [Pairs -> Roles \cup {None}]
       /\ \A k \in Pairs : k # <<p, t>> => members'[k] = members[k]
       /\ \A k \in Pairs : members'[k] = members[k] \/ members'[k] = None
  BY <1>2 DEF RoleInv, RoleTypes
<1>11. \A k \in Pairs : members'[k] # None => Begun(k[1])
  BY <1>10 DEF RoleInv, BegunInv
<1>12. \A x \in ProjectIds, u \in Users :
         members'[<<x, u>>] # members[<<x, u>>] => RemovalUnderWay(x, u)'
  BY <1>9, <1>10 DEF Pairs
<1>13. PICK c, rows : c = [call[q] EXCEPT !.step = "settled"] /\ Become(q, c, {}, rows)
  BY <1>2
<1>14. c.step = "settled" /\ c.request = call[q].request /\ c.user = call[q].user
  BY <1>2, <1>13 DEF IsCall
<1>15. Passed(c)
  BY <1>2, <1>14 DEF Passed, InProject, Unverified
<1> QED
  BY <1>2, <1>8, <1>10, <1>11, <1>12, <1>13, <1>14, <1>15, MembersKeep
     DEF RoleInv, RoleTypes, UsersKnown

-----------------------------------------------------------------------------
(* create: the project is there, and not begun until the second save is over. *)
LEMMA SaveProjectKeeps ==
  ASSUME LogInv, RoleInv, NEW q \in Calls, SaveProject(q), UNCHANGED workload
  PROVE  RoleInv'
<1> PICK k : k = call[q].request.key
  OBVIOUS
<1>1. /\ call[q].step = "save" /\ call[q].request.op = "createProject"
      /\ CallsOK /\ IsCall(call[q]) /\ Passed(call[q])
      /\ UNCHANGED <<workload, tokens, members, roleCache, sent, misfilled>>
  BY DEF SaveProject, At, Same, LogInv, CallsOK, RoleInv, CallsInv
<1>2. CASE Answer(q, 500) /\ UNCHANGED projects
  BY <1>1, <1>2, SendsNothing, AnswerQuiet DEF Answer, RoleInv
<1>3. ASSUME NEW p \in ProjectIds, projects[p] = None,
             projects' = [projects EXCEPT ![p] = [key |-> k, deleted |-> FALSE]],
             NEW rows, Become(q, [call[q] EXCEPT !.step = "admin", !.found = p], {}, rows)
      PROVE  RoleInv'
  <2>1. k \in Keys \cup {None}
    BY <1>1 DEF LogInv, AskInv, Request
  <2>2. PICK row \in ProjectRow : projects' = [projects EXCEPT ![p] = row]
    <3>1. PICK b \in BOOLEAN : b = FALSE
      BY Zenon
    <3>2. PICK row : row = [key |-> k, deleted |-> b]
      OBVIOUS
    <3>3. row \in ProjectRow
      BY <2>1, <3>1, <3>2 DEF ProjectRow
    <3> QED
      BY <1>3, <3>1, <3>2, <3>3
  <2>3. row # None
    BY AccessAssumption
  <2>4. /\ projects' \in [ProjectIds -> ProjectRow \cup {None}] /\ projects'[p] # None
        /\ \A x \in ProjectIds \ {p} : projects'[x] = projects[x]
    BY <2>2, <2>3 DEF RoleInv, RoleTypes
  <2>5. PICK c : c = [call[q] EXCEPT !.step = "admin", !.found = p]
    OBVIOUS
  <2>6. c.step = "admin" /\ c.found = p /\ c.request = call[q].request /\ c.user = call[q].user
    BY <1>1, <2>5 DEF IsCall
  <2>7. call'[q] = c /\ \A o \in Calls \ {q} : call'[o] = call[o]
    BY <1>1, <1>3, <2>5 DEF Become, CallsOK
  <2>8. \A x \in ProjectIds : Begun(x) => x # p /\ Begun(x)'
    BY <1>3, <2>4, <2>6, <2>7 DEF Begun
  <2>9. Passed(c)'
    BY <1>1, <2>4, <2>6 DEF Passed, InProject, InPath, Unverified
  <2>10. ASSUME NEW o \in Calls \ {q} PROVE Passed(call[o])'
    <3>1. call'[o] = call[o] /\ Passed(call[o])
      BY <2>7 DEF RoleInv, CallsInv
    <3>2. \A x \in ProjectIds : projects[x] # None => projects'[x] # None
      BY <1>3, <2>4
    <3> QED
      BY <2>8, <3>1, <3>2 DEF Passed, InProject, InPath
  <2>11. \A o \in Calls \ {q} : call[o].step = "admin" => call[o].found # p
    BY <1>3 DEF RoleInv, CallsInv, Passed
  <2>12. CallsInv'
    <3>1. \A o \in Calls : Passed(call[o])'
      BY <2>7, <2>9, <2>10
    <3> QED
      BY <2>6, <2>7, <2>11, <3>1 DEF RoleInv, CallsInv
  <2>13. RoleTypes'
    BY <1>1, <2>4 DEF RoleInv, RoleTypes, UsersKnown
  <2>14. BegunInv'
    <3>1. Waiting' = Waiting /\ \A x \in Pairs : x[1] \in ProjectIds
      BY <1>1 DEF Waiting, Pairs
    <3> QED
      BY <1>1, <2>8, <3>1 DEF RoleInv, BegunInv
  <2>15. RoleCacheTrue'
    BY <1>1 DEF RoleInv, RoleCacheTrue, RemovalUnderWay
  <2> QED
    BY <2>12, <2>13, <2>14, <2>15 DEF RoleInv
<1>4. ASSUME NEW free, free = {p \in ProjectIds : projects[p] = None}, free # {},
             LET p == CHOOSE x \in free : TRUE IN
               /\ projects' = [projects EXCEPT ![p] = [key |-> k, deleted |-> FALSE]]
               /\ Become(q, [call[q] EXCEPT !.step = "admin", !.found = p], {}, {<<"key", k>>})
      PROVE  RoleInv'
  <2>1. PICK p : p = CHOOSE x \in free : TRUE
    OBVIOUS
  <2>2. p \in ProjectIds /\ projects[p] = None
    BY <1>4, <2>1
  <2> QED
    BY <1>3, <1>4, <2>1, <2>2
<1> QED
  BY <1>2, <1>4 DEF SaveProject

(* The creator becomes a member: nobody had a role before, cached or not. *)
LEMMA AdminKeeps ==
  ASSUME LogInv, RoleInv, NEW q \in Calls, NEW c, NEW rows, Become(q, c, {}, rows),
         call[q].step = "admin", c.step = "answered",
         Sends, members' \in [Pairs -> Roles \cup {None}],
         \A k \in Pairs : members'[k] = members[k] \/ k[1] = call[q].found,
         UNCHANGED <<workload, tokens, projects, roleCache, misfilled>>
  PROVE  RoleInv'
<1>1. PICK p : p = call[q].found
  OBVIOUS
<1>2. p \in ProjectIds /\ projects[p] # None /\ CallsOK
  BY <1>1 DEF RoleInv, CallsInv, Passed, LogInv
<1>3. call'[q] = c /\ \A o \in Calls \ {q} : call'[o] = call[o]
  BY <1>2 DEF Become, CallsOK
<1>4. Begun(p)' /\ ~Begun(p) /\ \A x : Begun(x) => Begun(x)'
  BY <1>1, <1>2, <1>3 DEF Begun, RoleInv, CallsInv
<1>5. CallsInv'
  <2>1. \A o \in Calls : Passed(call[o])'
    BY <1>3, <1>4 DEF RoleInv, CallsInv, Passed, InProject, InPath
  <2> QED
    BY <1>3, <2>1 DEF RoleInv, CallsInv
<1>6. RoleTypes'
  BY DEF RoleInv, RoleTypes, UsersKnown, Sends
<1>7. BegunInv'
  BY <1>1, <1>4 DEF RoleInv, BegunInv, Sends
<1>8. ASSUME NEW x \in ProjectIds, NEW y \in Users, RemovalUnderWay(x, y)
      PROVE  RemovalUnderWay(x, y)'
  <2>1. PICK d \in Waiting : d.cmd = "delRole" /\ d.project = x /\ d.user = y
    BY <1>8, UnderWayWaits DEF RoleInv
  <2>2. PICK o, k : o \in Calls /\ k \in DOMAIN sent'[o] /\ sent'[o][k] = d
    BY <2>1 DEF Sends, Waiting
  <2> QED
    BY <2>1, <2>2 DEF RemovalUnderWay
<1>9. RoleCacheTrue'
  <2>1. \A k \in Pairs : k[1] = p => roleCache[k] = None
    BY <1>2, <1>4 DEF RoleInv, BegunInv
  <2>2. \A x \in ProjectIds, y \in Users : <<x, y>> \in Pairs /\ <<x, y>>[1] = x
    BY DEF Pairs
  <2>3. \A x \in ProjectIds, y \in Users :
          roleCache[<<x, y>>] # None => members'[<<x, y>>] = members[<<x, y>>]
    BY <1>1, <2>1, <2>2
  <2> QED
    BY <1>8, <2>3 DEF RoleInv, RoleCacheTrue
<1> QED
  BY <1>5, <1>6, <1>7, <1>9 DEF RoleInv

LEMMA SaveAdminKeeps ==
  ASSUME LogInv, RoleInv, NEW q \in Calls, SaveAdmin(q), UNCHANGED workload
  PROVE  RoleInv'
<1>1. PICK p, u : p = call[q].found /\ u = call[q].user
  OBVIOUS
<1>2. /\ call[q].step = "admin" /\ call[q].request.op = "createProject"
      /\ UNCHANGED <<workload, tokens, projects, roleCache, misfilled>>
      /\ members' = [members EXCEPT ![<<p, u>>] = "ADMIN"]
      /\ \E rows : Become(q, Answered(q, 201), {}, rows)
  BY <1>1 DEF SaveAdmin, At, Same, AnswerWriting
<1>3. u \in Users
  BY <1>1, <1>2 DEF RoleInv, CallsInv, Passed, Public, Unverified
<1>4. Sends
  <2>1. PICK list, cmd : list = None /\ cmd = "delList"
    OBVIOUS
  <2>2. Send(q, <<Cmd(cmd, None, u, list)>>)
    BY <1>1, <2>1 DEF SaveAdmin
  <2> QED
    BY <1>3, <2>1, <2>2, SendsLists DEF RoleInv
<1>5. /\ members' \in [Pairs -> Roles \cup {None}]
      /\ \A k \in Pairs : members'[k] = members[k] \/ k[1] = p
  <2>1. "ADMIN" \in Roles
    BY DEF Roles, Rank
  <2>2. /\ members' \in [Pairs -> Roles \cup {None}]
        /\ \A k \in Pairs : k # <<p, u>> => members'[k] = members[k]
    BY <1>2, <2>1 DEF RoleInv, RoleTypes
  <2> QED
    BY <2>2
<1>6. PICK c, rows : c = Answered(q, 201) /\ Become(q, c, {}, rows)
  BY <1>2
<1>7. c.step = "answered"
  BY <1>6 DEF Answered, Idle
<1> QED
  BY <1>1, <1>2, <1>4, <1>5, <1>6, <1>7, AdminKeeps

(* A project whose second save fails has no member and no role in the cache. *)
LEMMA FailsQuiet ==
  ASSUME LogInv, RoleInv, NEW q \in Calls, Fails(q), UNCHANGED workload
  PROVE  RoleInv'
<1>1. PICK c : Become(q, c, {}, {}) /\ c.step = "answered"
  BY FailsAnswers
<1>2. Sends /\ UNCHANGED <<workload, tokens, projects, members, roleCache, misfilled>>
  BY SendsNothing DEF RoleInv, Fails, accountVars, projectVars
<1>3. CASE call[q].step = "admin"
  BY <1>1, <1>2, <1>3, AdminKeeps DEF RoleInv, RoleTypes
<1>4. CASE call[q].step # "admin"
  <2>1. Passed(c)
    BY <1>1 DEF Passed, InProject
  <2> QED
    BY <1>1, <1>2, <1>4, <2>1, QuietKeeps DEF LogInv, RoleInv, RoleTypes, UsersKnown
<1> QED
  BY <1>3, <1>4

-----------------------------------------------------------------------------
(* Redis executes a command, or an entry expires: no call goes on. *)
LEMMA CallsStay ==
  ASSUME RoleInv, UNCHANGED <<workload, call, tokens, projects, members>>
  PROVE  /\ CallsInv' /\ UsersKnown' /\ (\A r \in workload'.asks : InPath(r))
         /\ \A p : Begun(p)' <=> Begun(p)
<1>1. \A p : Begun(p)' <=> Begun(p)
  BY DEF Begun
<1>2. \A q \in Calls : Passed(call[q])'
  BY <1>1 DEF RoleInv, CallsInv, Passed, InProject, InPath
<1> QED
  BY <1>1, <1>2 DEF RoleInv, RoleTypes, CallsInv, UsersKnown

LEMMA RedisKeeps ==
  ASSUME RoleInv, NEW q \in Calls, Redis(q), UNCHANGED workload
  PROVE  RoleInv'
<1>1. UNCHANGED <<workload, call, tokens, projects, members>>
  BY DEF Redis, limiterVars, accountVars
<1>2. PICK c : c = Head(sent[q])
  OBVIOUS
<1>3. /\ sent' \in [Calls -> Seq(Command)] /\ c \in Waiting /\ c \in Command
      /\ Waiting' \subseteq Waiting /\ Waiting \subseteq Waiting' \cup {c}
  BY <1>2, ExecutedWaits DEF Redis, RoleInv, Waiting
<1>4. SetRole(c) \/ DelRole(c) \/ WriteList(c) \/ CommandFails(c)
  BY <1>2 DEF Redis
<1>5. CallsInv' /\ UsersKnown' /\ (\A r \in workload'.asks : InPath(r))
  BY <1>1, CallsStay
<1>6. \A p : Begun(p)' <=> Begun(p)
  BY <1>1, CallsStay
<1>7. /\ roleCache' \in [Pairs -> Roles \cup {None}]
      /\ \A k \in Pairs : \/ roleCache'[k] \in {roleCache[k], None}
                          \/ c.cmd = "setRole" /\ k = <<c.project, c.user>>
  <2>1. roleCache \in [Pairs -> Roles \cup {None}]
    BY DEF RoleInv, RoleTypes
  <2>2. CASE SetRole(c)
    BY <1>3, <2>1, <2>2 DEF SetRole, Command
  <2>3. CASE DelRole(c)
    BY <2>1, <2>3 DEF DelRole
  <2>4. CASE WriteList(c) \/ CommandFails(c)
    BY <2>1, <2>4 DEF WriteList, CommandFails
  <2> QED
    BY <1>4, <2>2, <2>3, <2>4
<1>8. RoleTypes'
  BY <1>1, <1>3, <1>5, <1>7 DEF RoleInv, RoleTypes
<1>9. BegunInv'
  <2>1. \A k \in Pairs : k[1] \in ProjectIds
    BY DEF Pairs
  <2>2. c.cmd = "setRole" /\ c.project \in ProjectIds => Begun(c.project)
    BY <1>3 DEF RoleInv, BegunInv
  <2>3. \A k \in Pairs : members'[k] # None \/ roleCache'[k] # None => Begun(k[1])
    BY <1>1, <1>7, <2>1, <2>2 DEF RoleInv, BegunInv
  <2>4. \A d \in Waiting' : d.cmd = "setRole" /\ d.project \in ProjectIds => Begun(d.project)
    BY <1>3 DEF RoleInv, BegunInv
  <2> QED
    BY <1>6, <2>3, <2>4 DEF BegunInv
<1>10. ASSUME NEW x \in ProjectIds, NEW u \in Users, RemovalUnderWay(x, u)
       PROVE  RemovalUnderWay(x, u)' \/ (c.cmd = "delRole" /\ c.project = x /\ c.user = u)
  <2>1. PICK d \in Waiting : d.cmd = "delRole" /\ d.project = x /\ d.user = u
    BY <1>10, UnderWayWaits DEF RoleInv
  <2>2. CASE d = c
    BY <2>1, <2>2
  <2>3. CASE d \in Waiting'
    BY <2>1, <2>3 DEF Waiting, RemovalUnderWay
  <2> QED
    BY <1>3, <2>2, <2>3
<1>11. ASSUME NEW x \in ProjectIds, NEW u \in Users,
              roleCache'[<<x, u>>] # None, <<x, u>> \notin misfilled', ~RemovalUnderWay(x, u)'
       PROVE  roleCache'[<<x, u>>] = members[<<x, u>>]
  <2>1. <<x, u>> \in Pairs /\ roleCache \in [Pairs -> Roles \cup {None}]
    BY DEF Pairs, RoleInv, RoleTypes
  <2>2. /\ ~RemovalUnderWay(x, u) => (roleCache[<<x, u>>] # None /\ <<x, u>> \notin misfilled
                                       => roleCache[<<x, u>>] = members[<<x, u>>])
        /\ RemovalUnderWay(x, u) => c.cmd = "delRole" /\ c.project = x /\ c.user = u
    BY <1>10, <1>11 DEF RoleInv, RoleCacheTrue
  <2>3. CASE SetRole(c)
    <3>1. CASE <<x, u>> = <<c.project, c.user>>
      BY <1>11, <2>1, <2>3, <3>1 DEF SetRole
    <3>2. CASE <<x, u>> # <<c.project, c.user>>
      BY <1>11, <2>1, <2>2, <2>3, <3>2 DEF SetRole
    <3> QED
      BY <3>1, <3>2
  <2>4. CASE DelRole(c)
    BY <1>11, <2>1, <2>2, <2>4 DEF DelRole
  <2>5. CASE WriteList(c)
    BY <1>11, <2>2, <2>5 DEF WriteList
  <2>6. CASE CommandFails(c)
    BY <1>11, <2>2, <2>6 DEF CommandFails
  <2> QED
    BY <1>4, <2>3, <2>4, <2>5, <2>6
<1>12. RoleCacheTrue'
  BY <1>1, <1>11 DEF RoleCacheTrue
<1> QED
  BY <1>5, <1>8, <1>9, <1>12 DEF RoleInv

LEMMA ExpiryKeeps ==
  ASSUME RoleInv, UNCHANGED <<workload, call, tokens, projects, members, sent>>,
         \/ UNCHANGED <<roleCache, misfilled>>
         \/ \E p \in ProjectIds, u \in Users :
              /\ roleCache' = [roleCache EXCEPT ![<<p, u>>] = None]
              /\ misfilled' = misfilled \ {<<p, u>>}
  PROVE  RoleInv'
<1>1. CallsInv' /\ UsersKnown' /\ (\A r \in workload'.asks : InPath(r))
  BY CallsStay
<1>2. \A p : Begun(p)' <=> Begun(p)
  BY CallsStay
<1>3. /\ roleCache' \in [Pairs -> Roles \cup {None}]
      /\ \A k \in Pairs : \/ roleCache'[k] = None
                          \/ roleCache'[k] = roleCache[k] /\ (k \in misfilled => k \in misfilled')
  BY DEF RoleInv, RoleTypes
<1>4. RoleTypes'
  BY <1>1, <1>3 DEF RoleInv, RoleTypes
<1>5. Waiting' = Waiting /\ \A p, u : RemovalUnderWay(p, u)' <=> RemovalUnderWay(p, u)
  BY DEF Waiting, RemovalUnderWay
<1>6. BegunInv'
  <2>1. \A k \in Pairs : members'[k] # None \/ roleCache'[k] # None => Begun(k[1])
    BY <1>3 DEF RoleInv, BegunInv
  <2>2. \A d \in Waiting' : d.cmd = "setRole" /\ d.project \in ProjectIds => Begun(d.project)
    BY <1>5 DEF RoleInv, BegunInv
  <2> QED
    BY <1>2, <2>1, <2>2 DEF BegunInv
<1>7. \A x \in ProjectIds, u \in Users : <<x, u>> \in Pairs
  BY DEF Pairs
<1>8. RoleCacheTrue'
  BY <1>3, <1>5, <1>7 DEF RoleInv, RoleCacheTrue
<1> QED
  BY <1>1, <1>4, <1>6, <1>8 DEF RoleInv

-----------------------------------------------------------------------------
(* In the first states nothing is cached and nothing waits; every member's project is    *)
(* there.                                                                                *)
LEMMA InitRoleInv == Init => RoleInv
<1> SUFFICES ASSUME Init PROVE RoleInv
  OBVIOUS
<1>1. \A q \in Calls : call[q].step = "answered" /\ sent[q] = <<>>
  BY DEF Init, Idle
<1>2. Waiting = {}
  BY <1>1 DEF Waiting
<1>3. CallsInv
  BY <1>1 DEF CallsInv, Passed, InProject
<1>4. \A p \in ProjectIds : projects[p] # None => Begun(p)
  BY <1>1 DEF Begun
<1>5. BegunInv
  <2>1. \A k \in Pairs : k[1] \in ProjectIds /\ roleCache[k] = None
    BY DEF Init, Pairs
  <2>2. \A k \in Pairs : members[k] # None => projects[k[1]] # None
    BY AccessAssumption DEF Init
  <2> QED
    BY <1>2, <1>4, <2>1, <2>2 DEF BegunInv
<1>6. RoleCacheTrue
  BY DEF Init, RoleCacheTrue, Pairs
<1>7. RoleTypes
  <2>1. sent \in [Calls -> Seq(Command)]
    BY DEF Init
  <2>2. UsersKnown
    BY AccessAssumption DEF Init, UsersKnown, Token
  <2>3. \A r \in workload.asks : InPath(r)
    <3>1. workload \in Workloads /\ workload \in Workload
      BY AccessAssumption DEF Init
    <3>2. ASSUME NEW r \in workload.asks PROVE InPath(r)
      <4>1. r \in Request /\ Complete(r)
        BY <3>1, AccessAssumption DEF Workload
      <4> QED
        BY <4>1 DEF InPath, Complete, Request
    <3> QED
      BY <3>2
  <2>4. roleCache \in [Pairs -> Roles \cup {None}]
    BY DEF Init
  <2> QED
    BY <2>1, <2>2, <2>3, <2>4, AccessAssumption DEF Init, RoleTypes
<1> QED
  BY <1>3, <1>5, <1>6, <1>7 DEF RoleInv

LEMMA NextRole ==
  ASSUME LogInv, RoleInv, [Next]_vars
  PROVE  RoleInv'
<1>1. CASE UNCHANGED vars
  BY <1>1, ExpiryKeeps DEF vars, limiterVars, accountVars, projectVars
<1>2. CASE Next
  <2> UNCHANGED workload
    BY <1>2 DEF Next
  <2>1. ASSUME NEW q \in workload.calls, Begin(q) \/ Handle(q)
        PROVE  RoleInv'
    <3>1. q \in Calls
      BY DEF LogInv, Workload
    <3>2. CASE Begin(q)
      BY <3>1, <3>2, BeginQuiet
    <3>3. CASE Limit(q) /\ UNCHANGED <<accountVars, projectVars>>
      BY <3>1, <3>3, LimitQuiet
    <3>4. CASE Account(q) /\ UNCHANGED projectVars
      <4>1. CASE Verify(q)
        BY <3>1, <3>4, <4>1, VerifyQuiet
      <4>2. CASE CheckRevoked(q)
        BY <3>1, <3>4, <4>2, CheckRevokedQuiet
      <4>3. CASE AccountReads(q) \/ SignToken(q) \/ Logout(q)
        BY <3>1, <3>4, <4>3, AccountQuiet
      <4> QED
        BY <3>4, <4>1, <4>2, <4>3 DEF Account, AccountReads
    <3>5. CASE Project(q)
      <4>1. CASE CachedRole(q)
        BY <3>1, <4>1, CachedRoleQuiet
      <4>2. CASE ReadRole(q)
        BY <3>1, <4>2, ReadRoleQuiet
      <4>3. CASE \/ FindKey(q) \/ FindProject(q) \/ FindMembership(q) \/ CachedList(q)
                 \/ QueryList(q) \/ ListMembers(q) \/ FindMember(q) \/ Settled(q)
        BY <3>1, <4>3, HandlerQuiet
      <4>4. CASE UpdateProject(q) \/ DeleteProject(q)
        BY <3>1, <4>4, UpdateKeeps
      <4>5. CASE SaveProject(q)
        BY <3>1, <4>5, SaveProjectKeeps
      <4>6. CASE SaveAdmin(q)
        BY <3>1, <4>6, SaveAdminKeeps
      <4>7. CASE SaveMember(q)
        BY <3>1, <4>7, SaveMemberKeeps
      <4>8. CASE RemoveMember(q)
        BY <3>1, <4>8, RemoveMemberKeeps
      <4> QED
        BY <3>5, <4>1, <4>2, <4>3, <4>4, <4>5, <4>6, <4>7, <4>8 DEF Project
    <3>6. CASE Field(q)
      BY <3>1, <3>6, FieldQuiet
    <3>7. CASE Redis(q)
      BY <3>1, <3>7, RedisKeeps
    <3>8. CASE Fails(q)
      BY <3>1, <3>8, FailsQuiet
    <3> QED
      BY <2>1, <3>2, <3>3, <3>4, <3>5, <3>6, <3>7, <3>8 DEF Handle
  <2>2. CASE Tick /\ UNCHANGED <<accountVars, projectVars>>
    BY <2>2, ExpiryKeeps DEF Tick, accountVars, projectVars
  <2>3. CASE \E p \in ProjectIds, u \in Users : RoleExpires(p, u)
    BY <2>3, ExpiryKeeps DEF RoleExpires, limiterVars, accountVars
  <2>4. CASE \E u \in Users : ListExpires(u)
    BY <2>4, ExpiryKeeps DEF ListExpires, limiterVars, accountVars
  <2> QED
    BY <1>2, <2>1, <2>2, <2>3, <2>4 DEF Next
<1> QED
  BY <1>1, <1>2

(* For any number of calls, users and projects, and however Redis lags or fails: the     *)
(* role that requireProjectRole finds in the cache is the one the user has, unless the   *)
(* removal is under way, or the entry was written too late or its invalidation failed    *)
(* (src/src/core/middleware/rbac.ts, ProjectService).                                    *)
THEOREM CachedRolesTrue == Spec => []RoleCacheTrue
<1>1. Init => LogInv /\ RoleInv
  BY InitLogInv, InitRoleInv
<1>2. LogInv /\ RoleInv /\ [Next]_vars => (LogInv /\ RoleInv)'
  BY NextKeeps, NextRole
<1>3. RoleInv => RoleCacheTrue
  BY DEF RoleInv
<1> QED
  BY <1>1, <1>2, <1>3, PTL DEF Spec

-----------------------------------------------------------------------------
(***************************************************************************)
(* The races of the handlers.  Unless another call has written to them     *)
(* since, the rows that a call has read are as it found them: the one way   *)
(* from there to an index or a foreign key that refuses its save.          *)
(***************************************************************************)
Is(c, op, step) == c.step = step /\ c.request.op = op

(* The rows that a call has read on its way to a save. *)
HasRead(c, rows) ==
  /\ Is(c, "register", "save") => <<"email", c.request.email>> \in rows
  /\ Is(c, "createProject", "save") => <<"key", c.request.key>> \in rows
  /\ Is(c, "addMember", "save") => <<"member", c.request.project, c.request.target>> \in rows
  /\ Is(c, "deleteDefinition", "emptied") => <<"values", c.request.field>> \in rows
  /\ Is(c, "setValue", "value") \/ Is(c, "setValue", "save") => <<"field", c.request.field>> \in rows
  /\ Is(c, "setValue", "save") => <<"value", c.request.field, c.request.issue>> \in rows

NoRow(k, row) == values[k] = None \/ values[k].row = row

(* What it found there. *)
Found(c) ==
  /\ Is(c, "register", "save") => HasEmail(c.request.email) = {}
  /\ Is(c, "createProject", "save") => \A p \in WithKey(c.request.key) : ~Live(p)
  /\ Is(c, "addMember", "save") => members[<<c.request.project, c.request.target>>] = None
  /\ Is(c, "deleteDefinition", "emptied") => ValuesOf(c.request.field) = {}
  /\ Is(c, "setValue", "value") \/ Is(c, "setValue", "save") => Exists(c.request.field)
  /\ Is(c, "setValue", "save") => NoRow(<<c.request.field, c.request.issue>>, c.found)

Statuses == {0, 200, 201, 204, 400, 401, 403, 404, 409, 429, 500}

CallTyped(c) ==
  /\ c.step \in Steps /\ c.now \in Times /\ c.user \in Users \cup {None} /\ c.late \in BOOLEAN
  /\ c.status \in Statuses /\ (c.step # "answered" => c.status = 0) /\ c.fault \in BOOLEAN
  /\ Is(c, "updateDefinition", "found") => c.found \in Definition
  /\ Is(c, "setValue", "value") \/ Is(c, "setValue", "save") => c.request.value \in Offered
  /\ Is(c, "setValue", "save") => c.found \in Rows

TablesTyped ==
  /\ users \in [Users -> Emails \cup {None}]
  /\ \A t \in Tokens : tokens[t] = None \/ tokens[t] \in Token
  /\ \A t \in Tokens : revoked[t] = None \/ revoked[t] \in Nat
  /\ loggedOut \subseteq Tokens
  /\ projects \in [ProjectIds -> ProjectRow \cup {None}]
  /\ members \in [Pairs -> Roles \cup {None}]
  /\ fields \in [Fields -> Definition \cup {None, Gone}]
  /\ values \in [Fields \X Issues -> ValueRow \cup {None}]

CachesTyped ==
  /\ clock \in Times /\ recorded \subseteq Times \X Nat
  /\ listCache \in [Users -> (SUBSET ProjectIds) \cup {None}] /\ misfilled \subseteq Pairs

CallsKnown ==
  /\ reads = [q \in Calls |-> reads[q]] /\ disturbed \subseteq Calls
  /\ \A q \in Calls :
       CallTyped(call[q]) /\ HasRead(call[q], reads[q]) /\ (q \notin disturbed => Found(call[q]))

RaceInv == CallsKnown /\ TablesTyped

(* What RefusalsAreRaces says of a step. *)
Excused(q) ==
  \/ q \in disturbed
  \/ /\ At(q, "createProject", "save")
     /\ \E p \in WithKey(call[q].request.key) : projects[p].deleted
  \/ At(q, "addMember", "save") /\ users[call[q].request.target] = None

ErrorsExcused ==
  \A q \in Calls : call'[q] # call[q] /\ call'[q].status = 500 /\ ~call'[q].fault => Excused(q)

(* The rows that a step is said to write are all it writes, but for those it empties. *)
Covered(rows) ==
  /\ \A e \in Emails : HasEmail(e) = {} => HasEmail(e)' = {} \/ <<"email", e>> \in rows
  /\ \A k \in Keys : (\A p \in WithKey(k) : ~Live(p)) =>
       (\A p \in WithKey(k)' : ~Live(p)') \/ <<"key", k>> \in rows
  /\ \A p \in ProjectIds, u \in Users : members[<<p, u>>] = None =>
       members'[<<p, u>>] = None \/ <<"member", p, u>> \in rows
  /\ \A f \in Fields : ValuesOf(f) = {} => ValuesOf(f)' = {} \/ <<"values", f>> \in rows
  /\ \A f \in Fields : Exists(f) => Exists(f)' \/ <<"field", f>> \in rows
  /\ \A f \in Fields, i \in Issues :
       values'[<<f, i>>] \in {values[<<f, i>>], None} \/ <<"value", f, i>> \in rows

LEMMA TablesCovered ==
  ASSUME UNCHANGED <<users, projects, members, fields, values>>, NEW rows
  PROVE  Covered(rows)
BY DEF Covered, HasEmail, WithKey, Live, ValuesOf, Exists

(* A step that writes none of the rows a call has read leaves it what it found. *)
LEMMA FoundStays ==
  ASSUME NEW c, c.request \in Request, InPath(c.request), NEW read, NEW rows, Covered(rows),
         HasRead(c, read), read \cap rows = {}, Found(c)
  PROVE  Found(c)'
<1> PICK r : r = c.request
  OBVIOUS
<1>1. /\ r \in Request /\ Complete(r) /\ (MinRole(r.op) # None => r.project \in ProjectIds)
      /\ \A x \in read : x \notin rows
  BY DEF InPath
<1>2. Is(c, "register", "save") => HasEmail(r.email)' = {}
  BY <1>1 DEF Is, Complete, Request, HasRead, Found, Covered
<1>3. Is(c, "createProject", "save") => \A p \in WithKey(r.key)' : ~Live(p)'
  BY <1>1 DEF Is, Complete, Request, HasRead, Found, Covered
<1>4. Is(c, "addMember", "save") => members'[<<r.project, r.target>>] = None
  <2>1. MinRole("addMember") # None
    BY AccessAssumption DEF MinRole, Roles, Rank
  <2> QED
    BY <1>1, <2>1 DEF Is, Complete, Request, HasRead, Found, Covered
<1>5. Is(c, "deleteDefinition", "emptied") => ValuesOf(r.field)' = {}
  BY <1>1 DEF Is, Complete, Request, HasRead, Found, Covered
<1>6. Is(c, "setValue", "value") \/ Is(c, "setValue", "save") => Exists(r.field)'
  BY <1>1 DEF Is, Complete, Request, HasRead, Found, Covered
<1>7. Is(c, "setValue", "save") => NoRow(<<r.field, r.issue>>, c.found)'
  <2>1. SUFFICES ASSUME Is(c, "setValue", "save")
                 PROVE  NoRow(<<r.field, r.issue>>, c.found)'
    OBVIOUS
  <2>2. r.field \in Fields /\ r.issue \in Issues /\ <<"value", r.field, r.issue>> \notin rows
    BY <1>1, <2>1 DEF Is, Complete, Request, HasRead
  <2>3. values'[<<r.field, r.issue>>] \in {values[<<r.field, r.issue>>], None}
    BY <2>2 DEF Covered
  <2> QED
    BY <2>1, <2>3 DEF NoRow, Found
<1> QED
  BY <1>2, <1>3, <1>4, <1>5, <1>6, <1>7 DEF Found

(* A call becomes c, and the rows it writes are named. *)
LEMMA StepKeeps ==
  ASSUME LogInv, RoleInv, RaceInv, NEW q \in Calls, NEW c, NEW rd, NEW wr, Become(q, c, rd, wr),
         CallTyped(c), c.step # "answered" => HasRead(c, reads[q] \cup rd),
         c.step # "answered" /\ q \notin disturbed => Found(c)',
         c.status = 500 /\ ~c.fault => Excused(q), Covered(wr), TablesTyped'
  PROVE  RaceInv' /\ ErrorsExcused
<1>1. /\ call'[q] = c /\ \A o \in Calls \ {q} : call'[o] = call[o]
      /\ reads' = [o \in Calls |-> reads'[o]]
      /\ reads'[q] = IF c.step = "answered" THEN {} ELSE reads[q] \cup rd
      /\ \A o \in Calls \ {q} : reads'[o] = reads[o]
  BY DEF Become, LogInv, CallsOK, RaceInv, CallsKnown
<1>2. /\ disturbed' \subseteq Calls /\ (c.step # "answered" => disturbed \subseteq disturbed')
      /\ \A o \in Calls \ {q} : o \notin disturbed' => o \notin disturbed /\ reads[o] \cap wr = {}
  BY DEF Become, RaceInv, CallsKnown
<1>3. c.step = "answered" => HasRead(c, {}) /\ Found(c)'
  BY DEF HasRead, Found, Is
<1>4. (CallTyped(call[q]) /\ HasRead(call[q], reads[q]) /\ (q \notin disturbed => Found(call[q])))'
  <2>1. CallTyped(c) /\ HasRead(c, reads'[q]) /\ (q \notin disturbed' => Found(c)')
    BY <1>1, <1>2, <1>3
  <2> QED
    BY <1>1, <2>1
<1>5. ASSUME NEW o \in Calls \ {q}
      PROVE  (CallTyped(call[o]) /\ HasRead(call[o], reads[o]) /\ (o \notin disturbed => Found(call[o])))'
  <2>1. /\ CallTyped(call[o]) /\ HasRead(call[o], reads[o])
        /\ o \notin disturbed => Found(call[o])
    BY DEF RaceInv, CallsKnown
  <2>2. PICK d : d = call[o] /\ d = call'[o]
    BY <1>1
  <2> SUFFICES o \notin disturbed' => Found(d)'
    BY <1>1, <2>1, <2>2
  <2>3. CASE d.step = "answered"
    <3>1. Found(d)'
      BY <2>3 DEF Found, Is
    <3> QED
      BY <3>1
  <2>4. CASE d.step # "answered" /\ o \notin disturbed'
    <3>1. d.request \in Request /\ InPath(d.request)
      BY <2>2, <2>4 DEF LogInv, AskInv, RoleInv, CallsInv, Passed
    <3>2. Found(d)'
      BY <1>2, <2>1, <2>2, <2>4, <3>1, FoundStays
    <3> QED
      BY <3>2
  <2> QED
    BY <2>3, <2>4
<1>6. CallsKnown'
  BY <1>1, <1>2, <1>4, <1>5 DEF CallsKnown
<1>7. ErrorsExcused
  BY <1>1 DEF ErrorsExcused
<1> QED
  BY <1>6, <1>7 DEF RaceInv

-----------------------------------------------------------------------------
tables == <<users, tokens, revoked, loggedOut, projects, members, fields, values>>

LEMMA TablesStay ==
  ASSUME RaceInv, UNCHANGED tables, NEW rows
  PROVE  TablesTyped' /\ Covered(rows)
<1>1. TablesTyped'
  BY DEF tables, RaceInv, TablesTyped
<1>2. Covered(rows)
  BY TablesCovered DEF tables
<1> QED
  BY <1>1, <1>2

(* A call is answered, having written what it says. *)
LEMMA AnswerRaces ==
  ASSUME LogInv, RoleInv, RaceInv, NEW q \in Calls, NEW st \in Statuses, NEW wr,
         Become(q, Answered(q, st), {}, wr), st = 500 => Excused(q), Covered(wr), TablesTyped'
  PROVE  RaceInv' /\ ErrorsExcused
<1>1. PICK c : c = Answered(q, st)
  OBVIOUS
<1>2. /\ c.step = "answered" /\ c.now = 0 /\ c.user = None /\ c.late = call[q].late
      /\ c.status = st /\ c.fault = FALSE
  BY <1>1 DEF Answered, Idle
<1>3. 0 \in Times /\ call[q].late \in BOOLEAN
  BY LimiterAssumption DEF Times, RaceInv, CallsKnown, CallTyped
<1>4. CallTyped(c)
  BY <1>2, <1>3 DEF CallTyped, Steps, Is
<1>5. Become(q, c, {}, wr)
  BY <1>1
<1> QED
  BY <1>2, <1>4, <1>5, StepKeeps

LEMMA RefusalRaces ==
  ASSUME LogInv, RoleInv, RaceInv, NEW q \in Calls, NEW st \in Statuses, Answer(q, st),
         st = 500 => Excused(q), UNCHANGED tables
  PROVE  RaceInv' /\ ErrorsExcused
BY TablesStay, AnswerRaces DEF Answer

(* A call goes on to a step that needs no rows. *)
LEMMA GoneOnRaces ==
  ASSUME LogInv, RoleInv, RaceInv, NEW q \in Calls, NEW c, NEW wr, Become(q, c, {}, wr),
         call[q].step # "answered", c.step \in Steps \ {"answered", "save", "emptied", "value"},
         c.step = "found" => c.request.op # "updateDefinition" \/ c.found \in Definition,
         c.now = call[q].now, c.user \in Users \cup {None}, c.late = call[q].late,
         c.status = call[q].status, c.fault = call[q].fault, Covered(wr), TablesTyped'
  PROVE  RaceInv' /\ ErrorsExcused
<1>1. CallTyped(call[q])
  BY DEF RaceInv, CallsKnown
<1>2. CallTyped(c)
  BY <1>1 DEF CallTyped, Is
<1>3. HasRead(c, reads[q] \cup {}) /\ Found(c)' /\ c.status # 500
  BY <1>1 DEF HasRead, Found, Is, CallTyped
<1> QED
  BY <1>2, <1>3, StepKeeps

LEMMA GotoRaces ==
  ASSUME LogInv, RoleInv, RaceInv, NEW q \in Calls, NEW step, Goto(q, step), UNCHANGED tables,
         call[q].step # "answered", step \in Steps \ {"answered", "save", "emptied", "value"},
         step = "found" => call[q].request.op # "updateDefinition"
  PROVE  RaceInv' /\ ErrorsExcused
<1>1. PICK c : c = [call[q] EXCEPT !.step = step]
  OBVIOUS
<1>2. /\ c.step = step /\ c.request = call[q].request /\ c.now = call[q].now
      /\ c.user = call[q].user /\ c.late = call[q].late /\ c.status = call[q].status
      /\ c.fault = call[q].fault
  BY <1>1 DEF LogInv, CallsOK, IsCall
<1>3. Become(q, c, {}, {}) /\ c.user \in Users \cup {None}
  BY <1>1, <1>2 DEF Goto, RaceInv, CallsKnown, CallTyped
<1> QED
  BY <1>2, <1>3, TablesStay, GoneOnRaces

-----------------------------------------------------------------------------
(* The limiter and the token. *)
LEMMA BeginRaces ==
  ASSUME LogInv, RoleInv, RaceInv, NEW q \in Calls, Begin(q), clock \in Times
  PROVE  RaceInv' /\ ErrorsExcused
<1>1. PICK r \in workload.asks, step \in {"prune", "verify"} :
        Arrive(q, r, step, r.token \in loggedOut)
  BY DEF Begin
<1>2. PICK late \in BOOLEAN : late = (r.token \in loggedOut)
  <2>1. (r.token \in loggedOut) = TRUE \/ (r.token \in loggedOut) = FALSE
    OBVIOUS
  <2> QED
    BY <2>1
<1>3. PICK c : c = [Idle EXCEPT !.step = step, !.request = r, !.now = clock, !.late = late]
  OBVIOUS
<1>4. /\ c.step = step /\ c.now = clock /\ c.user = None /\ c.late = late /\ c.status = 0
      /\ c.fault = FALSE
  BY <1>3 DEF Idle
<1>5. CallTyped(c) /\ HasRead(c, reads[q] \cup {}) /\ Found(c)'
  BY <1>4 DEF CallTyped, HasRead, Found, Is, Steps, Statuses
<1>6. Become(q, c, {}, {})
  BY <1>1, <1>2, <1>3 DEF Arrive
<1>7. UNCHANGED tables
  BY DEF Begin, accountVars, projectVars, fieldVars, tables
<1>8. TablesTyped' /\ Covered({})
  BY <1>7, TablesStay
<1> QED
  BY <1>4, <1>5, <1>6, <1>8, StepKeeps

LEMMA LimitRaces ==
  ASSUME LogInv, RoleInv, RaceInv, NEW q \in Calls, Limit(q), UNCHANGED tables
  PROVE  RaceInv' /\ ErrorsExcused
<1>1. /\ call[q].step # "answered"
      /\ \/ Answer(q, 429)
         \/ \E step \in {"count", "record", "expire", "verify"} :
              Goto(q, step) \/ \E row : Keep(q, step, row)
  BY DEF Limit, Prune, Count, Record, Expire
<1>2. CASE Answer(q, 429)
  BY <1>2, RefusalRaces DEF Statuses
<1>3. ASSUME NEW step \in {"count", "record", "expire", "verify"}, Goto(q, step)
      PROVE  RaceInv' /\ ErrorsExcused
  BY <1>1, <1>3, GotoRaces DEF Steps
<1>4. ASSUME NEW step \in {"count", "record", "expire", "verify"}, NEW row, Keep(q, step, row)
      PROVE  RaceInv' /\ ErrorsExcused
  <2>1. PICK c : c = [call[q] EXCEPT !.step = step, !.found = row]
    OBVIOUS
  <2>2. /\ c.step = step /\ c.request = call[q].request /\ c.now = call[q].now
        /\ c.user = call[q].user /\ c.late = call[q].late /\ c.status = call[q].status
        /\ c.fault = call[q].fault
    BY <2>1 DEF LogInv, CallsOK, IsCall
  <2>3. Become(q, c, {}, {}) /\ c.user \in Users \cup {None}
    BY <1>4, <2>1, <2>2 DEF Keep, RaceInv, CallsKnown, CallTyped
  <2>4. TablesTyped' /\ Covered({})
    BY TablesStay
  <2> QED
    BY <1>1, <2>2, <2>3, <2>4, GoneOnRaces DEF Steps
<1> QED
  BY <1>1, <1>2, <1>3, <1>4

(* A command or a query of the call fails. *)
LEMMA FailsRaces ==
  ASSUME LogInv, RoleInv, RaceInv, NEW q \in Calls, Fails(q)
  PROVE  RaceInv' /\ ErrorsExcused
<1>1. PICK c : /\ Become(q, c, {}, {}) /\ IsCall(c)
               /\ c.step = "answered" /\ c.status = 500 /\ c.fault = TRUE
               /\ c.now = 0 /\ c.user = None /\ c.late = call[q].late
  BY FailsAnswers
<1>2. 0 \in Times /\ call[q].late \in BOOLEAN
  BY LimiterAssumption DEF Times, RaceInv, CallsKnown, CallTyped
<1>3. CallTyped(c)
  BY <1>1, <1>2 DEF CallTyped, Steps, Statuses, Is
<1>4. TablesTyped' /\ Covered({})
  BY TablesStay DEF Fails, tables, accountVars, projectVars, fieldVars
<1> QED
  BY <1>1, <1>3, <1>4, StepKeeps

LEMMA VerifyRaces ==
  ASSUME LogInv, RoleInv, RaceInv, NEW q \in Calls, Verify(q), UNCHANGED tables
  PROVE  RaceInv' /\ ErrorsExcused
<1> PICK t : t = call[q].request.token
  OBVIOUS
<1>1. /\ call[q].step = "verify"
      /\ \/ Answer(q, 401) \/ Goto(q, "handler")
         \/ /\ t # None /\ tokens[t] # None
            /\ Become(q, [call[q] EXCEPT !.step = "revoked", !.user = tokens[t].user], {}, {})
  BY DEF Verify
<1>2. CASE Answer(q, 401)
  BY <1>2, RefusalRaces DEF Statuses
<1>3. CASE Goto(q, "handler")
  BY <1>1, <1>3, GotoRaces DEF Steps
<1>4. CASE /\ t # None /\ tokens[t] # None
           /\ Become(q, [call[q] EXCEPT !.step = "revoked", !.user = tokens[t].user], {}, {})
  <2>1. t \in Tokens
    BY <1>1, <1>4 DEF LogInv, AskInv, Request
  <2>2. PICK u \in Users : u = tokens[t].user
    BY <1>4, <2>1 DEF RoleInv, RoleTypes, UsersKnown
  <2>3. PICK c : c = [call[q] EXCEPT !.step = "revoked", !.user = u]
    OBVIOUS
  <2>4. /\ c.step = "revoked" /\ c.now = call[q].now
        /\ c.user = u /\ c.late = call[q].late /\ c.status = call[q].status
        /\ c.fault = call[q].fault
    BY <2>3 DEF LogInv, CallsOK, IsCall
  <2>5. Become(q, c, {}, {})
    BY <1>4, <2>2, <2>3
  <2> QED
    BY <1>1, <2>4, <2>5, TablesStay, GoneOnRaces DEF Steps
<1> QED
  BY <1>1, <1>2, <1>3, <1>4

LEMMA CheckRevokedRaces ==
  ASSUME LogInv, RoleInv, RaceInv, NEW q \in Calls, CheckRevoked(q), UNCHANGED tables
  PROVE  RaceInv' /\ ErrorsExcused
<1>1. /\ call[q].step = "revoked"
      /\ Answer(q, 401) \/ Goto(q, "handler") \/ Goto(q, "cached")
  BY DEF CheckRevoked
<1>2. CASE Answer(q, 401)
  BY <1>2, RefusalRaces DEF Statuses
<1>3. CASE Goto(q, "handler") \/ Goto(q, "cached")
  BY <1>1, <1>3, GotoRaces DEF Steps
<1> QED
  BY <1>1, <1>2, <1>3

-----------------------------------------------------------------------------
(* A call that has read rows goes on. *)
LEMMA ReadingRaces ==
  ASSUME LogInv, RoleInv, RaceInv, NEW q \in Calls, NEW step \in Steps, NEW rows, NEW wr,
         Become(q, [call[q] EXCEPT !.step = step], rows, wr), call[q].step # "answered", step # "answered",
         Covered(wr), TablesTyped',
         \A c : c.step = step /\ c.request = call[q].request =>
           /\ HasRead(c, reads[q] \cup rows) /\ (q \notin disturbed => Found(c)')
           /\ ~Is(c, "setValue", "save") /\ ~Is(c, "updateDefinition", "found")
           /\ Is(c, "setValue", "value") => c.request.value \in Offered
  PROVE  RaceInv' /\ ErrorsExcused
<1>1. PICK c : c = [call[q] EXCEPT !.step = step]
  OBVIOUS
<1>2. /\ c.step = step /\ c.request = call[q].request /\ c.now = call[q].now
      /\ c.user = call[q].user /\ c.late = call[q].late /\ c.status = call[q].status
      /\ c.fault = call[q].fault
  BY <1>1 DEF LogInv, CallsOK, IsCall
<1>3. /\ HasRead(c, reads[q] \cup rows) /\ (q \notin disturbed => Found(c)')
      /\ ~Is(c, "setValue", "save") /\ ~Is(c, "updateDefinition", "found")
      /\ Is(c, "setValue", "value") => c.request.value \in Offered
  BY <1>2
<1>4. CallTyped(c) /\ c.status # 500
  BY <1>2, <1>3 DEF RaceInv, CallsKnown, CallTyped
<1>5. Become(q, c, rows, wr)
  BY <1>1
<1> QED
  BY <1>3, <1>4, <1>5, StepKeeps

(* Accounts. *)
LEMMA FindEmailRaces ==
  ASSUME LogInv, RoleInv, RaceInv, NEW q \in Calls, FindEmail(q), UNCHANGED tables
  PROVE  RaceInv' /\ ErrorsExcused
<1> PICK e, row : e = call[q].request.email /\ row = <<"email", e>>
  OBVIOUS
<1>1. /\ call[q].step = "handler" /\ call[q].request.op = "register"
      /\ \/ Answer(q, 409)
         \/ HasEmail(e) = {} /\ GotoReading(q, "save", {row})
  BY DEF FindEmail, At
<1>2. CASE Answer(q, 409)
  BY <1>2, RefusalRaces DEF Statuses
<1>3. CASE HasEmail(e) = {} /\ GotoReading(q, "save", {row})
  <2>1. HasEmail(e)' = {}
    BY <1>3 DEF HasEmail, tables
  <2>2. ASSUME NEW c, c.step = "save", c.request = call[q].request
        PROVE  /\ HasRead(c, reads[q] \cup {row}) /\ Found(c)'
               /\ ~Is(c, "setValue", "save") /\ ~Is(c, "updateDefinition", "found")
               /\ ~Is(c, "setValue", "value")
    BY <1>1, <2>1, <2>2 DEF HasRead, Found, Is
  <2> QED
    BY <1>1, <1>3, <2>2, TablesStay, ReadingRaces DEF GotoReading, Steps
<1> QED
  BY <1>1, <1>2, <1>3

(* Two that register the same e-mail: the second insertion fails, and the first has       *)
(* written the row the second read.                                                     *)
LEMMA SaveUserRaces ==
  ASSUME LogInv, RoleInv, RaceInv, NEW q \in Calls, SaveUser(q),
         UNCHANGED <<projectVars, fieldVars>>
  PROVE  RaceInv' /\ ErrorsExcused
<1> PICK e : e = call[q].request.email
  OBVIOUS
<1>1. /\ Is(call[q], "register", "save") /\ UNCHANGED <<tokens, revoked, loggedOut>>
      /\ UNCHANGED <<projects, members, fields, values>>
  BY DEF SaveUser, At, Is, projectVars, fieldVars
<1>2. CASE Taken(e) /\ Answer(q, 500) /\ UNCHANGED users
  <2>1. q \in disturbed
    BY <1>1, <1>2 DEF RaceInv, CallsKnown, Found, Taken
  <2> QED
    BY <1>1, <1>2, <2>1, RefusalRaces DEF Statuses, Excused, tables
<1>3. CASE \E u \in HasEmail(None) : /\ users' = [users EXCEPT ![u] = e]
                                     /\ AnswerWriting(q, 201, {<<"email", e>>, <<"user", u>>})
  <2> PICK u \in HasEmail(None) : /\ users' = [users EXCEPT ![u] = e]
                                  /\ AnswerWriting(q, 201, {<<"email", e>>, <<"user", u>>})
    BY <1>3
  <2> PICK wr : wr = {<<"email", e>>, <<"user", u>>}
    OBVIOUS
  <2>1. /\ users' = [users EXCEPT ![u] = e]
        /\ AnswerWriting(q, 201, wr) /\ <<"email", e>> \in wr
    OBVIOUS
  <2>2. e \in Emails \cup {None} /\ u \in Users
    BY <1>1, <2>1 DEF LogInv, AskInv, Request, HasEmail, Is
  <2>3. TablesTyped'
    BY <1>1, <2>1, <2>2 DEF RaceInv, TablesTyped
  <2>4. \A x \in Users : users'[x] = IF x = u THEN e ELSE users[x]
    BY <2>1, <2>2 DEF RaceInv, TablesTyped
  <2>5. \A x \in Emails : HasEmail(x) = {} => HasEmail(x)' = {} \/ <<"email", x>> \in wr
    BY <2>1, <2>4 DEF HasEmail
  <2>6. Covered(wr)
    BY <1>1, <2>5 DEF Covered, WithKey, Live, ValuesOf, Exists
  <2> QED
    BY <2>1, <2>3, <2>6, AnswerRaces DEF AnswerWriting, Statuses
<1>4. \/ Taken(e) /\ Answer(q, 500) /\ UNCHANGED users
      \/ \E u \in HasEmail(None) : /\ users' = [users EXCEPT ![u] = e]
                                   /\ AnswerWriting(q, 201, {<<"email", e>>, <<"user", u>>})
  BY DEF SaveUser
<1> QED
  BY <1>2, <1>3, <1>4

LEMMA CheckPasswordRaces ==
  ASSUME LogInv, RoleInv, RaceInv, NEW q \in Calls, CheckPassword(q), UNCHANGED tables
  PROVE  RaceInv' /\ ErrorsExcused
<1>1. /\ call[q].step = "handler" /\ call[q].request.op = "login"
      /\ Answer(q, 401) \/ \E u : Keep(q, "sign", u)
  BY DEF CheckPassword, At
<1>2. CASE Answer(q, 401)
  BY <1>2, RefusalRaces DEF Statuses
<1>3. ASSUME NEW u, Keep(q, "sign", u)
      PROVE  RaceInv' /\ ErrorsExcused
  <2>1. PICK c : c = [call[q] EXCEPT !.step = "sign", !.found = u]
    OBVIOUS
  <2>2. /\ c.step = "sign" /\ c.now = call[q].now
        /\ c.user = call[q].user /\ c.late = call[q].late /\ c.status = call[q].status
        /\ c.fault = call[q].fault
    BY <2>1 DEF LogInv, CallsOK, IsCall
  <2>3. Become(q, c, {}, {}) /\ c.user \in Users \cup {None}
    BY <1>3, <2>1, <2>2 DEF Keep, RaceInv, CallsKnown, CallTyped
  <2> QED
    BY <1>1, <2>2, <2>3, TablesStay, GoneOnRaces DEF Steps
<1> QED
  BY <1>1, <1>2, <1>3

LEMMA SignTokenRaces ==
  ASSUME LogInv, RoleInv, RaceInv, NEW q \in Calls, SignToken(q),
         UNCHANGED <<projectVars, fieldVars>>
  PROVE  RaceInv' /\ ErrorsExcused
<1>1. /\ call[q].step = "sign" /\ UNCHANGED <<users, revoked, loggedOut>>
      /\ UNCHANGED <<projects, members, fields, values>> /\ Answer(q, 200)
  BY DEF SignToken, At, projectVars, fieldVars
<1>2. PICK x, new : /\ x \in Tokens /\ new = [user |-> call[q].found, exp |-> Seconds(clock) + TokenLife]
                    /\ tokens' = [tokens EXCEPT ![x] = new]
  BY DEF SignToken, Unsigned
<1>3. call[q].found \in Users
  BY <1>1 DEF RoleInv, CallsInv, Passed
<1>4. Seconds(clock) + TokenLife \in Nat
  BY AccountsAssumption DEF LogInv, Seconds
<1>5. new \in Token
  BY <1>2, <1>3, <1>4 DEF Token
<1>6. \A t \in Tokens : tokens'[t] = IF t = x THEN new ELSE tokens[t]
  BY <1>2 DEF LogInv, TokenInv
<1>7. TablesTyped'
  BY <1>1, <1>5, <1>6 DEF RaceInv, TablesTyped
<1> QED
  BY <1>1, <1>7, TablesCovered, AnswerRaces DEF Answer, Statuses

LEMMA LogoutRaces ==
  ASSUME LogInv, RoleInv, RaceInv, NEW q \in Calls, Logout(q), UNCHANGED <<projectVars, fieldVars>>
  PROVE  RaceInv' /\ ErrorsExcused
<1> PICK t : t = call[q].request.token
  OBVIOUS
<1>1. /\ call[q].step = "handler" /\ call[q].request.op = "logout" /\ UNCHANGED <<users, tokens>>
      /\ UNCHANGED <<projects, members, fields, values>> /\ Answer(q, 204)
      /\ revoked' = [revoked EXCEPT ![t] = clock + 2 * Lifetime(t)] /\ loggedOut' = loggedOut \cup {t}
  BY DEF Logout, At, projectVars, fieldVars
<1>2. t \in Tokens /\ tokens[t] # None
  BY <1>1 DEF LogInv, AskInv, Request, Unverified, Public
<1>3. clock \in Nat /\ tokens[t].exp \in Nat /\ Seconds(clock) \in Nat
  BY <1>2 DEF LogInv, TokenInv, Seconds
<1>4. Lifetime(t) \in Nat
  <2>1. PICK m \in Int : m = tokens[t].exp - Seconds(clock)
    BY <1>3
  <2>2. Lifetime(t) = Max({m, 1})
    BY <2>1 DEF Lifetime
  <2>3. 1 \in Int
    OBVIOUS
  <2>4. Max({m, 1}) >= 1 /\ Max({m, 1}) \in {m, 1}
    BY <2>3, MaxOfTwo
  <2> QED
    BY <2>2, <2>4
<1>5. clock + 2 * Lifetime(t) \in Nat
  BY <1>3, <1>4
<1>6. \A x \in Tokens : revoked'[x] = IF x = t THEN clock + 2 * Lifetime(t) ELSE revoked[x]
  BY <1>1 DEF LogInv, TokenInv
<1>7. TablesTyped'
  BY <1>1, <1>2, <1>5, <1>6 DEF RaceInv, TablesTyped
<1> QED
  BY <1>1, <1>7, TablesCovered, AnswerRaces DEF Answer, Statuses

-----------------------------------------------------------------------------
(* requireProjectRole, and the handlers of projects that only read. *)
LEMMA RoleRaces ==
  ASSUME LogInv, RoleInv, RaceInv, NEW q \in Calls, CachedRole(q) \/ ReadRole(q), UNCHANGED tables
  PROVE  RaceInv' /\ ErrorsExcused
<1>1. /\ call[q].step # "answered"
      /\ \/ Answer(q, 403) \/ Goto(q, "member") \/ Goto(q, "handler")
  BY DEF CachedRole, ReadRole, Admit
<1>2. CASE Answer(q, 403)
  BY <1>2, RefusalRaces DEF Statuses
<1>3. CASE Goto(q, "member") \/ Goto(q, "handler")
  BY <1>1, <1>3, GotoRaces DEF Steps
<1> QED
  BY <1>1, <1>2, <1>3

LEMMA ReaderRaces ==
  ASSUME LogInv, RoleInv, RaceInv, NEW q \in Calls, UNCHANGED tables,
         \/ FindProject(q) \/ FindMembership(q) \/ CachedList(q) \/ QueryList(q)
         \/ ListMembers(q) \/ Settled(q)
  PROVE  RaceInv' /\ ErrorsExcused
<1>1. /\ call[q].step # "answered"
      /\ \/ \E st \in {200, 204, 403, 404} : Answer(q, st)
         \/ Goto(q, "found") /\ call[q].request.op # "updateDefinition"
         \/ Goto(q, "query")
  BY DEF FindProject, FindMembership, CachedList, QueryList, ListMembers, Settled, At
<1>2. ASSUME NEW st \in {200, 204, 403, 404}, Answer(q, st)
      PROVE  RaceInv' /\ ErrorsExcused
  BY <1>2, RefusalRaces DEF Statuses
<1>3. CASE Goto(q, "found") /\ call[q].request.op # "updateDefinition"
  BY <1>1, <1>3, GotoRaces DEF Steps
<1>4. CASE Goto(q, "query")
  BY <1>1, <1>4, GotoRaces DEF Steps
<1> QED
  BY <1>1, <1>2, <1>3, <1>4

LEMMA FindKeyRaces ==
  ASSUME LogInv, RoleInv, RaceInv, NEW q \in Calls, FindKey(q), UNCHANGED tables
  PROVE  RaceInv' /\ ErrorsExcused
<1> PICK k, row : k = call[q].request.key /\ row = <<"key", k>>
  OBVIOUS
<1>1. /\ call[q].step = "handler" /\ call[q].request.op = "createProject"
      /\ \/ Answer(q, 409)
         \/ (\A p \in WithKey(k) : ~Live(p)) /\ GotoReading(q, "save", {row})
  BY DEF FindKey, At
<1>2. CASE Answer(q, 409)
  BY <1>2, RefusalRaces DEF Statuses
<1>3. CASE (\A p \in WithKey(k) : ~Live(p)) /\ GotoReading(q, "save", {row})
  <2>1. \A p \in WithKey(k)' : ~Live(p)'
    BY <1>3 DEF WithKey, Live, tables
  <2>2. ASSUME NEW c, c.step = "save", c.request = call[q].request
        PROVE  /\ HasRead(c, reads[q] \cup {row}) /\ Found(c)'
               /\ ~Is(c, "setValue", "save") /\ ~Is(c, "updateDefinition", "found")
               /\ ~Is(c, "setValue", "value")
    BY <1>1, <2>1, <2>2 DEF HasRead, Found, Is
  <2> QED
    BY <1>1, <1>3, <2>2, TablesStay, ReadingRaces DEF GotoReading, Steps
<1> QED
  BY <1>1, <1>2, <1>3

LEMMA FindMemberRaces ==
  ASSUME LogInv, RoleInv, RaceInv, NEW q \in Calls, FindMember(q), UNCHANGED tables
  PROVE  RaceInv' /\ ErrorsExcused
<1> PICK p, u : p = call[q].request.project /\ u = call[q].request.target
  OBVIOUS
<1> PICK row, rows : row = <<"member", p, u>> /\ rows = {row, <<"user", u>>}
  OBVIOUS
<1>1. /\ call[q].step = "handler" /\ call[q].request.op = "addMember"
      /\ \/ Answer(q, 409)
         \/ members[<<p, u>>] = None /\ GotoReading(q, "save", rows)
  BY DEF FindMember, At
<1>2. CASE Answer(q, 409)
  BY <1>2, RefusalRaces DEF Statuses
<1>3. CASE members[<<p, u>>] = None /\ GotoReading(q, "save", rows)
  <2>1. members'[<<p, u>>] = None
    BY <1>3 DEF tables
  <2>2. ASSUME NEW c, c.step = "save", c.request = call[q].request
        PROVE  /\ HasRead(c, reads[q] \cup rows) /\ Found(c)'
               /\ ~Is(c, "setValue", "save") /\ ~Is(c, "updateDefinition", "found")
               /\ ~Is(c, "setValue", "value")
    BY <1>1, <2>1, <2>2 DEF HasRead, Found, Is
  <2> QED
    BY <1>1, <1>3, <2>2, TablesStay, ReadingRaces DEF GotoReading, Steps
<1> QED
  BY <1>1, <1>2, <1>3

-----------------------------------------------------------------------------
(* The handlers that write projects and members. *)

(* Of two that take the same key, the second fails; so does one that takes the key of a   *)
(* deleted project, which its query does not see.                                       *)
LEMMA SaveProjectRaces ==
  ASSUME LogInv, RoleInv, RaceInv, NEW q \in Calls, SaveProject(q),
         UNCHANGED <<accountVars, fieldVars>>
  PROVE  RaceInv' /\ ErrorsExcused
<1> PICK k : k = call[q].request.key
  OBVIOUS
<1>1. /\ Is(call[q], "createProject", "save") /\ call[q].step = "save"
      /\ UNCHANGED <<users, tokens, revoked, loggedOut, members, fields, values>>
  BY DEF SaveProject, At, Is, accountVars, fieldVars
<1>2. CASE WithKey(k) # {} /\ Answer(q, 500) /\ UNCHANGED projects
  <2>1. q \notin disturbed => \A p \in WithKey(k) : ~Live(p)
    BY <1>1 DEF RaceInv, CallsKnown, Found
  <2>2. q \notin disturbed => \E p \in WithKey(k) : projects[p].deleted
    BY <1>2, <2>1 DEF WithKey, Live
  <2>3. Excused(q)
    BY <1>1, <2>2 DEF Excused, At, Is
  <2> QED
    BY <1>1, <1>2, <2>3, RefusalRaces DEF Statuses, tables
<1>3. ASSUME NEW p \in ProjectIds, projects[p] = None,
             projects' = [projects EXCEPT ![p] = [key |-> k, deleted |-> FALSE]],
             Become(q, [call[q] EXCEPT !.step = "admin", !.found = p], {}, {<<"key", k>>})
      PROVE  RaceInv' /\ ErrorsExcused
  <2>1. PICK c : c = [call[q] EXCEPT !.step = "admin", !.found = p]
    OBVIOUS
  <2>2. /\ c.step = "admin" /\ c.now = call[q].now
        /\ c.user = call[q].user /\ c.late = call[q].late /\ c.status = call[q].status
        /\ c.fault = call[q].fault
    BY <2>1 DEF LogInv, CallsOK, IsCall
  <2>3. PICK row, wr : row = <<"key", k>> /\ wr = {row}
    OBVIOUS
  <2>4. Become(q, c, {}, wr) /\ c.user \in Users \cup {None}
    BY <1>3, <2>1, <2>2, <2>3 DEF RaceInv, CallsKnown, CallTyped
  <2>5. k \in Keys \cup {None}
    BY <1>1 DEF LogInv, AskInv, Request
  <2>6. PICK new \in ProjectRow : new = [key |-> k, deleted |-> FALSE]
    BY <2>5 DEF ProjectRow
  <2>7. new.key = k /\ new # None /\ projects' = [projects EXCEPT ![p] = new]
    BY <1>3, <2>6, AccessAssumption
  <2>8. \A x \in ProjectIds : projects'[x] = IF x = p THEN new ELSE projects[x]
    BY <2>7 DEF RaceInv, TablesTyped
  <2>9. TablesTyped'
    BY <1>1, <2>7 DEF RaceInv, TablesTyped
  <2>10. ASSUME NEW x \in Keys, \A o \in WithKey(x) : ~Live(o), x # k, NEW o \in WithKey(x)'
         PROVE  ~Live(o)'
    <3>1. o \in ProjectIds /\ projects'[o] # None /\ projects'[o].key = x
      BY DEF WithKey
    <3>2. o # p /\ projects'[o] = projects[o]
      BY <2>7, <2>8, <2>10, <3>1
    <3> QED
      BY <2>10, <3>1, <3>2 DEF WithKey, Live
  <2>11. Covered(wr)
    BY <1>1, <2>3, <2>10 DEF Covered, HasEmail, ValuesOf, Exists
  <2> QED
    BY <1>1, <2>2, <2>4, <2>9, <2>11, GoneOnRaces DEF Steps
<1>4. \/ WithKey(k) # {} /\ Answer(q, 500) /\ UNCHANGED projects
      \/ \E p \in ProjectIds :
           /\ projects[p] = None
           /\ projects' = [projects EXCEPT ![p] = [key |-> k, deleted |-> FALSE]]
           /\ Become(q, [call[q] EXCEPT !.step = "admin", !.found = p], {}, {<<"key", k>>})
  <2>1. \A free : free # {} => (CHOOSE x \in free : TRUE) \in free
    OBVIOUS
  <2> QED
    BY <2>1 DEF SaveProject
<1> QED
  BY <1>3, <1>4, <1>2

(* What a step that writes one member does. *)
LEMMA MemberRaces ==
  ASSUME LogInv, RoleInv, RaceInv, NEW q \in Calls, NEW p, NEW u, NEW role \in Roles \cup {None},
         members' = [members EXCEPT ![<<p, u>>] = role], NEW wr, <<"member", p, u>> \in wr,
         UNCHANGED <<users, tokens, revoked, loggedOut, projects, fields, values>>
  PROVE  TablesTyped' /\ Covered(wr)
<1>1. \A k \in Pairs : members'[k] = IF k = <<p, u>> THEN role ELSE members[k]
  BY DEF RaceInv, TablesTyped
<1>2. members' \in [Pairs -> Roles \cup {None}]
  BY DEF RaceInv, TablesTyped
<1>3. TablesTyped'
  BY <1>2 DEF RaceInv, TablesTyped
<1>4. \A o \in ProjectIds, x \in Users : members[<<o, x>>] = None =>
        members'[<<o, x>>] = None \/ <<"member", o, x>> \in wr
  BY <1>1 DEF Pairs
<1>5. Covered(wr)
  BY <1>4 DEF Covered, HasEmail, WithKey, Live, ValuesOf, Exists
<1> QED
  BY <1>3, <1>5

LEMMA SaveAdminRaces ==
  ASSUME LogInv, RoleInv, RaceInv, NEW q \in Calls, SaveAdmin(q), UNCHANGED <<accountVars, fieldVars>>
  PROVE  RaceInv' /\ ErrorsExcused
<1> PICK p, u : p = call[q].found /\ u = call[q].user
  OBVIOUS
<1> PICK row, wr : row = <<"member", p, u>> /\ wr = {row}
  OBVIOUS
<1>1. /\ UNCHANGED <<users, tokens, revoked, loggedOut, projects, fields, values>>
      /\ members' = [members EXCEPT ![<<p, u>>] = "ADMIN"] /\ AnswerWriting(q, 201, wr)
  BY DEF SaveAdmin, accountVars, fieldVars
<1>2. "ADMIN" \in Roles \cup {None}
  BY DEF Roles, Rank
<1>3. TablesTyped' /\ Covered(wr)
  BY <1>1, <1>2, MemberRaces
<1> QED
  BY <1>1, <1>3, AnswerRaces DEF AnswerWriting, Statuses

(* A member that another call has added since; or a user that there is not, whom nobody    *)
(* looked for.                                                                          *)
LEMMA SaveMemberRaces ==
  ASSUME LogInv, RoleInv, RaceInv, NEW q \in Calls, SaveMember(q), UNCHANGED <<accountVars, fieldVars>>
  PROVE  RaceInv' /\ ErrorsExcused
<1> PICK p, u, role : /\ p = call[q].request.project /\ u = call[q].request.target
                      /\ role = call[q].request.role
  OBVIOUS
<1> PICK row, wr : row = <<"member", p, u>> /\ wr = {row}
  OBVIOUS
<1>1. /\ At(q, "addMember", "save") /\ Is(call[q], "addMember", "save") /\ call[q].step = "save"
      /\ UNCHANGED <<users, tokens, revoked, loggedOut, projects, fields, values>>
      /\ \/ MemberRefused(p, u) /\ Answer(q, 500) /\ UNCHANGED members
         \/ members' = [members EXCEPT ![<<p, u>>] = role] /\ AnswerWriting(q, 201, wr)
  BY DEF SaveMember, accountVars, fieldVars, At, Is
<1>2. CASE MemberRefused(p, u) /\ Answer(q, 500) /\ UNCHANGED members
  <2>1. q \notin disturbed => members[<<p, u>>] = None
    BY <1>1 DEF RaceInv, CallsKnown, Found
  <2>2. Excused(q)
    BY <1>1, <1>2, <2>1 DEF Excused, MemberRefused
  <2> QED
    BY <1>1, <1>2, <2>2, RefusalRaces DEF Statuses, tables
<1>3. CASE members' = [members EXCEPT ![<<p, u>>] = role] /\ AnswerWriting(q, 201, wr)
  <2>1. role \in Roles \cup {None}
    BY <1>1 DEF LogInv, AskInv, Request
  <2>2. members' = [members EXCEPT ![<<p, u>>] = role] /\ <<"member", p, u>> \in wr
    BY <1>3
  <2>3. TablesTyped' /\ Covered(wr)
    BY <1>1, <2>1, <2>2, MemberRaces
  <2> QED
    BY <1>3, <2>3, AnswerRaces DEF AnswerWriting, Statuses
<1> QED
  BY <1>1, <1>2, <1>3

LEMMA RemoveMemberRaces ==
  ASSUME LogInv, RoleInv, RaceInv, NEW q \in Calls, RemoveMember(q),
         UNCHANGED <<accountVars, fieldVars>>
  PROVE  RaceInv' /\ ErrorsExcused
<1> PICK p, u : p = call[q].request.project /\ u = call[q].request.target
  OBVIOUS
<1> PICK row, wr : row = <<"member", p, u>> /\ wr = {row}
  OBVIOUS
<1>1. /\ call[q].step = "handler"
      /\ UNCHANGED <<users, tokens, revoked, loggedOut, projects, fields, values>>
      /\ members' = [members EXCEPT ![<<p, u>>] = None]
      /\ Become(q, [call[q] EXCEPT !.step = "settled"], {}, wr)
  BY DEF RemoveMember, accountVars, fieldVars, At
<1>2. PICK c : c = [call[q] EXCEPT !.step = "settled"]
  OBVIOUS
<1>3. /\ c.step = "settled" /\ c.now = call[q].now
      /\ c.user = call[q].user /\ c.late = call[q].late /\ c.status = call[q].status
      /\ c.fault = call[q].fault
  BY <1>2 DEF LogInv, CallsOK, IsCall
<1>4. Become(q, c, {}, wr) /\ c.user \in Users \cup {None}
  BY <1>1, <1>2, <1>3 DEF RaceInv, CallsKnown, CallTyped
<1>5. PICK role \in Roles \cup {None} : role = None
  OBVIOUS
<1>6. TablesTyped' /\ Covered(wr)
  <2>1. members' = [members EXCEPT ![<<p, u>>] = role] /\ <<"member", p, u>> \in wr
    BY <1>1, <1>5
  <2> QED
    BY <1>1, <1>5, <2>1, MemberRaces
<1> QED
  BY <1>1, <1>3, <1>4, <1>6, GoneOnRaces DEF Steps

(* A project that comes back, and one that goes. *)
LEMMA RewriteRaces ==
  ASSUME LogInv, RoleInv, RaceInv, NEW q \in Calls, UpdateProject(q) \/ DeleteProject(q),
         UNCHANGED <<accountVars, fieldVars>>
  PROVE  RaceInv' /\ ErrorsExcused
<1> PICK p, k : p = call[q].request.project /\ k = projects[p].key
  OBVIOUS
<1> PICK row, wr : row = <<"key", k>> /\ wr = {row}
  OBVIOUS
<1>1. /\ call[q].step = "found" /\ call[q].request.op \in {"updateProject", "deleteProject"}
      /\ UNCHANGED <<users, tokens, revoked, loggedOut, members, fields, values>>
      /\ \/ projects' = [projects EXCEPT ![p].deleted = FALSE] /\ AnswerWriting(q, 200, wr)
         \/ projects' = [projects EXCEPT ![p].deleted = TRUE] /\ Answer(q, 204)
  BY DEF UpdateProject, DeleteProject, At, accountVars, fieldVars
<1>2. p \in ProjectIds /\ projects[p] # None
  <2>1. MinRole(call[q].request.op) # None
    BY <1>1, AccessAssumption DEF MinRole, Roles, Rank
  <2>2. Passed(call[q])
    BY DEF RoleInv, CallsInv
  <2> QED
    BY <1>1, <2>1, <2>2 DEF Passed, InPath, InProject
<1>3. PICK old \in ProjectRow : old = projects[p]
  BY <1>2 DEF RaceInv, TablesTyped
<1>4. PICK new : /\ new \in ProjectRow /\ new.key = k /\ projects' = [projects EXCEPT ![p] = new]
                 /\ \/ ~new.deleted /\ AnswerWriting(q, 200, wr)
                    \/ new.deleted /\ Answer(q, 204)
  <2>1. CASE projects' = [projects EXCEPT ![p].deleted = FALSE] /\ AnswerWriting(q, 200, wr)
    <3>1. PICK new : new = [old EXCEPT !.deleted = FALSE]
      OBVIOUS
    <3>2. new \in ProjectRow /\ new.key = k /\ ~new.deleted
      BY <1>3, <3>1 DEF ProjectRow
    <3>3. projects' = [projects EXCEPT ![p] = new]
      BY <1>3, <2>1, <3>1
    <3> QED
      BY <2>1, <3>2, <3>3
  <2>2. CASE projects' = [projects EXCEPT ![p].deleted = TRUE] /\ Answer(q, 204)
    <3>1. PICK new : new = [old EXCEPT !.deleted = TRUE]
      OBVIOUS
    <3>2. new \in ProjectRow /\ new.key = k /\ new.deleted
      BY <1>3, <3>1 DEF ProjectRow
    <3>3. projects' = [projects EXCEPT ![p] = new]
      BY <1>3, <2>2, <3>1
    <3> QED
      BY <2>2, <3>2, <3>3
  <2> QED
    BY <1>1, <2>1, <2>2
<1>5. new # None
  BY <1>4, AccessAssumption
<1>6. \A x \in ProjectIds : projects'[x] = IF x = p THEN new ELSE projects[x]
  BY <1>4 DEF RaceInv, TablesTyped
<1>7. TablesTyped'
  <2>1. projects' \in [ProjectIds -> ProjectRow \cup {None}]
    BY <1>4 DEF RaceInv, TablesTyped
  <2> QED
    BY <1>1, <2>1 DEF RaceInv, TablesTyped
<1>8. ASSUME NEW x \in Keys, \A o \in WithKey(x) : ~Live(o), x # k \/ new.deleted, NEW o \in WithKey(x)'
      PROVE  ~Live(o)'
  <2>1. o \in ProjectIds /\ projects'[o] # None /\ projects'[o].key = x
    BY DEF WithKey
  <2>2. CASE o = p
    BY <1>4, <1>6, <1>8, <2>1, <2>2 DEF Live
  <2>3. CASE o # p
    BY <1>6, <1>8, <2>1, <2>3 DEF WithKey, Live
  <2> QED
    BY <2>2, <2>3
<1>9. \A x \in Keys : (\A o \in WithKey(x) : ~Live(o)) /\ (x # k \/ new.deleted) =>
        \A o \in WithKey(x)' : ~Live(o)'
  BY <1>8
<1>10. CASE AnswerWriting(q, 200, wr) /\ ~new.deleted
  <2>1. Covered(wr)
    BY <1>1, <1>9 DEF Covered, HasEmail, ValuesOf, Exists
  <2> QED
    BY <1>7, <1>10, <2>1, AnswerRaces DEF AnswerWriting, Statuses
<1>11. CASE Answer(q, 204) /\ new.deleted
  <2>1. Covered({})
    BY <1>1, <1>9, <1>11 DEF Covered, HasEmail, ValuesOf, Exists
  <2> QED
    BY <1>7, <1>11, <2>1, AnswerRaces DEF Answer, Statuses
<1> QED
  BY <1>4, <1>10, <1>11

-----------------------------------------------------------------------------
(* Custom fields. *)
FieldReads(q) == ListDefinitions(q) \/ ListValues(q) \/ FindDefinition(q)

LEMMA FieldReadsRaces ==
  ASSUME LogInv, RoleInv, RaceInv, NEW q \in Calls, FieldReads(q), UNCHANGED tables
  PROVE  RaceInv' /\ ErrorsExcused
<1> PICK f : f = call[q].request.field
  OBVIOUS
<1>1. /\ call[q].step = "handler"
      /\ \/ \E st \in {200, 400, 403, 404} : Answer(q, st)
         \/ /\ call[q].request.op \in {"updateDefinition", "deleteDefinition"}
            /\ Exists(f) /\ Keep(q, "found", fields[f])
  BY DEF FieldReads, ListDefinitions, ListValues, FindDefinition, At
<1>2. ASSUME NEW st \in {200, 400, 403, 404}, Answer(q, st)
      PROVE  RaceInv' /\ ErrorsExcused
  BY <1>2, RefusalRaces DEF Statuses
<1>3. CASE /\ call[q].request.op \in {"updateDefinition", "deleteDefinition"}
           /\ Exists(f) /\ Keep(q, "found", fields[f])
  <2>1. f \in Fields
    BY <1>1, <1>3 DEF LogInv, AskInv, Request, RoleInv, CallsInv, Passed, InPath, Complete
  <2>2. PICK row \in Definition : row = fields[f]
    BY <1>3, <2>1 DEF Exists, RaceInv, TablesTyped
  <2>3. PICK c : c = [call[q] EXCEPT !.step = "found", !.found = row]
    OBVIOUS
  <2>4. /\ c.step = "found" /\ c.found = row /\ c.now = call[q].now
        /\ c.user = call[q].user /\ c.late = call[q].late /\ c.status = call[q].status
        /\ c.fault = call[q].fault
    BY <2>3 DEF LogInv, CallsOK, IsCall
  <2>5. Become(q, c, {}, {}) /\ c.user \in Users \cup {None}
    BY <1>3, <2>2, <2>3, <2>4 DEF Keep, RaceInv, CallsKnown, CallTyped
  <2> QED
    BY <1>1, <2>4, <2>5, TablesStay, GoneOnRaces DEF Steps
<1> QED
  BY <1>1, <1>2, <1>3

(* What a step that inserts or rewrites a definition does. *)
LEMMA DefinitionRaces ==
  ASSUME LogInv, RoleInv, RaceInv, NEW q \in Calls, NEW st \in {200, 201}, Answer(q, st),
         fields' \in [Fields -> Definition \cup {None, Gone}],
         \A x \in Fields : fields'[x] = fields[x] \/ fields'[x] \in Definition,
         UNCHANGED <<users, tokens, revoked, loggedOut, projects, members, values>>
  PROVE  RaceInv' /\ ErrorsExcused
<1>1. TablesTyped'
  BY DEF RaceInv, TablesTyped
<1>2. \A x \in Fields : Exists(x) => Exists(x)'
  BY AccessAssumption DEF Exists
<1>3. Covered({})
  BY <1>2 DEF Covered, HasEmail, WithKey, Live, ValuesOf
<1> QED
  BY <1>1, <1>3, AnswerRaces DEF Answer, Statuses

LEMMA CreateDefinitionRaces ==
  ASSUME LogInv, RoleInv, RaceInv, NEW q \in Calls, CreateDefinition(q)
  PROVE  RaceInv' /\ ErrorsExcused
<1> PICK r : r = call[q].request
  OBVIOUS
<1> PICK def : def = [project |-> r.project, allowed |-> r.allowed]
  OBVIOUS
<1>1. /\ call[q].step = "handler" /\ r.op = "createDefinition"
      /\ UNCHANGED <<users, tokens, revoked, loggedOut, projects, members, values>>
      /\ \/ Answer(q, 400) /\ UNCHANGED fields
         \/ /\ Answer(q, 201)
            /\ \E f : fields' = [fields EXCEPT ![f] = def]
  BY DEF CreateDefinition, At, Others, projectVars
<1>2. CASE Answer(q, 400) /\ UNCHANGED fields
  BY <1>1, <1>2, RefusalRaces DEF Statuses, tables
<1>3. CASE Answer(q, 201) /\ \E f : fields' = [fields EXCEPT ![f] = def]
  <2>1. MinRole("createDefinition") # None
    BY AccessAssumption DEF MinRole, Roles, Rank
  <2>2. r.project \in ProjectIds /\ r.allowed \in SUBSET Offered
    BY <1>1, <2>1 DEF LogInv, AskInv, Request, RoleInv, CallsInv, Passed, InPath, Complete
  <2>3. def \in Definition
    BY <2>2 DEF Definition
  <2>4. /\ fields' \in [Fields -> Definition \cup {None, Gone}]
        /\ \A x \in Fields : fields'[x] = fields[x] \/ fields'[x] \in Definition
    BY <1>3, <2>3 DEF RaceInv, TablesTyped
  <2> QED
    BY <1>1, <1>3, <2>4, DefinitionRaces
<1> QED
  BY <1>1, <1>2, <1>3

LEMMA UpdateDefinitionRaces ==
  ASSUME LogInv, RoleInv, RaceInv, NEW q \in Calls, UpdateDefinition(q)
  PROVE  RaceInv' /\ ErrorsExcused
<1> PICK r, old : r = call[q].request /\ old = call[q].found
  OBVIOUS
<1>1. /\ Is(call[q], "updateDefinition", "found") /\ call[q].step = "found" /\ Answer(q, 200)
      /\ UNCHANGED <<users, tokens, revoked, loggedOut, projects, members, values>>
      /\ fields' = [fields EXCEPT ![r.field] =
           IF r.allowed = None THEN old ELSE [old EXCEPT !.allowed = r.allowed]]
  BY DEF UpdateDefinition, At, Is, Others, projectVars
<1>2. old \in Definition /\ r.allowed \in (SUBSET Offered) \cup {None}
  BY <1>1 DEF LogInv, AskInv, Request, RaceInv, CallsKnown, CallTyped
<1>3. PICK def : def = IF r.allowed = None THEN old ELSE [old EXCEPT !.allowed = r.allowed]
  OBVIOUS
<1>4. def \in Definition
  BY <1>2, <1>3 DEF Definition
<1>5. fields' = [fields EXCEPT ![r.field] = def]
  BY <1>1, <1>3
<1>6. /\ fields' \in [Fields -> Definition \cup {None, Gone}]
      /\ \A x \in Fields : fields'[x] = fields[x] \/ fields'[x] \in Definition
  BY <1>4, <1>5 DEF RaceInv, TablesTyped
<1> QED
  BY <1>1, <1>6, DefinitionRaces

(* The values are deleted first; one that is set since keeps its definition.              *)
LEMMA DeleteValuesRaces ==
  ASSUME LogInv, RoleInv, RaceInv, NEW q \in Calls, DeleteValues(q)
  PROVE  RaceInv' /\ ErrorsExcused
<1> PICK f, row, wr : /\ f = call[q].request.field /\ row = <<"values", f>>
                      /\ wr = {<<"emptied", f>>}
  OBVIOUS
<1>1. /\ call[q].step = "found" /\ call[q].request.op = "deleteDefinition"
      /\ UNCHANGED <<users, tokens, revoked, loggedOut, projects, members, fields>>
      /\ values' = [k \in Fields \X Issues |-> IF k[1] = f THEN None ELSE values[k]]
      /\ Become(q, [call[q] EXCEPT !.step = "emptied"], {row}, wr)
  BY DEF DeleteValues, At, Others, projectVars
<1>2. f \in Fields
  BY <1>1 DEF LogInv, AskInv, Request, RoleInv, CallsInv, Passed, InPath, Complete
<1>3. \A x \in Fields, i \in Issues :
        values'[<<x, i>>] = IF x = f THEN None ELSE values[<<x, i>>]
  BY <1>1
<1>4. values' \in [Fields \X Issues -> ValueRow \cup {None}]
  BY <1>1 DEF RaceInv, TablesTyped
<1>5. TablesTyped'
  BY <1>1, <1>4 DEF RaceInv, TablesTyped
<1>6. ValuesOf(f)' = {} /\ \A x \in Fields : ValuesOf(x)' = {} \/ ValuesOf(x)' = ValuesOf(x)
  BY <1>2, <1>3 DEF ValuesOf
<1>7. Covered(wr)
  BY <1>1, <1>3, <1>6 DEF Covered, HasEmail, WithKey, Live, Exists
<1>8. ASSUME NEW c, c.step = "emptied", c.request = call[q].request
      PROVE  /\ HasRead(c, reads[q] \cup {row}) /\ Found(c)'
             /\ ~Is(c, "setValue", "save") /\ ~Is(c, "updateDefinition", "found")
             /\ ~Is(c, "setValue", "value")
  BY <1>1, <1>6, <1>8 DEF HasRead, Found, Is
<1> QED
  BY <1>1, <1>5, <1>7, <1>8, ReadingRaces DEF Steps

LEMMA DeleteDefinitionRaces ==
  ASSUME LogInv, RoleInv, RaceInv, NEW q \in Calls, DeleteDefinition(q)
  PROVE  RaceInv' /\ ErrorsExcused
<1> PICK f, row, wr : f = call[q].request.field /\ row = <<"field", f>> /\ wr = {row}
  OBVIOUS
<1>1. /\ Is(call[q], "deleteDefinition", "emptied")
      /\ UNCHANGED <<users, tokens, revoked, loggedOut, projects, members, values>>
      /\ \/ ValuesOf(f) # {} /\ Answer(q, 500) /\ UNCHANGED fields
         \/ fields' = [fields EXCEPT ![f] = Gone] /\ AnswerWriting(q, 204, wr)
  BY DEF DeleteDefinition, At, Is, Others, projectVars
<1>2. CASE ValuesOf(f) # {} /\ Answer(q, 500) /\ UNCHANGED fields
  <2>1. q \in disturbed
    BY <1>1, <1>2 DEF RaceInv, CallsKnown, Found
  <2> QED
    BY <1>1, <1>2, <2>1, RefusalRaces DEF Statuses, Excused, tables
<1>3. CASE fields' = [fields EXCEPT ![f] = Gone] /\ AnswerWriting(q, 204, wr)
  <2>1. \A x \in Fields : fields'[x] = IF x = f THEN Gone ELSE fields[x]
    BY <1>3 DEF RaceInv, TablesTyped
  <2>2. fields' \in [Fields -> Definition \cup {None, Gone}]
    BY <1>3 DEF RaceInv, TablesTyped
  <2>3. TablesTyped'
    BY <1>1, <2>2 DEF RaceInv, TablesTyped
  <2>4. \A x \in Fields : Exists(x) => Exists(x)' \/ <<"field", x>> \in wr
    BY <2>1 DEF Exists
  <2>5. Covered(wr)
    BY <1>1, <2>4 DEF Covered, HasEmail, WithKey, Live, ValuesOf
  <2> QED
    BY <1>3, <2>3, <2>5, AnswerRaces DEF AnswerWriting, Statuses
<1> QED
  BY <1>1, <1>2, <1>3

-----------------------------------------------------------------------------
(* Values. *)
LEMMA CheckValueRaces ==
  ASSUME LogInv, RoleInv, RaceInv, NEW q \in Calls, CheckValue(q)
  PROVE  RaceInv' /\ ErrorsExcused
<1> PICK r, row : r = call[q].request /\ row = <<"field", r.field>>
  OBVIOUS
<1>1. /\ call[q].step = "handler" /\ r.op = "setValue" /\ UNCHANGED tables
      /\ \/ \E st \in {400, 403, 404} : Answer(q, st)
         \/ /\ Exists(r.field) /\ r.value \in fields[r.field].allowed
            /\ GotoReading(q, "value", {row})
  BY DEF CheckValue, At, Others, projectVars, fieldVars, tables
<1>2. ASSUME NEW st \in {400, 403, 404}, Answer(q, st)
      PROVE  RaceInv' /\ ErrorsExcused
  BY <1>1, <1>2, RefusalRaces DEF Statuses
<1>3. CASE /\ Exists(r.field) /\ r.value \in fields[r.field].allowed
           /\ GotoReading(q, "value", {row})
  <2>1. r.field \in Fields
    BY <1>1 DEF LogInv, AskInv, Request, RoleInv, CallsInv, Passed, InPath, Complete
  <2>2. r.value \in Offered
    BY <1>3, <2>1 DEF Exists, RaceInv, TablesTyped, Definition
  <2>3. Exists(r.field)'
    BY <1>1, <1>3 DEF Exists, tables
  <2>4. ASSUME NEW c, c.step = "value", c.request = call[q].request
        PROVE  /\ HasRead(c, reads[q] \cup {row}) /\ Found(c)'
               /\ ~Is(c, "setValue", "save") /\ ~Is(c, "updateDefinition", "found")
               /\ Is(c, "setValue", "value") => c.request.value \in Offered
    BY <1>1, <2>2, <2>3, <2>4 DEF HasRead, Found, Is
  <2>5. Become(q, [call[q] EXCEPT !.step = "value"], {row}, {}) /\ "value" \in Steps
    BY <1>3 DEF GotoReading, Steps
  <2>6. TablesTyped' /\ Covered({})
    BY <1>1, TablesStay
  <2> QED
    BY <1>1, <2>4, <2>5, <2>6, ReadingRaces
<1> QED
  BY <1>1, <1>2, <1>3

LEMMA FindValueRaces ==
  ASSUME LogInv, RoleInv, RaceInv, NEW q \in Calls, FindValue(q)
  PROVE  RaceInv' /\ ErrorsExcused
<1> PICK r : r = call[q].request
  OBVIOUS
<1> PICK k, row, rows : k = <<r.field, r.issue>> /\ row = <<"value", r.field, r.issue>> /\ rows = {row}
  OBVIOUS
<1>1. /\ Is(call[q], "setValue", "value") /\ UNCHANGED tables /\ call[q].step = "value"
  BY DEF FindValue, At, Is, Others, projectVars, fieldVars, tables
<1>2. k \in Fields \X Issues
  BY <1>1 DEF LogInv, AskInv, Request, RoleInv, CallsInv, Passed, InPath, Complete, Is
<1>3. PICK n \in Rows : /\ NoRow(k, n)
                        /\ Become(q, [call[q] EXCEPT !.step = "save", !.found = n], rows, {})
  <2>1. CASE values[k] # None
    <3>1. values[k].row \in Rows
      BY <1>2, <2>1 DEF RaceInv, TablesTyped, ValueRow
    <3>2. Become(q, [call[q] EXCEPT !.step = "save", !.found = values[k].row], rows, {})
      BY <2>1 DEF FindValue
    <3> QED
      BY <3>1, <3>2 DEF NoRow
  <2>2. CASE values[k] = None
    <3>1. PICK n : /\ n = CHOOSE x \in FreeRows : TRUE
                   /\ FreeRows # {}
                   /\ Become(q, [call[q] EXCEPT !.step = "save", !.found = n], rows, {})
      BY <2>2 DEF FindValue
    <3>2. n \in Rows
      BY <3>1 DEF FreeRows
    <3> QED
      BY <2>2, <3>1, <3>2 DEF NoRow
  <2> QED
    BY <2>1, <2>2
<1>4. PICK c : c = [call[q] EXCEPT !.step = "save", !.found = n]
  OBVIOUS
<1>5. /\ c.step = "save" /\ c.request = call[q].request /\ c.found = n /\ c.now = call[q].now
      /\ c.user = call[q].user /\ c.late = call[q].late /\ c.status = call[q].status
      /\ c.fault = call[q].fault
  BY <1>4 DEF LogInv, CallsOK, IsCall
<1>6. Become(q, c, rows, {})
  BY <1>3, <1>4
<1>7. CallTyped(c) /\ c.status # 500
  BY <1>1, <1>5 DEF RaceInv, CallsKnown, CallTyped, Is, Steps
<1>8. HasRead(c, reads[q] \cup rows)
  BY <1>1, <1>5 DEF RaceInv, CallsKnown, HasRead, Is
<1>9. q \notin disturbed => Exists(r.field) /\ Exists(r.field)'
  BY <1>1 DEF RaceInv, CallsKnown, Found, Exists, tables
<1>10. NoRow(k, n)'
  BY <1>1, <1>3 DEF NoRow, tables
<1>11. q \notin disturbed => Found(c)'
  BY <1>1, <1>5, <1>9, <1>10 DEF Found, Is
<1> QED
  BY <1>1, <1>6, <1>7, <1>8, <1>11, TablesStay, StepKeeps

(* The row or the definition that was found is gone, or another row took the place of it.  *)
LEMMA SaveValueRaces ==
  ASSUME LogInv, RoleInv, RaceInv, NEW q \in Calls, SaveValue(q)
  PROVE  RaceInv' /\ ErrorsExcused
<1> PICK r, n : r = call[q].request /\ n = call[q].found
  OBVIOUS
<1> PICK f, i : f = r.field /\ i = r.issue
  OBVIOUS
<1> PICK a, b, wr : a = <<"value", f, i>> /\ b = <<"values", f>> /\ wr = {a, b}
  OBVIOUS
<1>1. /\ Is(call[q], "setValue", "save") /\ call[q].step = "save"
      /\ UNCHANGED <<users, tokens, revoked, loggedOut, projects, members, fields>>
      /\ \/ ValueRefused(f, i, n) /\ Answer(q, 500) /\ UNCHANGED values
         \/ /\ values' = [values EXCEPT ![<<f, i>>] = [row |-> n, value |-> r.value]]
            /\ AnswerWriting(q, 200, wr)
  BY DEF SaveValue, At, Is, Others, projectVars
<1>2. CASE ValueRefused(f, i, n) /\ Answer(q, 500) /\ UNCHANGED values
  <2>1. q \notin disturbed => Exists(f) /\ NoRow(<<f, i>>, n)
    BY <1>1 DEF RaceInv, CallsKnown, Found
  <2>2. q \in disturbed
    BY <1>2, <2>1 DEF ValueRefused, NoRow
  <2> QED
    BY <1>1, <1>2, <2>2, RefusalRaces DEF Statuses, Excused, tables
<1>3. CASE /\ values' = [values EXCEPT ![<<f, i>>] = [row |-> n, value |-> r.value]]
           /\ AnswerWriting(q, 200, wr)
  <2>1. n \in Rows /\ r.value \in Offered
    BY <1>1 DEF RaceInv, CallsKnown, CallTyped
  <2>2. PICK new \in ValueRow : new = [row |-> n, value |-> r.value]
    BY <2>1 DEF ValueRow
  <2>3. values' = [values EXCEPT ![<<f, i>>] = new]
    BY <1>3, <2>2
  <2>4. values' \in [Fields \X Issues -> ValueRow \cup {None}]
    BY <2>3 DEF RaceInv, TablesTyped
  <2>5. \A x \in Fields, j \in Issues :
          values'[<<x, j>>] = IF x = f /\ j = i THEN new ELSE values[<<x, j>>]
    BY <2>3 DEF RaceInv, TablesTyped
  <2>6. TablesTyped'
    BY <1>1, <2>4 DEF RaceInv, TablesTyped
  <2>7. \A x \in Fields : x # f => ValuesOf(x)' = ValuesOf(x)
    BY <2>5 DEF ValuesOf
  <2>8. \A x \in Fields, j \in Issues :
          values'[<<x, j>>] \in {values[<<x, j>>], None} \/ <<"value", x, j>> \in wr
    BY <2>5
  <2>9. Covered(wr)
    BY <1>1, <2>7, <2>8 DEF Covered, HasEmail, WithKey, Live, Exists
  <2> QED
    BY <1>3, <2>6, <2>9, AnswerRaces DEF AnswerWriting, Statuses
<1> QED
  BY <1>1, <1>2, <1>3

LEMMA ClearValueRaces ==
  ASSUME LogInv, RoleInv, RaceInv, NEW q \in Calls, ClearValue(q)
  PROVE  RaceInv' /\ ErrorsExcused
<1> PICK k : k = <<call[q].request.field, call[q].request.issue>>
  OBVIOUS
<1>1. /\ UNCHANGED <<users, tokens, revoked, loggedOut, projects, members, fields>>
      /\ \/ Answer(q, 404) /\ UNCHANGED values
         \/ Answer(q, 204) /\ values' = [values EXCEPT ![k] = None]
  BY DEF ClearValue, Others, projectVars
<1>2. CASE Answer(q, 404) /\ UNCHANGED values
  BY <1>1, <1>2, RefusalRaces DEF Statuses, tables
<1>3. CASE Answer(q, 204) /\ values' = [values EXCEPT ![k] = None]
  <2>1. values' \in [Fields \X Issues -> ValueRow \cup {None}]
    BY <1>3 DEF RaceInv, TablesTyped
  <2>2. \A x \in Fields, j \in Issues : values'[<<x, j>>] \in {values[<<x, j>>], None}
    BY <1>3 DEF RaceInv, TablesTyped
  <2>3. TablesTyped'
    BY <1>1, <2>1 DEF RaceInv, TablesTyped
  <2>4. \A x \in Fields : ValuesOf(x) = {} => ValuesOf(x)' = {}
    BY <2>2 DEF ValuesOf
  <2>5. Covered({})
    BY <1>1, <2>2, <2>4 DEF Covered, HasEmail, WithKey, Live, Exists
  <2> QED
    BY <1>3, <2>3, <2>5, AnswerRaces DEF Answer, Statuses
<1> QED
  BY <1>1, <1>2, <1>3

-----------------------------------------------------------------------------
LEMMA InitRaces == Init => RaceInv
<1> SUFFICES ASSUME Init PROVE RaceInv
  OBVIOUS
<1>1. \A q \in Calls : call[q] = Idle /\ reads[q] = {}
  BY DEF Init
<1>2. 0 \in Times
  BY LimiterAssumption DEF Times
<1>3. ASSUME NEW q \in Calls
      PROVE  CallTyped(call[q]) /\ HasRead(call[q], reads[q]) /\ Found(call[q])
  <2>1. PICK c : /\ c = call[q] /\ c.step = "answered" /\ c.now = 0 /\ c.user = None
                 /\ c.late = FALSE /\ c.status = 0 /\ c.fault = FALSE
    BY <1>1 DEF Idle
  <2>2. CallTyped(c)
    BY <1>2, <2>1 DEF CallTyped, Is, Steps, Statuses
  <2>3. HasRead(c, reads[q]) /\ Found(c)
    BY <2>1 DEF HasRead, Found, Is
  <2> QED
    BY <2>1, <2>2, <2>3
<1>4. CallsKnown
  BY <1>3 DEF Init, CallsKnown
<1>5. TablesTyped
  BY AccessAssumption DEF Init, TablesTyped
<1> QED
  BY <1>4, <1>5 DEF RaceInv

(* What Redis executes, and what expires, are no rows. *)
LEMMA NoCallRaces ==
  ASSUME RaceInv, UNCHANGED <<call, reads, disturbed>>, UNCHANGED tables
  PROVE  RaceInv' /\ ErrorsExcused
<1>1. \A q \in Calls : Found(call[q])' <=> Found(call[q])
  BY DEF Found, HasEmail, WithKey, Live, ValuesOf, Exists, NoRow, tables
<1>2. CallsKnown'
  BY <1>1 DEF RaceInv, CallsKnown
<1>3. TablesTyped'
  BY TablesStay
<1>4. ErrorsExcused
  BY DEF ErrorsExcused
<1> QED
  BY <1>2, <1>3, <1>4 DEF RaceInv

LEMMA ProjectRaces ==
  ASSUME LogInv, RoleInv, RaceInv, NEW q \in Calls, Project(q), UNCHANGED fieldVars
  PROVE  RaceInv' /\ ErrorsExcused
<1>1. UNCHANGED accountVars
  BY DEF Project, CachedRole, ReadRole, FindKey, SaveProject, SaveAdmin, FindProject,
     FindMembership, CachedList, QueryList, ListMembers, UpdateProject, DeleteProject,
     FindMember, SaveMember, RemoveMember, Settled, Same, accountVars
<1>2. CASE \/ CachedRole(q) \/ ReadRole(q) \/ FindKey(q) \/ FindProject(q) \/ FindMembership(q)
           \/ CachedList(q) \/ QueryList(q) \/ ListMembers(q) \/ FindMember(q) \/ Settled(q)
  <2>1. UNCHANGED <<projects, members>>
    BY <1>2 DEF CachedRole, ReadRole, FindKey, FindProject, FindMembership, CachedList, QueryList,
       ListMembers, FindMember, Settled
  <2>2. UNCHANGED tables
    BY <1>1, <2>1 DEF tables, accountVars, fieldVars
  <2> QED
    BY <1>2, <2>2, RoleRaces, ReaderRaces, FindKeyRaces, FindMemberRaces
<1>3. CASE \/ SaveProject(q) \/ SaveAdmin(q) \/ UpdateProject(q) \/ DeleteProject(q)
           \/ SaveMember(q) \/ RemoveMember(q)
  BY <1>1, <1>3, SaveProjectRaces, SaveAdminRaces, RewriteRaces, SaveMemberRaces, RemoveMemberRaces
<1> QED
  BY <1>2, <1>3 DEF Project

LEMMA AccountRaces ==
  ASSUME LogInv, RoleInv, RaceInv, NEW q \in Calls, Account(q), UNCHANGED <<projectVars, fieldVars>>
  PROVE  RaceInv' /\ ErrorsExcused
<1>1. CASE Verify(q) \/ CheckRevoked(q) \/ FindEmail(q) \/ CheckPassword(q)
  <2>1. UNCHANGED tables
    BY <1>1 DEF Verify, CheckRevoked, FindEmail, CheckPassword, tables, accountVars, projectVars,
       fieldVars
  <2> QED
    BY <1>1, <2>1, VerifyRaces, CheckRevokedRaces, FindEmailRaces, CheckPasswordRaces
<1>2. CASE SaveUser(q) \/ SignToken(q) \/ Logout(q)
  BY <1>2, SaveUserRaces, SignTokenRaces, LogoutRaces
<1> QED
  BY <1>1, <1>2 DEF Account

LEMMA FieldRaces ==
  ASSUME LogInv, RoleInv, RaceInv, NEW q \in Calls, Field(q)
  PROVE  RaceInv' /\ ErrorsExcused
<1>1. CASE FieldReads(q)
  <2>1. UNCHANGED tables
    BY <1>1 DEF FieldReads, ListDefinitions, ListValues, FindDefinition, Others, tables, projectVars,
       fieldVars
  <2> QED
    BY <1>1, <2>1, FieldReadsRaces
<1>2. CASE CreateDefinition(q) \/ UpdateDefinition(q) \/ DeleteValues(q) \/ DeleteDefinition(q)
  BY <1>2, CreateDefinitionRaces, UpdateDefinitionRaces, DeleteValuesRaces, DeleteDefinitionRaces
<1>3. CASE CheckValue(q) \/ FindValue(q) \/ SaveValue(q) \/ ClearValue(q)
  BY <1>3, CheckValueRaces, FindValueRaces, SaveValueRaces, ClearValueRaces
<1> QED
  BY <1>1, <1>2, <1>3 DEF Field, FieldReads

LEMMA NextRaces ==
  ASSUME LogInv, RoleInv, RaceInv, clock \in Times, [Next]_vars
  PROVE  RaceInv' /\ ErrorsExcused
<1>1. CASE UNCHANGED <<call, reads, disturbed, tables>>
  BY <1>1, NoCallRaces
<1>2. CASE \E q \in workload.calls : Begin(q) \/ Handle(q)
  <2>1. PICK q \in Calls : Begin(q) \/ Handle(q)
    BY <1>2 DEF LogInv, Workload
  <2>2. CASE Begin(q)
    BY <2>2, BeginRaces
  <2>3. CASE Limit(q) /\ UNCHANGED <<accountVars, projectVars, fieldVars>>
    BY <2>3, LimitRaces DEF tables, accountVars, projectVars, fieldVars
  <2>4. CASE Account(q) /\ UNCHANGED <<projectVars, fieldVars>>
    BY <2>4, AccountRaces
  <2>5. CASE Project(q) /\ UNCHANGED fieldVars
    BY <2>5, ProjectRaces
  <2>6. CASE Field(q)
    BY <2>6, FieldRaces
  <2>7. CASE Redis(q) /\ UNCHANGED fieldVars
    BY <2>7, NoCallRaces DEF Redis, limiterVars, accountVars, fieldVars, tables
  <2>8. CASE Fails(q)
    BY <2>8, FailsRaces
  <2> QED
    BY <2>1, <2>2, <2>3, <2>4, <2>5, <2>6, <2>7, <2>8 DEF Handle
<1>3. CASE \/ Tick /\ UNCHANGED <<accountVars, projectVars, fieldVars>>
           \/ \E p \in ProjectIds, u \in Users : RoleExpires(p, u) /\ UNCHANGED fieldVars
           \/ \E u \in Users : ListExpires(u) /\ UNCHANGED fieldVars
           \/ UNCHANGED vars
  <2>1. UNCHANGED <<call, reads, disturbed, tables>>
    BY <1>3 DEF Tick, RoleExpires, ListExpires, limiterVars, accountVars, projectVars, fieldVars,
       tables, vars
  <2> QED
    BY <1>1, <2>1
<1> QED
  BY <1>2, <1>3 DEF Next

-----------------------------------------------------------------------------
(* The types: what the caches hold is what the commands that wait may write. *)
LEMMA RedisTyped ==
  ASSUME RoleInv, CachesTyped, NEW q \in Calls, Redis(q)
  PROVE  CachesTyped'
<1>1. PICK c : c = Head(sent[q])
  OBVIOUS
<1>2. UNCHANGED <<clock, recorded>> /\ (SetRole(c) \/ DelRole(c) \/ WriteList(c) \/ CommandFails(c))
  BY <1>1 DEF Redis, limiterVars
<1>3. c \in Command
  BY <1>1, ExecutedWaits DEF Redis, RoleInv, Waiting
<1>4. c.cmd \in {"setRole", "delRole"} => <<c.project, c.user>> \in Pairs
  BY <1>3 DEF Command, Pairs
<1>5. c.cmd \in {"setList", "delList"} => c.value \in (SUBSET ProjectIds) \cup {None}
  BY <1>3 DEF Command
<1>6. misfilled' \subseteq Pairs
  BY <1>2, <1>4 DEF SetRole, DelRole, WriteList, CommandFails, CachesTyped
<1>7. listCache' \in [Users -> (SUBSET ProjectIds) \cup {None}]
  <2>1. UNCHANGED listCache \/ (WriteList(c) /\ c.cmd \in {"setList", "delList"})
    BY <1>2 DEF SetRole, DelRole, WriteList, CommandFails
  <2>2. PICK u, list : u = c.user /\ list = c.value
    OBVIOUS
  <2>3. UNCHANGED listCache \/ (/\ list \in (SUBSET ProjectIds) \cup {None}
                                /\ listCache' = [listCache EXCEPT ![u] = list])
    BY <1>5, <2>1, <2>2 DEF WriteList
  <2> QED
    BY <2>3 DEF CachesTyped
<1> QED
  BY <1>2, <1>6, <1>7 DEF CachesTyped

LEMMA LimitTyped ==
  ASSUME RateInv, RaceInv, CachesTyped, NEW q \in Calls, Limit(q), UNCHANGED projectVars
  PROVE  CachesTyped'
<1>1. UNCHANGED <<clock, listCache, misfilled>>
  BY DEF Limit, Prune, Count, Record, Expire, projectVars
<1>2. CASE Record(q)
  <2>1. PICK now, n : /\ now = call[q].now /\ n = Cardinality({m \in recorded : m[1] = now})
    OBVIOUS
  <2>2. recorded' = recorded \cup {<<now, n>>}
    BY <1>2, <2>1 DEF Record
  <2>3. now \in Times
    BY <2>1 DEF RaceInv, CallsKnown, CallTyped
  <2>4. n \in Nat
    <3>1. IsFiniteSet(recorded) /\ {m \in recorded : m[1] = now} \subseteq recorded
      BY DEF RateInv, RateTypes
    <3>2. IsFiniteSet({m \in recorded : m[1] = now})
      BY <3>1, FS_Subset
    <3> QED
      BY <2>1, <3>2, FS_CardinalityType
  <2>5. <<now, n>> \in Times \X Nat
    BY <2>3, <2>4
  <2> QED
    BY <1>1, <2>2, <2>5 DEF CachesTyped
<1>3. CASE UNCHANGED recorded
  BY <1>1, <1>3 DEF CachesTyped
<1> QED
  BY <1>2, <1>3 DEF Limit, Prune, Count, Expire

LEMMA NextTyped ==
  ASSUME LogInv, RateInv, RoleInv, RaceInv, CachesTyped, [Next]_vars
  PROVE  CachesTyped'
<1>1. CASE UNCHANGED <<clock, recorded, listCache, misfilled>>
  BY <1>1 DEF CachesTyped
<1>2. CASE \E q \in workload.calls : Begin(q) \/ Handle(q)
  <2>1. PICK q \in Calls : Begin(q) \/ Handle(q)
    BY <1>2 DEF LogInv, Workload
  <2>2. CASE Limit(q) /\ UNCHANGED projectVars
    BY <2>2, LimitTyped
  <2>3. CASE Redis(q)
    BY <2>3, RedisTyped
  <2>4. CASE Begin(q)
    BY <1>1, <2>4 DEF Begin, Arrive, projectVars
  <2>5. CASE Account(q) /\ UNCHANGED projectVars
    BY <1>1, <2>5 DEF Account, Verify, CheckRevoked, FindEmail, SaveUser, CheckPassword, SignToken,
       Logout, projectVars
  <2>6. CASE Project(q)
    BY <1>1, <2>6 DEF Project, CachedRole, ReadRole, FindKey, SaveProject, SaveAdmin, FindProject,
       FindMembership, CachedList, QueryList, ListMembers, UpdateProject, DeleteProject,
       FindMember, SaveMember, RemoveMember, Settled, Same
  <2>7. CASE Field(q)
    BY <1>1, <2>7 DEF Field, ListDefinitions, CreateDefinition, FindDefinition, UpdateDefinition,
       DeleteValues, DeleteDefinition, ListValues, CheckValue, FindValue, SaveValue, ClearValue,
       Others, projectVars
  <2>8. CASE Fails(q)
    BY <1>1, <2>8 DEF Fails, projectVars
  <2> QED
    BY <2>1, <2>2, <2>3, <2>4, <2>5, <2>6, <2>7, <2>8 DEF Handle
<1>3. CASE Tick /\ UNCHANGED projectVars
  <2>1. clock' \in Times
    BY <1>3, LimiterAssumption DEF Tick, CachesTyped, Times
  <2> QED
    BY <1>3, <2>1 DEF Tick, CachesTyped, projectVars
<1>4. CASE \E p \in ProjectIds, u \in Users : RoleExpires(p, u)
  BY <1>4 DEF RoleExpires, CachesTyped, limiterVars
<1>5. CASE \E u \in Users : ListExpires(u)
  BY <1>5 DEF ListExpires, CachesTyped, limiterVars
<1>6. CASE UNCHANGED vars
  BY <1>1, <1>6 DEF vars, limiterVars, projectVars
<1> QED
  BY <1>2, <1>3, <1>4, <1>5, <1>6 DEF Next

-----------------------------------------------------------------------------
(***************************************************************************)
(* A call that has written rows and goes on is at one of three steps, and  *)
(* at one of these, settled, it cannot be answered an error.               *)
(***************************************************************************)
rows == <<users, projects, members, fields, values>>

MidWrite(c) ==
  Is(c, "createProject", "admin") \/ Is(c, "removeMember", "settled") \/ Is(c, "deleteDefinition", "emptied")

WroteInv == wrote \subseteq Calls /\ \A q \in wrote : MidWrite(call[q])

(* What AllOrNothing says of a step. *)
Whole ==
  \A q \in Calls : call'[q] # call[q] /\ call'[q].status >= 400 =>
    \/ q \notin wrote /\ UNCHANGED rows
    \/ At(q, "createProject", "admin")
    \/ At(q, "deleteDefinition", "emptied")

LEMMA BecomeWhole ==
  ASSUME CallsOK, WroteInv, NEW q \in Calls, NEW c, NEW rd, NEW wr, Become(q, c, rd, wr),
         \/ /\ c.step = "answered"
            /\ c.status \in {200, 201, 204} \/ (UNCHANGED rows /\ call[q].step # "settled")
         \/ c.status = 0 /\ wr = {} /\ ~MidWrite(call[q])
         \/ c.status = 0 /\ MidWrite(c)
  PROVE  WroteInv' /\ Whole
<1>1. /\ call'[q] = c /\ \A o \in Calls \ {q} : call'[o] = call[o]
      /\ wrote' = IF c.step = "answered" THEN wrote \ {q}
                  ELSE IF wr # {} THEN wrote \cup {q} ELSE wrote
  BY DEF Become, CallsOK
<1>2. WroteInv'
  <2>1. c.step = "answered" => q \notin wrote'
    BY <1>1
  <2>2. q \in wrote' => MidWrite(c)
    BY <1>1, <2>1 DEF WroteInv
  <2> QED
    BY <1>1, <2>2 DEF WroteInv, MidWrite, Is
<1>3. Whole
  <2>1. q \in wrote => MidWrite(call[q])
    BY DEF WroteInv
  <2> QED
    BY <1>1, <2>1 DEF Whole, MidWrite, Is, At
<1> QED
  BY <1>2, <1>3

LEMMA AnswerWhole ==
  ASSUME CallsOK, WroteInv, NEW q \in Calls, NEW st, NEW wr, Become(q, Answered(q, st), {}, wr),
         st \in {200, 201, 204} \/ (UNCHANGED rows /\ call[q].step # "settled")
  PROVE  WroteInv' /\ Whole
<1>1. PICK c : c = Answered(q, st)
  OBVIOUS
<1>2. c.step = "answered" /\ c.status = st
  BY <1>1 DEF Answered, Idle
<1> QED
  BY <1>1, <1>2, BecomeWhole

(* A call goes on, having written nothing. *)
LEMMA StepWhole ==
  ASSUME CallsOK, WroteInv, NEW q \in Calls, NEW step, NEW rd,
         Become(q, [call[q] EXCEPT !.step = step], rd, {}),
         call[q].status = 0, call[q].step \notin {"admin", "settled", "emptied"}
  PROVE  WroteInv' /\ Whole
<1>1. PICK c : c = [call[q] EXCEPT !.step = step]
  OBVIOUS
<1>2. c.status = 0 /\ ~MidWrite(call[q])
  BY <1>1 DEF CallsOK, IsCall, MidWrite, Is
<1> QED
  BY <1>1, <1>2, BecomeWhole

LEMMA FoundWhole ==
  ASSUME CallsOK, WroteInv, NEW q \in Calls, NEW step, NEW row, NEW rd,
         Become(q, [call[q] EXCEPT !.step = step, !.found = row], rd, {}),
         call[q].status = 0, call[q].step \notin {"admin", "settled", "emptied"}
  PROVE  WroteInv' /\ Whole
<1>1. PICK c : c = [call[q] EXCEPT !.step = step, !.found = row]
  OBVIOUS
<1>2. c.status = 0 /\ ~MidWrite(call[q])
  BY <1>1 DEF CallsOK, IsCall, MidWrite, Is
<1>3. Become(q, c, rd, {})
  BY <1>1
<1> QED
  BY <1>2, <1>3, BecomeWhole

(* A call goes on to one of the three steps. *)
LEMMA MidWhole ==
  ASSUME CallsOK, WroteInv, NEW q \in Calls, NEW step, NEW row, NEW rd, NEW wr,
         \/ Become(q, [call[q] EXCEPT !.step = step], rd, wr)
         \/ Become(q, [call[q] EXCEPT !.step = step, !.found = row], rd, wr),
         call[q].status = 0,
         <<call[q].request.op, step>> \in
           {<<"createProject", "admin">>, <<"removeMember", "settled">>, <<"deleteDefinition", "emptied">>}
  PROVE  WroteInv' /\ Whole
<1>1. PICK c : /\ c \in {[call[q] EXCEPT !.step = step],
                          [call[q] EXCEPT !.step = step, !.found = row]}
               /\ Become(q, c, rd, wr)
  OBVIOUS
<1>2. c.status = 0 /\ c.step = step /\ c.request = call[q].request
  BY <1>1 DEF CallsOK, IsCall
<1>3. MidWrite(c)
  BY <1>2 DEF MidWrite, Is
<1> QED
  BY <1>1, <1>2, <1>3, BecomeWhole

(* The same of the ways a handler goes on. *)
LEMMA RefusingWhole ==
  ASSUME CallsOK, WroteInv, NEW q \in Calls, NEW st, Answer(q, st), UNCHANGED rows,
         call[q].step # "settled"
  PROVE  WroteInv' /\ Whole
BY AnswerWhole DEF Answer

LEMMA DoneWhole ==
  ASSUME CallsOK, WroteInv, NEW q \in Calls, NEW st \in {200, 201, 204}, NEW wr,
         Answer(q, st) \/ AnswerWriting(q, st, wr)
  PROVE  WroteInv' /\ Whole
BY AnswerWhole DEF Answer, AnswerWriting

LEMMA GoingWhole ==
  ASSUME CallsOK, WroteInv, NEW q \in Calls, NEW step, NEW rd,
         Goto(q, step) \/ GotoReading(q, step, rd),
         call[q].status = 0, call[q].step \notin {"admin", "settled", "emptied"}
  PROVE  WroteInv' /\ Whole
BY StepWhole DEF Goto, GotoReading

LEMMA KeepingWhole ==
  ASSUME CallsOK, WroteInv, NEW q \in Calls, NEW step, NEW row, Keep(q, step, row),
         call[q].status = 0, call[q].step \notin {"admin", "settled", "emptied"}
  PROVE  WroteInv' /\ Whole
BY FoundWhole DEF Keep

LEMMA AccountWhole ==
  ASSUME LogInv, WroteInv, NEW q \in Calls, Limit(q) \/ Account(q), call[q].status = 0,
         UNCHANGED <<projectVars, fieldVars>>, Limit(q) => UNCHANGED accountVars
  PROVE  WroteInv' /\ Whole
<1> USE DEF At
<1>0. /\ CallsOK
      /\ UNCHANGED <<projects, members, fields, values>>
      /\ UNCHANGED users => UNCHANGED rows
  BY DEF LogInv, projectVars, fieldVars, rows
<1>1. CASE Limit(q)
  <2>1. /\ call[q].step \in {"prune", "count", "record", "expire"}
        /\ \/ Answer(q, 429)
           \/ \E step : Goto(q, step)
           \/ \E step, row : Keep(q, step, row)
    BY <1>1 DEF Limit, Prune, Count, Record, Expire
  <2>2. UNCHANGED users
    BY <1>1 DEF accountVars
  <2> QED
    BY <1>0, <2>1, <2>2, RefusingWhole, GoingWhole, KeepingWhole
<1>2. CASE Verify(q)
  <2>1. PICK t : t = call[q].request.token
    OBVIOUS
  <2>2. CASE Become(q, [call[q] EXCEPT !.step = "revoked", !.user = tokens[t].user], {}, {})
    <3>1. PICK c : c = [call[q] EXCEPT !.step = "revoked", !.user = tokens[t].user]
      OBVIOUS
    <3>2. c.status = 0 /\ ~MidWrite(call[q])
      BY <1>0, <1>2, <3>1 DEF Verify, CallsOK, IsCall, MidWrite, Is
    <3> QED
      BY <1>0, <2>2, <3>1, <3>2, BecomeWhole
  <2>3. call[q].step = "verify" /\ UNCHANGED users
    BY <1>2 DEF Verify, accountVars
  <2>4. CASE Goto(q, "handler") \/ Answer(q, 401)
    BY <1>0, <2>3, <2>4, RefusingWhole, GoingWhole
  <2> QED
    BY <1>2, <2>1, <2>2, <2>4 DEF Verify
<1>3. CASE CheckRevoked(q)
  <2>1. /\ call[q].step = "revoked" /\ UNCHANGED users
        /\ Answer(q, 401) \/ \E step : Goto(q, step)
    BY <1>3 DEF CheckRevoked, accountVars
  <2> QED
    BY <1>0, <2>1, RefusingWhole, GoingWhole
<1>4. CASE FindEmail(q)
  <2>1. /\ call[q].step = "handler" /\ UNCHANGED users
        /\ Answer(q, 409) \/ \E step, rd : GotoReading(q, step, rd)
    BY <1>4 DEF FindEmail, accountVars
  <2> QED
    BY <1>0, <2>1, RefusingWhole, GoingWhole
<1>5. CASE SaveUser(q)
  <2>1. /\ call[q].step = "save"
        /\ \/ Answer(q, 500) /\ UNCHANGED users
           \/ \E wr : AnswerWriting(q, 201, wr)
    BY <1>5 DEF SaveUser
  <2> QED
    BY <1>0, <2>1, RefusingWhole, DoneWhole
<1>6. CASE CheckPassword(q)
  <2>1. /\ call[q].step = "handler" /\ UNCHANGED users
        /\ Answer(q, 401) \/ \E step, row : Keep(q, step, row)
    BY <1>6 DEF CheckPassword, accountVars
  <2> QED
    BY <1>0, <2>1, RefusingWhole, KeepingWhole
<1>7. CASE SignToken(q) \/ Logout(q)
  <2>1. Answer(q, 200) \/ Answer(q, 204)
    BY <1>7 DEF SignToken, Logout
  <2> QED
    BY <1>0, <2>1, DoneWhole
<1> QED
  BY <1>1, <1>2, <1>3, <1>4, <1>5, <1>6, <1>7 DEF Account

LEMMA ProjectWhole ==
  ASSUME LogInv, WroteInv, NEW q \in Calls, Project(q), call[q].status = 0, UNCHANGED fieldVars
  PROVE  WroteInv' /\ Whole
<1> USE DEF At, Same
<1>0. /\ CallsOK
      /\ UNCHANGED <<users, projects, members>> => UNCHANGED rows
  BY DEF LogInv, fieldVars, rows
<1>1. CASE CachedRole(q) \/ ReadRole(q)
  <2>1. /\ call[q].step \in {"cached", "member"} /\ UNCHANGED <<users, projects, members>>
        /\ Answer(q, 403) \/ \E step : Goto(q, step)
    BY <1>1 DEF CachedRole, ReadRole, Admit
  <2> QED
    BY <1>0, <2>1, RefusingWhole, GoingWhole
<1>2. CASE FindKey(q) \/ FindProject(q) \/ FindMembership(q) \/ CachedList(q) \/ QueryList(q)
  <2>1. /\ call[q].step \in {"handler", "found", "query"} /\ UNCHANGED <<users, projects, members>>
        /\ \/ \E st : Answer(q, st)
           \/ \E step, rd : Goto(q, step) \/ GotoReading(q, step, rd)
    BY <1>2 DEF FindKey, FindProject, FindMembership, CachedList, QueryList
  <2> QED
    BY <1>0, <2>1, RefusingWhole, GoingWhole
<1>3. CASE SaveProject(q)
  <2>1. CASE Answer(q, 500) /\ UNCHANGED projects
    BY <1>0, <1>3, <2>1, RefusingWhole DEF SaveProject
  <2>2. CASE \E p, wr : Become(q, [call[q] EXCEPT !.step = "admin", !.found = p], {}, wr)
    BY <1>0, <1>3, <2>2, MidWhole DEF SaveProject
  <2> QED
    BY <1>3, <2>1, <2>2 DEF SaveProject
<1>4. CASE \/ SaveAdmin(q) \/ ListMembers(q) \/ UpdateProject(q) \/ DeleteProject(q) \/ Settled(q)
  <2>1. \E st \in {200, 201, 204} : Answer(q, st) \/ \E wr : AnswerWriting(q, st, wr)
    BY <1>4 DEF SaveAdmin, ListMembers, UpdateProject, DeleteProject, Settled
  <2> QED
    BY <1>0, <2>1, DoneWhole
<1>5. CASE FindMember(q)
  <2>1. /\ call[q].step = "handler" /\ UNCHANGED <<users, projects, members>>
        /\ Answer(q, 409) \/ \E step, rd : GotoReading(q, step, rd)
    BY <1>5 DEF FindMember
  <2> QED
    BY <1>0, <2>1, RefusingWhole, GoingWhole
<1>6. CASE SaveMember(q)
  <2>1. /\ call[q].step = "save"
        /\ \/ Answer(q, 500) /\ UNCHANGED <<users, projects, members>>
           \/ \E wr : AnswerWriting(q, 201, wr)
    BY <1>6 DEF SaveMember
  <2> QED
    BY <1>0, <2>1, RefusingWhole, DoneWhole
<1>7. CASE RemoveMember(q)
  <2>1. /\ call[q].request.op = "removeMember"
        /\ \E wr : Become(q, [call[q] EXCEPT !.step = "settled"], {}, wr)
    BY <1>7 DEF RemoveMember
  <2> QED
    BY <1>0, <2>1, MidWhole
<1> QED
  BY <1>1, <1>2, <1>3, <1>4, <1>5, <1>6, <1>7 DEF Project

LEMMA FieldWhole ==
  ASSUME LogInv, WroteInv, NEW q \in Calls, Field(q), call[q].status = 0
  PROVE  WroteInv' /\ Whole
<1> USE DEF At
<1>0. /\ CallsOK
      /\ UNCHANGED <<fields, values>> /\ Others => UNCHANGED rows
  BY DEF LogInv, projectVars, rows, Others
<1>1. CASE CreateDefinition(q)
  <2>1. /\ call[q].step = "handler"
        /\ \/ Answer(q, 400) /\ UNCHANGED <<fields, values>> /\ Others
           \/ Answer(q, 201)
    BY <1>1 DEF CreateDefinition
  <2> QED
    BY <1>0, <2>1, RefusingWhole, DoneWhole
<1>2. CASE ListDefinitions(q) \/ FindDefinition(q) \/ ListValues(q) \/ CheckValue(q)
  <2>1. /\ call[q].step = "handler" /\ UNCHANGED <<fields, values>> /\ Others
        /\ \/ \E st : Answer(q, st)
           \/ \E step, rd : GotoReading(q, step, rd)
           \/ \E step, row : Keep(q, step, row)
    BY <1>2 DEF ListDefinitions, FindDefinition, ListValues, CheckValue, fieldVars
  <2> QED
    BY <1>0, <2>1, RefusingWhole, GoingWhole, KeepingWhole
<1>3. CASE UpdateDefinition(q)
  BY <1>0, <1>3, DoneWhole DEF UpdateDefinition
<1>4. CASE DeleteValues(q)
  <2>1. /\ call[q].request.op = "deleteDefinition"
        /\ \E rd, wr : Become(q, [call[q] EXCEPT !.step = "emptied"], rd, wr)
    BY <1>4 DEF DeleteValues
  <2> QED
    BY <1>0, <2>1, MidWhole
<1>5. CASE DeleteDefinition(q)
  <2>1. /\ call[q].step = "emptied" /\ UNCHANGED values /\ Others
        /\ \/ Answer(q, 500) /\ UNCHANGED fields
           \/ \E wr : AnswerWriting(q, 204, wr)
    BY <1>5 DEF DeleteDefinition
  <2> QED
    BY <1>0, <2>1, RefusingWhole, DoneWhole
<1>6. CASE FindValue(q)
  <2>1. /\ call[q].step = "value"
        /\ \E n, rd : Become(q, [call[q] EXCEPT !.step = "save", !.found = n], rd, {})
    BY <1>6 DEF FindValue
  <2> QED
    BY <1>0, <2>1, FoundWhole
<1>7. CASE SaveValue(q)
  <2>1. /\ call[q].step = "save" /\ UNCHANGED fields /\ Others
        /\ \/ Answer(q, 500) /\ UNCHANGED values
           \/ \E wr : AnswerWriting(q, 200, wr)
    BY <1>7 DEF SaveValue
  <2> QED
    BY <1>0, <2>1, RefusingWhole, DoneWhole
<1>8. CASE ClearValue(q)
  <2>1. /\ call[q].step = "handler" /\ UNCHANGED fields /\ Others
        /\ \/ Answer(q, 404) /\ UNCHANGED values
           \/ Answer(q, 204)
    BY <1>8 DEF ClearValue
  <2> QED
    BY <1>0, <2>1, RefusingWhole, DoneWhole
<1> QED
  BY <1>1, <1>2, <1>3, <1>4, <1>5, <1>6, <1>7, <1>8 DEF Field

LEMMA NextWhole ==
  ASSUME LogInv, RaceInv, WroteInv, [Next]_vars
  PROVE  WroteInv' /\ Whole
<1>1. CASE UNCHANGED <<call, wrote>>
  BY <1>1 DEF WroteInv, MidWrite, Is, Whole
<1>2. CASE \E q \in workload.calls : Begin(q) \/ Handle(q)
  <2>1. PICK q \in Calls : Begin(q) \/ Handle(q)
    BY <1>2 DEF LogInv, Workload
  <2>2. call[q].step # "answered" => call[q].status = 0
    BY DEF RaceInv, CallsKnown, CallTyped
  <2>3. CASE Begin(q)
    <3>1. PICK r, step, late : Arrive(q, r, step, late)
      BY <2>3 DEF Begin
    <3>2. PICK c : c = [Idle EXCEPT !.step = step, !.request = r, !.now = clock, !.late = late]
      OBVIOUS
    <3>3. c.status = 0 /\ Become(q, c, {}, {}) /\ ~MidWrite(call[q])
      BY <3>1, <3>2 DEF Arrive, Idle, MidWrite, Is
    <3> QED
      BY <3>3, BecomeWhole DEF LogInv
  <2>4. CASE ((Limit(q) /\ UNCHANGED accountVars) \/ Account(q)) /\ UNCHANGED <<projectVars, fieldVars>>
    <3>1. call[q].step # "answered"
      BY <2>4 DEF Limit, Prune, Count, Record, Expire, Account, Verify, CheckRevoked, FindEmail, SaveUser,
         CheckPassword, SignToken, Logout, At
    <3>2. Limit(q) => UNCHANGED accountVars
      BY <2>4 DEF Limit, Prune, Count, Record, Expire, Account, Verify, CheckRevoked, FindEmail, SaveUser,
         CheckPassword, SignToken, Logout, At
    <3> QED
      BY <2>2, <2>4, <3>1, <3>2, AccountWhole
  <2>5. CASE Project(q) /\ UNCHANGED fieldVars
    BY <2>2, <2>5, ProjectProceeds, ProjectWhole DEF Early
  <2>6. CASE Field(q)
    BY <2>2, <2>6, FieldProceeds, FieldWhole DEF Early
  <2>7. CASE Redis(q)
    BY <1>1, <2>7 DEF Redis, limiterVars
  <2>8. CASE Fails(q)
    <3>1. PICK c : Become(q, c, {}, {}) /\ c.step = "answered"
      BY <2>8, FailsAnswers
    <3>2. UNCHANGED rows /\ call[q].step # "settled"
      BY <2>8 DEF Fails, Unawaited, rows, accountVars, projectVars, fieldVars
    <3> QED
      BY <3>1, <3>2, BecomeWhole DEF LogInv
  <2> QED
    BY <2>1, <2>3, <2>4, <2>5, <2>6, <2>7, <2>8 DEF Handle
<1>3. CASE \/ Tick
           \/ \E p \in ProjectIds, u \in Users : RoleExpires(p, u)
           \/ \E u \in Users : ListExpires(u)
           \/ UNCHANGED vars
  BY <1>1, <1>3 DEF Tick, RoleExpires, ListExpires, limiterVars, vars
<1> QED
  BY <1>2, <1>3 DEF Next

-----------------------------------------------------------------------------
AccessInv == LogInv /\ RateInv /\ RoleInv /\ RaceInv /\ CachesTyped /\ WroteInv

LEMMA InitAccess == Init => AccessInv
<1> SUFFICES ASSUME Init PROVE AccessInv
  OBVIOUS
<1>1. CachesTyped
  BY LimiterAssumption DEF Init, CachesTyped, Times
<1>2. WroteInv
  BY DEF Init, WroteInv
<1> QED
  BY <1>1, <1>2, InitLogInv, InitRateInv, InitRoleInv, InitRaces DEF AccessInv

LEMMA NextAccess == AccessInv /\ [Next]_vars => AccessInv' /\ ErrorsExcused /\ Whole
<1> SUFFICES ASSUME AccessInv, [Next]_vars PROVE AccessInv' /\ ErrorsExcused /\ Whole
  OBVIOUS
<1>1. LogInv /\ RateInv /\ RoleInv /\ RaceInv /\ CachesTyped /\ WroteInv /\ clock \in Times
  BY DEF AccessInv, CachesTyped
<1>2. /\ LogInv' /\ RateInv' /\ RoleInv' /\ RaceInv' /\ CachesTyped' /\ WroteInv'
      /\ ErrorsExcused /\ Whole
  BY <1>1, NextKeeps, NextBounded, NextRole, NextRaces, NextTyped, NextWhole
<1> QED
  BY <1>2 DEF AccessInv

LEMMA AccessTypes == AccessInv => TypeOK
<1> SUFFICES ASSUME AccessInv PROVE TypeOK
  OBVIOUS
<1>1. /\ clock \in Times /\ recorded \subseteq Times \X Nat /\ misfilled \subseteq Pairs
      /\ wrote \subseteq Calls
  BY DEF AccessInv, CachesTyped, WroteInv
<1>2. ASSUME NEW q \in Calls
      PROVE  /\ call[q].step \in Steps /\ call[q].now \in Times
             /\ call[q].user \in Users \cup {None} /\ call[q].late \in BOOLEAN
             /\ call[q].status \in {0, 200, 201, 204, 400, 401, 403, 404, 409, 429, 500}
             /\ call[q].fault \in BOOLEAN
  BY DEF AccessInv, RaceInv, CallsKnown, CallTyped, Statuses
<1>3. hits \subseteq recorded /\ admitted \subseteq recorded /\ expiry \in Nat \cup {None}
  BY DEF AccessInv, RateInv, RateTypes
<1>4. /\ users \in [Users -> Emails \cup {None}]
      /\ \A t \in Tokens : tokens[t] = None \/ tokens[t] \in Token
      /\ \A t \in Tokens : revoked[t] = None \/ revoked[t] \in Nat
      /\ disturbed \subseteq Calls /\ loggedOut \subseteq Tokens
  BY DEF AccessInv, RaceInv, CallsKnown, TablesTyped
<1>5. /\ projects \in [ProjectIds -> ProjectRow \cup {None}]
      /\ members \in [Pairs -> Roles \cup {None}] /\ roleCache \in [Pairs -> Roles \cup {None}]
      /\ listCache \in [Users -> (SUBSET ProjectIds) \cup {None}]
  BY DEF AccessInv, RoleInv, RoleTypes, CachesTyped
<1>6. /\ fields \in [Fields -> Definition \cup {None, Gone}]
      /\ values \in [Fields \X Issues -> ValueRow \cup {None}]
  BY DEF AccessInv, RaceInv, TablesTyped
<1> QED
  BY <1>1, <1>2, <1>3, <1>4, <1>5, <1>6 DEF TypeOK

(* Calls, rows and caches have their types, for any number of each (src/src/models,       *)
(* src/src/core/middleware).                                                            *)
THEOREM TypesKept == Spec => []TypeOK
<1>1. AccessInv /\ [Next]_vars => AccessInv'
  BY NextAccess
<1> QED
  BY <1>1, InitAccess, AccessTypes, PTL DEF Spec

(* For any number of calls, users, projects, fields and issues, and whatever of the others *)
(* fails: a call none of whose own commands and queries fails is answered 500 only when    *)
(* another has written, since it read them, the rows it rests on, when the key is that of  *)
(* a deleted project, or when the member is no user (src/src/modules/auth/AuthService.ts, ProjectService,                *)
(* CustomFieldService).                                                                  *)
THEOREM ServerErrorsExcused == Spec => RefusalsAreRaces
<1>1. AccessInv /\ [Next]_vars => AccessInv'
  BY NextAccess
<1>2. AccessInv /\ [Next]_vars =>
        [\A q \in Calls : call'[q] # call[q] /\ call'[q].status = 500 /\ ~call'[q].fault =>
           \/ q \in disturbed
           \/ /\ At(q, "createProject", "save")
              /\ \E p \in WithKey(call[q].request.key) : projects[p].deleted
           \/ At(q, "addMember", "save") /\ users[call[q].request.target] = None]_vars
  BY NextAccess DEF ErrorsExcused, Excused
<1> QED
  BY <1>1, <1>2, InitAccess, PTL DEF Spec, RefusalsAreRaces

(* For any number of calls, users, projects, fields and issues, and whatever fails: a call *)
(* that is answered an error has written no row, but for the project that create leaves    *)
(* without its administrator and the field whose values were deleted before it             *)
(* (src/src/modules/projects/ProjectService.ts, CustomFieldRepository.ts).                 *)
THEOREM ErrorsLeaveNothing == Spec => AllOrNothing
<1>1. AccessInv /\ [Next]_vars => AccessInv'
  BY NextAccess
<1>2. AccessInv /\ [Next]_vars =>
        [\A q \in Calls : call'[q] # call[q] /\ call'[q].status >= 400 =>
           \/ q \notin wrote /\ UNCHANGED <<users, projects, members, fields, values>>
           \/ At(q, "createProject", "admin")
           \/ At(q, "deleteDefinition", "emptied")]_vars
  BY NextAccess DEF Whole, rows
<1> QED
  BY <1>1, <1>2, InitAccess, PTL DEF Spec, AllOrNothing
=============================================================================
