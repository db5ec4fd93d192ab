------------------------------- MODULE Projects -------------------------------
(***************************************************************************)
(* Projects, their members and the caches of both                          *)
(* (src/src/modules/projects), and the middleware that asks for a role in  *)
(* the project (src/src/core/middleware/rbac.ts).                          *)
(*                                                                         *)
(* Every await is a step.  What a process sends to Redis is executed in    *)
(* the order it was sent; a command nobody awaits may be executed after    *)
(* the call is answered.                                                   *)
(***************************************************************************)
EXTENDS Accounts, Sequences

CONSTANT ProjectIds

VARIABLES
  projects,    \* the key of each row and whether it is deleted, or None
  members,     \* the role of each <<project, user>>, or None
  roleCache,   \* membership:{projectId}:{userId}: the role, or None
  listCache,   \* projects:user:{userId}: a list of projects, or None
  sent,        \* of each process: commands that Redis has not executed
  misfilled    \* history: entries of roleCache that a command wrote too late, or that one
               \* should have removed and did not

projectVars == <<projects, members, roleCache, listCache, sent, misfilled>>

Rank == [VIEWER |-> 1, MEMBER |-> 2, PROJECT_LEAD |-> 3, ADMIN |-> 4]

Roles == DOMAIN Rank

Pairs == ProjectIds \X Users

Live(p) == projects[p] # None /\ ~projects[p].deleted

(* A query by key: it does not see what is deleted; the unique index does. *)
WithKey(k) == {p \in ProjectIds : projects[p] # None /\ projects[p].key = k}

ProjectsOf(u) == {p \in ProjectIds : Live(p) /\ members[<<p, u>>] # None}

-----------------------------------------------------------------------------
Cmd(cmd, p, u, value) == [cmd |-> cmd, project |-> p, user |-> u, value |-> value]

Send(q, cmds) == sent' = [sent EXCEPT ![q] = @ \o cmds]

(* An answer from Redis comes after those to all that was sent before. *)
Awaits(q) == sent[q] = <<>>

(* What the action of a handler leaves alone, but for the call and what it sends. *)
Same ==
  UNCHANGED <<clock, hits, recorded, admitted, expiry, users, tokens, revoked, loggedOut,
              roleCache, listCache, misfilled>>

-----------------------------------------------------------------------------
(* requireProjectRole *)

Admit(q, role) ==
  IF Rank[role] < Rank[MinRole(call[q].request.op)] THEN Answer(q, 403)
  ELSE Goto(q, "handler")

CachedRole(q) ==
  LET r == roleCache[<<call[q].request.project, call[q].user>>] IN
    /\ call[q].step = "cached" /\ Awaits(q)
    /\ IF r = None THEN Goto(q, "member") ELSE Admit(q, r)
    /\ Same /\ UNCHANGED <<projects, members, sent>>

(* The role found is put in the cache, and nobody waits for that. *)
ReadRole(q) ==
  LET p == call[q].request.project
      r == members[<<p, call[q].user>>] IN
    /\ call[q].step = "member"
    /\ IF r = None THEN Answer(q, 403) /\ UNCHANGED sent
       ELSE Admit(q, r) /\ Send(q, <<Cmd("setRole", p, call[q].user, r)>>)
    /\ Same /\ UNCHANGED <<projects, members>>

-----------------------------------------------------------------------------
(* create *)

FindKey(q) ==
  LET k == call[q].request.key IN
    /\ At(q, "createProject", "handler")
    /\ IF \E p \in WithKey(k) : Live(p) THEN Answer(q, 409)
       ELSE GotoReading(q, "save", {<<"key", k>>})
    /\ Same /\ UNCHANGED <<projects, members, sent>>

SaveProject(q) ==
  LET k == call[q].request.key
      free == {p \in ProjectIds : projects[p] = None} IN
    /\ At(q, "createProject", "save")
    /\ \/ /\ WithKey(k) # {}
          /\ Answer(q, 500)
          /\ UNCHANGED projects
       \/ /\ WithKey(k) = {} /\ free # {}
          /\ LET p == CHOOSE x \in free : TRUE IN
               /\ projects' = [projects EXCEPT ![p] = [key |-> k, deleted |-> FALSE]]
               /\ Become(q, [call[q] EXCEPT !.step = "admin", !.found = p], {}, {<<"key", k>>})
    /\ Same /\ UNCHANGED <<members, sent>>

(* The second save has no transaction with the first. *)
SaveAdmin(q) ==
  LET p == call[q].found
      u == call[q].user IN
    /\ At(q, "createProject", "admin")
    /\ members' = [members EXCEPT ![<<p, u>>] = "ADMIN"]
    /\ Send(q, <<Cmd("delList", None, u, None)>>)
    /\ AnswerWriting(q, 201, {<<"member", p, u>>})
    /\ Same /\ UNCHANGED projects

-----------------------------------------------------------------------------
(* getById, listForUser, listMembers *)

FindProject(q) ==
  /\ \E op \in {"getProject", "updateProject", "deleteProject"} : At(q, op, "handler")
  /\ IF Live(call[q].request.project) THEN Goto(q, "found") ELSE Answer(q, 404)
  /\ Same /\ UNCHANGED <<projects, members, sent>>

FindMembership(q) ==
  /\ At(q, "getProject", "found")
  /\ Answer(q, IF members[<<call[q].request.project, call[q].user>>] = None THEN 403 ELSE 200)
  /\ Same /\ UNCHANGED <<projects, members, sent>>

CachedList(q) ==
  /\ At(q, "listProjects", "handler") /\ Awaits(q)
  /\ IF listCache[call[q].user] = None THEN Goto(q, "query") ELSE Answer(q, 200)
  /\ Same /\ UNCHANGED <<projects, members, sent>>

QueryList(q) ==
  /\ At(q, "listProjects", "query")
  /\ Send(q, <<Cmd("setList", None, call[q].user, ProjectsOf(call[q].user))>>)
  /\ Answer(q, 200)
  /\ Same /\ UNCHANGED <<projects, members>>

ListMembers(q) ==
  /\ At(q, "listMembers", "handler")
  /\ Answer(q, 200)
  /\ Same /\ UNCHANGED <<projects, members, sent>>

-----------------------------------------------------------------------------
(* update and delete *)

(* The project found is saved whole: if it was deleted since, it comes back. *)
UpdateProject(q) ==
  /\ At(q, "updateProject", "found")
  /\ projects' = [projects EXCEPT ![call[q].request.project].deleted = FALSE]
  /\ AnswerWriting(q, 200, {<<"key", projects[call[q].request.project].key>>})
  /\ Same /\ UNCHANGED <<members, sent>>

DeleteProject(q) ==
  /\ At(q, "deleteProject", "found")
  /\ projects' = [projects EXCEPT ![call[q].request.project].deleted = TRUE]
  /\ Answer(q, 204)
  /\ Same /\ UNCHANGED <<members, sent>>

-----------------------------------------------------------------------------
(* addMember and removeMember *)

FindMember(q) ==
  LET r == call[q].request IN
    /\ At(q, "addMember", "handler")
    /\ IF members[<<r.project, r.target>>] # None THEN Answer(q, 409)
       ELSE GotoReading(q, "save", {<<"member", r.project, r.target>>, <<"user", r.target>>})
    /\ Same /\ UNCHANGED <<projects, members, sent>>

(* The unique index on project and user, and the foreign key to the user. *)
MemberRefused(p, u) == members[<<p, u>>] # None \/ users[u] = None

SaveMember(q) ==
  LET r == call[q].request IN
    /\ At(q, "addMember", "save")
    /\ IF MemberRefused(r.project, r.target)
         THEN Answer(q, 500) /\ UNCHANGED <<members, sent>>
         ELSE /\ members' = [members EXCEPT ![<<r.project, r.target>>] = r.role]
              /\ Send(q, <<Cmd("delList", None, r.target, None)>>)
              /\ AnswerWriting(q, 201, {<<"member", r.project, r.target>>})
    /\ Same /\ UNCHANGED projects

(* Mutant of RemoveMember: only the list is invalidated. *)
RemoveMember_ListOnly(q) ==
  LET r == call[q].request IN
    /\ At(q, "removeMember", "handler")
    /\ members' = [members EXCEPT ![<<r.project, r.target>>] = None]
    /\ Send(q, <<Cmd("delList", None, r.target, None)>>)
    /\ Become(q, [call[q] EXCEPT !.step = "settled"], {}, {<<"member", r.project, r.target>>})
    /\ Same /\ UNCHANGED projects

RemoveMember(q) ==
  LET r == call[q].request IN
    /\ At(q, "removeMember", "handler")
    /\ members' = [members EXCEPT ![<<r.project, r.target>>] = None]
    /\ Send(q, <<Cmd("delRole", r.project, r.target, None), Cmd("delList", None, r.target, None)>>)
    /\ Become(q, [call[q] EXCEPT !.step = "settled"], {}, {<<"member", r.project, r.target>>})
    /\ Same /\ UNCHANGED projects

(* Mutant of Settled: the removal fails with the invalidation of the role. *)
Settled_All(q) ==
  LET r == call[q].request IN
    /\ At(q, "removeMember", "settled") /\ Awaits(q)
    /\ Answer(q, IF <<r.project, r.target>> \in misfilled THEN 500 ELSE 204)
    /\ Same /\ UNCHANGED <<projects, members, sent>>

Settled(q) ==
  /\ At(q, "removeMember", "settled") /\ Awaits(q)
  /\ Answer(q, 204)
  /\ Same /\ UNCHANGED <<projects, members, sent>>

Project(q) ==
  \/ CachedRole(q) \/ ReadRole(q)
  \/ FindKey(q) \/ SaveProject(q) \/ SaveAdmin(q)
  \/ FindProject(q) \/ FindMembership(q) \/ CachedList(q) \/ QueryList(q) \/ ListMembers(q)
  \/ UpdateProject(q) \/ DeleteProject(q)
  \/ FindMember(q) \/ SaveMember(q) \/ RemoveMember(q) \/ Settled(q)

-----------------------------------------------------------------------------
(* Redis: the first command of a process. *)

SetRole(c) ==
  /\ c.cmd = "setRole"
  /\ roleCache' = [roleCache EXCEPT ![<<c.project, c.user>>] = c.value]
  /\ misfilled' = IF members[<<c.project, c.user>>] = c.value
                    THEN misfilled \ {<<c.project, c.user>>}
                    ELSE misfilled \cup {<<c.project, c.user>>}
  /\ UNCHANGED listCache

DelRole(c) ==
  /\ c.cmd = "delRole"
  /\ roleCache' = [roleCache EXCEPT ![<<c.project, c.user>>] = None]
  /\ misfilled' = misfilled \ {<<c.project, c.user>>}
  /\ UNCHANGED listCache

(* setList with what was read, or delList. *)
WriteList(c) ==
  /\ c.cmd \in {"setList", "delList"}
  /\ listCache' = [listCache EXCEPT ![c.user] = c.value]
  /\ UNCHANGED <<roleCache, misfilled>>

(* Its failure is ignored. *)
CommandFails(c) ==
  /\ misfilled' = IF c.cmd = "delRole" THEN misfilled \cup {<<c.project, c.user>>}
                  ELSE misfilled
  /\ UNCHANGED <<roleCache, listCache>>

Redis(q) ==
  /\ sent[q] # <<>>
  /\ LET c == Head(sent[q]) IN SetRole(c) \/ DelRole(c) \/ WriteList(c) \/ CommandFails(c)
  /\ sent' = [sent EXCEPT ![q] = Tail(@)]
  /\ UNCHANGED <<limiterVars, accountVars, projects, members>>

(* 5 minutes, or the TTL of the lists. *)
RoleExpires(p, u) ==
  /\ roleCache[<<p, u>>] # None
  /\ roleCache' = [roleCache EXCEPT ![<<p, u>>] = None]
  /\ misfilled' = misfilled \ {<<p, u>>}
  /\ UNCHANGED <<limiterVars, accountVars, projects, members, listCache, sent>>

ListExpires(u) ==
  /\ listCache[u] # None
  /\ listCache' = [listCache EXCEPT ![u] = None]
  /\ UNCHANGED <<limiterVars, accountVars, projects, members, roleCache, sent, misfilled>>

-----------------------------------------------------------------------------
(* The call that removes the member has not yet invalidated the cache. *)
RemovalUnderWay(p, u) ==
  \E q \in Calls : \E k \in DOMAIN sent[q] :
    sent[q][k].cmd = "delRole" /\ sent[q][k].project = p /\ sent[q][k].user = u

(* The role that requireProjectRole finds in the cache is the one the user has, unless  *)
(* the removal is under way, or its invalidation failed, or a call that had read the     *)
(* former role wrote it after the invalidation.                                         *)
RoleCacheTrue ==
  \A p \in ProjectIds, u \in Users :
    roleCache[<<p, u>>] # None /\ <<p, u>> \notin misfilled /\ ~RemovalUnderWay(p, u)
      => roleCache[<<p, u>>] = members[<<p, u>>]
=============================================================================
