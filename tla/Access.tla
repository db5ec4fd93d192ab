-------------------------------- MODULE Access --------------------------------
(***************************************************************************)
(* Calls to the accounts, projects and custom fields of the platform, from *)
(* the middleware to the answer (src/src/app.ts and the routers).  A       *)
(* behaviour is given what may be asked in it, so that the instances can   *)
(* be small; the handlers of issues, sprints and comments have modules of  *)
(* their own.                                                              *)
(***************************************************************************)
EXTENDS CustomFields

CONSTANTS
  Workloads,       \* what happens in a behaviour: see Workload
  Keys, Offered,   \* keys of projects; values that a definition may allow
  FirstUsers, FirstTokens, FirstProjects, FirstMembers, FirstFields

VARIABLE workload

vars == <<workload, limiterVars, accountVars, projectVars, fieldVars>>

Ops == {"register", "login", "logout", "createProject", "listProjects", "getProject",
        "updateProject", "deleteProject", "addMember", "listMembers", "removeMember",
        "listDefinitions", "createDefinition", "updateDefinition", "deleteDefinition",
        "listValues", "setValue", "clearValue"}

Request ==
  [op: Ops, token: Tokens \cup {None}, email: Emails \cup {None},
   project: ProjectIds \cup {None}, key: Keys \cup {None}, target: Users \cup {None},
   role: Roles \cup {None}, field: Fields \cup {None}, issue: Issues \cup {None},
   value: Offered \cup {None}, allowed: (SUBSET Offered) \cup {None}]

(* What may be asked, by how many calls at a time; whether the limiter is watched (it    *)
(* can but refuse: otherwise it is passed over), how far the clock runs, and whether      *)
(* commands and queries fail.                                                            *)
Workload ==
  [asks: SUBSET Request, calls: SUBSET Calls, limited: BOOLEAN, until: Times, faults: BOOLEAN]

ProjectRow == [key: Keys \cup {None}, deleted: BOOLEAN]

Definition == [project: ProjectIds, allowed: SUBSET Offered]

ValueRow == [row: Rows, value: Offered]

(* What a path or a body must have to get to its handler. *)
Complete(r) ==
  /\ MinRole(r.op) # None => r.project # None
  /\ r.op \in {"register", "login"} => r.email # None
  /\ r.op = "createProject" => r.key # None
  /\ r.op \in {"addMember", "removeMember"} => r.target # None
  /\ r.op = "addMember" => r.role # None
  /\ r.op = "createDefinition" => r.allowed # None
  /\ r.op \in {"updateDefinition", "deleteDefinition", "setValue", "clearValue"} => r.field # None
  /\ r.op \in {"listValues", "setValue", "clearValue"} => r.issue # None
  /\ r.op = "setValue" => r.value # None

ASSUME AccessAssumption ==
  /\ ProjectOf \in [Issues -> ProjectIds \cup {None}]
  /\ FirstUsers \in [Users -> Emails \cup {None}]
  /\ FirstTokens \in [Tokens -> Token \cup {None}]
  /\ FirstProjects \in [ProjectIds -> ProjectRow \cup {None}]
  /\ {None, Gone} \cap (Roles \cup ProjectRow \cup Definition) = {}
  /\ FirstMembers \in [Pairs -> Roles \cup {None}]
  /\ \A k \in Pairs : FirstMembers[k] # None => FirstProjects[k[1]] # None
  /\ FirstFields \in [Fields -> Definition \cup {None}]
  /\ Workloads \subseteq Workload
  /\ \A w \in Workloads : \A r \in w.asks : Complete(r)

Steps == {"answered", "prune", "count", "record", "expire", "verify", "revoked", "cached",
          "member", "handler", "save", "sign", "admin", "found", "query", "settled", "emptied", "value"}

TypeOK ==
  /\ clock \in Times
  /\ \A q \in Calls :
       /\ call[q].step \in Steps /\ call[q].now \in Times
       /\ call[q].user \in Users \cup {None} /\ call[q].late \in BOOLEAN
       /\ call[q].status \in {0, 200, 201, 204, 400, 401, 403, 404, 409, 429, 500}
       /\ call[q].fault \in BOOLEAN
  /\ recorded \subseteq Times \X Nat /\ hits \subseteq recorded /\ admitted \subseteq recorded
  /\ expiry \in Nat \cup {None}
  /\ users \in [Users -> Emails \cup {None}]
  /\ \A t \in Tokens : tokens[t] = None \/ tokens[t] \in Token
  /\ \A t \in Tokens : revoked[t] = None \/ revoked[t] \in Nat
  /\ disturbed \subseteq Calls /\ wrote \subseteq Calls /\ loggedOut \subseteq Tokens
  /\ projects \in [ProjectIds -> ProjectRow \cup {None}]
  /\ members \in [Pairs -> Roles \cup {None}] /\ roleCache \in [Pairs -> Roles \cup {None}]
  /\ listCache \in [Users -> (SUBSET ProjectIds) \cup {None}] /\ misfilled \subseteq Pairs
  /\ fields \in [Fields -> Definition \cup {None, Gone}]
  /\ values \in [Fields \X Issues -> ValueRow \cup {None}]

Init ==
  /\ workload \in Workloads
  /\ clock = 0
  /\ call = [q \in Calls |-> Idle]
  /\ hits = {} /\ recorded = {} /\ admitted = {} /\ expiry = None
  /\ users = FirstUsers /\ tokens = FirstTokens
  /\ revoked = [t \in Tokens |-> None]
  /\ reads = [q \in Calls |-> {}] /\ disturbed = {} /\ wrote = {} /\ loggedOut = {}
  /\ projects = FirstProjects /\ members = FirstMembers
  /\ roleCache = [k \in Pairs |-> None] /\ listCache = [u \in Users |-> None]
  /\ sent = [q \in Calls |-> <<>>] /\ misfilled = {}
  /\ fields = FirstFields
  /\ values = [k \in Fields \X Issues |-> None]

-----------------------------------------------------------------------------
Begin(q) ==
  /\ \E r \in workload.asks :
       Arrive(q, r, IF workload.limited THEN "prune" ELSE "verify", r.token \in loggedOut)
  /\ UNCHANGED <<accountVars, projectVars, fieldVars>>

(* These do not wait: settled waits for commands that are allowed to fail. *)
Unawaited == {"answered", "verify", "sign", "settled"}

(* A command or a query that a call waits for fails; nobody catches that but             *)
(* errorHandler.  What it would have done is not done, and what the call did before       *)
(* stays.                                                                                *)
Fails(q) ==
  /\ call[q].step \notin Unawaited
  /\ call[q].step = "cached" \/ At(q, "listProjects", "handler") => Awaits(q)
  /\ At(q, "createDefinition", "handler") => call[q].request.allowed # {}
  /\ Become(q, [Answered(q, 500) EXCEPT !.fault = TRUE], {}, {})
  /\ admitted' = IF call[q].step = "expire" THEN admitted \ {call[q].found} ELSE admitted
  /\ UNCHANGED <<clock, hits, expiry, recorded, accountVars, projectVars, fieldVars>>

Handle(q) ==
  \/ Limit(q) /\ UNCHANGED <<accountVars, projectVars, fieldVars>>
  \/ Account(q) /\ UNCHANGED <<projectVars, fieldVars>>
  \/ Project(q) /\ UNCHANGED fieldVars
  \/ Field(q)
  \/ Redis(q) /\ UNCHANGED fieldVars
  \/ workload.faults /\ Fails(q)

Next ==
  /\ \/ \E q \in workload.calls : Begin(q) \/ Handle(q)
     \/ clock < workload.until /\ Tick /\ UNCHANGED <<accountVars, projectVars, fieldVars>>
     \/ \E p \in ProjectIds, u \in Users : RoleExpires(p, u) /\ UNCHANGED fieldVars
     \/ \E u \in Users : ListExpires(u) /\ UNCHANGED fieldVars
  /\ UNCHANGED workload

Spec == Init /\ [][Next]_vars

-----------------------------------------------------------------------------
(* While its own commands and queries succeed, a call is answered 500 only when another  *)
(* call has written to the rows it had read since it read them.  Two requests are         *)
(* answered so without either: a project with the key of a deleted one, and a member who  *)
(* is no user.                                                                           *)
RefusalsAreRaces ==
  [][\A q \in Calls : call'[q] # call[q] /\ call'[q].status = 500 /\ ~call'[q].fault =>
       \/ q \in disturbed
       \/ /\ At(q, "createProject", "save")
          /\ \E p \in WithKey(call[q].request.key) : projects[p].deleted
       \/ At(q, "addMember", "save") /\ users[call[q].request.target] = None]_vars

(* A call that is answered an error has written nothing, whatever failed, and with        *)
(* whatever it raced.  There are two exceptions, both a second statement that is in no     *)
(* transaction with the first: the project that create leaves without an administrator,   *)
(* and the field whose values are gone while its definition stays.                        *)
AllOrNothing ==
  [][\A q \in Calls : call'[q] # call[q] /\ call'[q].status >= 400 =>
       \/ q \notin wrote /\ UNCHANGED <<users, projects, members, fields, values>>
       \/ At(q, "createProject", "admin")
       \/ At(q, "deleteDefinition", "emptied")]_vars
=============================================================================
