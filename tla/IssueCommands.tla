---------------------------- MODULE IssueCommands ----------------------------
(***************************************************************************)
(* The write side of the issues of one project                             *)
(* (src/src/modules/issues, src/src/modules/workflow): concurrent POST,    *)
(* PATCH, transition and DELETE requests, each a sequence of awaited       *)
(* queries.                                                                *)
(*                                                                         *)
(* A PATCH reads the issue, lays the body over it and hands the whole to   *)
(* TypeORM's save, which reads the row again and updates the columns that  *)
(* differ from that OLD copy.  A transition writes its own column only.    *)
(* Text fields are left out; story points are there or not.                *)
(***************************************************************************)
EXTENDS Integers, FiniteSets

CONSTANTS
  Requests, Issues,
  Statuses, Allowed, Done, Stories,
  WipLimit,     \* per status; 0: none
  AutoAssign,   \* the transitions with an ASSIGN_REVIEWER action
  Sprints, Users,
  CreatedIn,    \* the statuses POST bodies ask for, or get as the first TODO one
  Workloads,    \* what clients do in a behaviour: see Workload
  None

ASSUME IssueAssumption ==
  /\ IsFiniteSet(Requests) /\ IsFiniteSet(Issues)
  /\ None \notin Issues \cup Statuses \cup Sprints \cup Users
  /\ CreatedIn \subseteq Statuses /\ Allowed \subseteq Statuses \X Statuses
  /\ Done \subseteq Statuses /\ Stories \subseteq Issues
  /\ WipLimit \in [Statuses -> Nat]
  /\ AutoAssign \subseteq Allowed

VARIABLES
  workload,    \* fixed
  rows,        \* table issues; rows[i].state tells missing and soft-deleted rows
  counter,     \* table issue_key_counters
  pc, job, local,
  announced,   \* the status of each issue as subscribers of the bus know it
  origin,      \* history: the status each issue was created in
  overlapped   \* history: issues two requests were at work on at once

vars == <<workload, rows, counter, pc, job, local, announced, origin, overlapped>>

Row == [state: {"none", "live", "deleted"}, status: Statuses \cup {None},
        sprint: Sprints \cup {None}, points: BOOLEAN, assignee: Users \cup {None},
        version: Nat, key: Nat]

Columns == {"state", "status", "sprint", "points", "assignee", "version"}

NoRow == [state |-> "none", status |-> None, sprint |-> None, points |-> FALSE,
          assignee |-> None, version |-> 0, key |-> 0]

(* A request body: the columns it names, and their values. *)
Body == [names: SUBSET {"sprint", "points", "assignee"}, sprint: Sprints \cup {None},
         points: BOOLEAN, assignee: Users \cup {None}]

NoBody == [names |-> {}, sprint |-> None, points |-> FALSE, assignee |-> None]

Endpoints == {"create", "update", "transition", "delete"}

(* The endpoints clients call, the issues there are, the columns PATCH bodies name, and  *)
(* whether queries may fail.  Bounds: clients stop creating at the counter `keys' and    *)
(* leave an issue alone from the version `versions' on.                                   *)
Workload == [ops: SUBSET Endpoints, issues: SUBSET Issues,
             editable: SUBSET {"sprint", "points", "assignee"}, faults: BOOLEAN,
             keys: Nat, versions: Nat]

Job == [op: Endpoints \cup {"none"}, issue: Issues \cup {None},
        to: Statuses \cup {None}, body: Body, version: Nat, user: Users \cup {None}]

NoJob == [op |-> "none", issue |-> None, to |-> None, body |-> NoBody,
          version |-> 0, user |-> None]

(* row: the issue as it was read, for a PATCH with the body laid over it;  *)
(* cols: the columns that differed from the database; key: the key drawn.  *)
Fresh == [row |-> NoRow, cols |-> {}, key |-> 0]

Local == [row: Row, cols: SUBSET Columns, key: Nat]

Steps == {"idle", "key", "keyed", "insert", "find", "hooks", "select", "write",
          "auto", "publish"}

Init ==
  /\ workload \in Workloads
  /\ rows = [i \in Issues |-> NoRow]
  /\ counter = 0
  /\ pc = [r \in Requests |-> "idle"]
  /\ job = [r \in Requests |-> NoJob]
  /\ local = [r \in Requests |-> Fresh]
  /\ announced = [i \in Issues |-> None]
  /\ origin = [i \in Issues |-> None]
  /\ overlapped = {}

-----------------------------------------------------------------------------
Goto(r, step) == pc' = [pc EXCEPT ![r] = step]

Reply(r) ==
  /\ Goto(r, "idle")
  /\ job' = [job EXCEPT ![r] = NoJob]
  /\ local' = [local EXCEPT ![r] = Fresh]

(* What was read is not looked at again. *)
Written(r, step) == Goto(r, step) /\ local' = [local EXCEPT ![r] = Fresh]

table == <<rows, counter>>
history == <<origin, overlapped>>

AtWorkOn(i) == {r \in Requests : pc[r] # "idle" /\ job[r].issue = i}

(* A request arrives. *)
Ask(r, j, step) ==
  /\ pc[r] = "idle"
  /\ Goto(r, step)
  /\ job' = [job EXCEPT ![r] = j]
  /\ overlapped' = overlapped \cup {i \in Issues : i = j.issue /\ AtWorkOn(i) # {}}
  /\ UNCHANGED <<table, local, announced, origin>>

(* The client has seen the issue, and a version of it. *)
Known(i) == rows[i].state # "none" /\ rows[i].version < workload.versions

Post(r, i, status, body) ==
  /\ rows[i].state = "none" /\ AtWorkOn(i) = {}   \* i will be a fresh uuid
  /\ counter < workload.keys
  /\ Ask(r, [NoJob EXCEPT !.op = "create", !.issue = i, !.to = status, !.body = body], "key")

Patch(r, i, body, version) ==
  /\ Known(i)
  /\ Ask(r, [NoJob EXCEPT !.op = "update", !.issue = i, !.body = body,
                          !.version = version], "find")

Transition(r, i, to, user) ==
  /\ Known(i)
  /\ Ask(r, [NoJob EXCEPT !.op = "transition", !.issue = i, !.to = to, !.user = user], "find")

Delete(r, i) ==
  /\ Known(i)
  /\ Ask(r, [NoJob EXCEPT !.op = "delete", !.issue = i], "find")

-----------------------------------------------------------------------------
(* create: draw a key in a transaction of its own, then INSERT. *)

(* Mutant of DrawKey: the counter's row is read without its lock. *)
DrawKey_Unlocked(r) ==
  /\ pc[r] = "key"
  /\ local' = [local EXCEPT ![r].key = counter + 1]
  /\ Goto(r, "keyed")
  /\ UNCHANGED <<table, job, announced, history>>

(* INSERT ... ON DUPLICATE KEY UPDATE counter = LAST_INSERT_ID(counter + 1), *)
(* with the counter's row locked until the COMMIT.                           *)
DrawKey(r) ==
  /\ pc[r] = "key"
  /\ \A q \in Requests : pc[q] # "keyed"
  /\ local' = [local EXCEPT ![r].key = counter + 1]
  /\ Goto(r, "keyed")
  /\ UNCHANGED <<table, job, announced, history>>

CommitKey(r) ==
  /\ pc[r] = "keyed"
  /\ counter' = local[r].key
  /\ Goto(r, "insert")
  /\ UNCHANGED <<rows, job, local, announced, history>>

(* Mutant of Laid: what the body does not name is cleared. *)
Laid_Cleared(row, body) ==
  [row EXCEPT !.sprint = body.sprint, !.points = body.points, !.assignee = body.assignee]

(* The body laid over a row. *)
Laid(row, body) ==
  [row EXCEPT !.sprint = IF "sprint" \in body.names THEN body.sprint ELSE @,
              !.points = IF "points" \in body.names THEN body.points ELSE @,
              !.assignee = IF "assignee" \in body.names THEN body.assignee ELSE @]

(* The unique index on issue_key would refuse a key already taken. *)
Insert(r) ==
  /\ pc[r] = "insert"
  /\ IF \E i \in Issues : rows[i].state # "none" /\ rows[i].key = local[r].key
       THEN Reply(r) /\ UNCHANGED <<rows, origin>>
       ELSE /\ rows' = [rows EXCEPT ![job[r].issue] =
                 Laid([NoRow EXCEPT !.state = "live", !.status = job[r].to, !.version = 1,
                                    !.key = local[r].key], job[r].body)]
            /\ origin' = [origin EXCEPT ![job[r].issue] = job[r].to]
            /\ Written(r, "publish")
            /\ UNCHANGED job
  /\ UNCHANGED <<counter, announced, overlapped>>

-----------------------------------------------------------------------------
(* update, transition, delete: findById first; a missing or deleted issue is 404. *)

Mine(r) == rows[job[r].issue]

NotFound(r) ==
  /\ pc[r] = "find"
  /\ Mine(r).state # "live"
  /\ Reply(r)
  /\ UNCHANGED <<table, announced, history>>

FindForUpdate(r) ==
  /\ pc[r] = "find" /\ job[r].op = "update"
  /\ Mine(r).state = "live"
  /\ local' = [local EXCEPT ![r].row =
                 [Laid(Mine(r), job[r].body) EXCEPT !.version = job[r].version]]
  /\ Goto(r, "select")
  /\ UNCHANGED <<table, job, announced, history>>

(* save, first half: the row is read, deleted or not, and compared. *)
SaveSelect(r) ==
  /\ pc[r] = "select"
  /\ local' = [local EXCEPT ![r].cols = {c \in Columns : Mine(r)[c] # local[r].row[c]}]
  /\ Goto(r, "write")
  /\ UNCHANGED <<table, job, announced, history>>

(* save, second half: UPDATE of the columns that differed, WHERE id = ?. The *)
(* version is one of them; only when it did not differ is it incremented.    *)
Saved(r) ==
  LET now == Mine(r)
      old == local[r].row
      Pick(c) == IF c \in local[r].cols THEN old[c] ELSE now[c]
  IN  [state |-> Pick("state"), status |-> Pick("status"), sprint |-> Pick("sprint"),
       points |-> Pick("points"), assignee |-> Pick("assignee"), key |-> now.key,
       version |-> IF local[r].cols = {} THEN now.version
                   ELSE IF "version" \in local[r].cols THEN old.version
                   ELSE now.version + 1]

WriteUpdate(r) ==
  /\ pc[r] = "write" /\ job[r].op = "update"
  /\ rows' = [rows EXCEPT ![job[r].issue] = Saved(r)]
  /\ Written(r, "publish")
  /\ UNCHANGED <<counter, job, announced, history>>

-----------------------------------------------------------------------------
(* transition: workflow, hooks, write, automatic actions, event. *)

Move(r) == <<local[r].row.status, job[r].to>>

(* Mutant of FindForTransition: any status may be asked for. *)
FindForTransition_Unchecked(r) ==
  /\ pc[r] = "find" /\ job[r].op = "transition"
  /\ Mine(r).state = "live"
  /\ local' = [local EXCEPT ![r].row = Mine(r)]
  /\ Goto(r, "hooks")
  /\ UNCHANGED <<table, job, announced, history>>

FindForTransition(r) ==
  /\ pc[r] = "find" /\ job[r].op = "transition"
  /\ Mine(r).state = "live"
  /\ IF <<Mine(r).status, job[r].to>> \in Allowed
       THEN /\ local' = [local EXCEPT ![r].row = Mine(r)]
            /\ Goto(r, "hooks")
            /\ UNCHANGED job
       ELSE Reply(r)
  /\ UNCHANGED <<table, announced, history>>

In(status) == {i \in Issues : rows[i].state = "live" /\ rows[i].status = status}

(* Mutant of WipReached: the limit may be exceeded by one. *)
WipReached_OffByOne(status) ==
  WipLimit[status] # 0 /\ Cardinality(In(status)) > WipLimit[status]

WipReached(status) ==
  WipLimit[status] # 0 /\ Cardinality(In(status)) >= WipLimit[status]

PointsMissing(r) ==
  job[r].to \in Done /\ job[r].issue \in Stories /\ ~local[r].row.points

(* Mutant of Hooks: RequiredFieldHook is not in the chain. *)
Hooks_WipOnly(r) ==
  /\ pc[r] = "hooks"
  /\ IF WipReached(job[r].to)
       THEN Reply(r)
       ELSE Goto(r, "write") /\ UNCHANGED <<job, local>>
  /\ UNCHANGED <<table, announced, history>>

(* The chain of hooks: WipLimitHook counts, RequiredFieldHook looks at the issue. *)
Hooks(r) ==
  /\ pc[r] = "hooks"
  /\ IF WipReached(job[r].to) \/ PointsMissing(r)
       THEN Reply(r)
       ELSE Goto(r, "write") /\ UNCHANGED <<job, local>>
  /\ UNCHANGED <<table, announced, history>>

(* Mutant of Bumped: the version goes down. *)
Bumped_Down(row) == [row EXCEPT !.version = @ - 1]

Bumped(row) == [row EXCEPT !.version = @ + 1]

(* UPDATE of status_id WHERE id = ?; findOneOrFail then fails, and rolls back, if *)
(* the issue was deleted meanwhile.                                              *)
WriteTransition(r) ==
  /\ pc[r] = "write" /\ job[r].op = "transition"
  /\ IF Mine(r).state = "live"
       THEN /\ rows' = [rows EXCEPT ![job[r].issue] =
                          Bumped([Mine(r) EXCEPT !.status = job[r].to])]
            /\ Written(r, IF Move(r) \in AutoAssign THEN "auto" ELSE "publish")
            /\ UNCHANGED job
       ELSE Reply(r) /\ UNCHANGED rows
  /\ UNCHANGED <<counter, announced, history>>

(* Mutant of AutoAction: a failure is thrown, and no event is published. *)
AutoAction_Throws(r) ==
  /\ pc[r] = "auto"
  /\ \/ /\ rows' = [rows EXCEPT ![job[r].issue] =
                     Bumped([Mine(r) EXCEPT !.assignee = job[r].user])]
        /\ Goto(r, "publish")
        /\ UNCHANGED <<job, local>>
     \/ workload.faults /\ Reply(r) /\ UNCHANGED rows
  /\ UNCHANGED <<counter, announced, history>>

(* ASSIGN_REVIEWER, in a statement of its own; a failure is logged and ignored. *)
AutoAction(r) ==
  /\ pc[r] = "auto"
  /\ \/ rows' = [rows EXCEPT ![job[r].issue] =
                   Bumped([Mine(r) EXCEPT !.assignee = job[r].user])]
     \/ workload.faults /\ UNCHANGED rows
  /\ Goto(r, "publish")
  /\ UNCHANGED <<counter, job, local, announced, history>>

-----------------------------------------------------------------------------
FindForDelete(r) ==
  /\ pc[r] = "find" /\ job[r].op = "delete"
  /\ Mine(r).state = "live"
  /\ Goto(r, "write")
  /\ UNCHANGED <<table, job, local, announced, history>>

(* softDelete: UPDATE deleted_at WHERE id = ?, deleted already or not. No event. *)
WriteDelete(r) ==
  /\ pc[r] = "write" /\ job[r].op = "delete"
  /\ rows' = [rows EXCEPT ![job[r].issue] = Bumped([Mine(r) EXCEPT !.state = "deleted"])]
  /\ Reply(r)
  /\ UNCHANGED <<counter, announced, history>>

(* IssueCreated lets subscribers load the issue, StatusChanged tells the status it *)
(* went to; IssueUpdated and IssueMoved tell no status.                            *)
Publish(r) ==
  /\ pc[r] = "publish"
  /\ announced' = IF job[r].op \in {"create", "transition"}
                    THEN [announced EXCEPT ![job[r].issue] = job[r].to]
                    ELSE announced
  /\ Reply(r)
  /\ UNCHANGED <<table, history>>

(* Any query may fail; a transaction that fails is rolled back. *)
Fail(r) ==
  /\ workload.faults
  /\ pc[r] \in Steps \ {"idle", "auto", "publish"}
  /\ Reply(r)
  /\ UNCHANGED <<table, announced, history>>

(* SprintService.complete moves an unfinished issue to another sprint or to the *)
(* backlog. That it lists the issues first is SprintLifecycle's matter.         *)
CarryOver(i, sprint) ==
  /\ Known(i) /\ rows[i].state = "live" /\ rows[i].status \notin Done
  /\ rows[i].sprint # None /\ sprint # rows[i].sprint
  /\ rows' = [rows EXCEPT ![i] = Bumped([rows[i] EXCEPT !.sprint = sprint])]
  /\ overlapped' = overlapped \cup {j \in {i} : AtWorkOn(i) # {}}
  /\ UNCHANGED <<counter, pc, job, local, announced, origin>>

-----------------------------------------------------------------------------
Work(r) ==
  \/ DrawKey(r) \/ CommitKey(r) \/ Insert(r)
  \/ NotFound(r) \/ FindForUpdate(r) \/ FindForTransition(r) \/ FindForDelete(r)
  \/ SaveSelect(r) \/ WriteUpdate(r)
  \/ Hooks(r) \/ WriteTransition(r) \/ AutoAction(r)
  \/ WriteDelete(r) \/ Publish(r) \/ Fail(r)

(* The bodies clients send: what is not named has no value. *)
Bodies == {b \in Body : /\ b.names \subseteq workload.editable
                        /\ "sprint" \notin b.names => b.sprint = None
                        /\ "points" \notin b.names => ~b.points
                        /\ "assignee" \notin b.names => b.assignee = None}

Arrive(r, i) ==
  \/ "create" \in workload.ops /\ \E s \in CreatedIn, b \in Bodies : Post(r, i, s, b)
  \/ "update" \in workload.ops /\ \E b \in Bodies, v \in 1..rows[i].version : Patch(r, i, b, v)
  \/ "transition" \in workload.ops /\ \E s \in Statuses, u \in Users : Transition(r, i, s, u)
  \/ "delete" \in workload.ops /\ Delete(r, i)

Next ==
  /\ \/ \E r \in Requests, i \in Issues \cap workload.issues : Arrive(r, i)
     \/ \E r \in Requests : Work(r)
     \/ \E i \in Issues, s \in Sprints \cup {None} : CarryOver(i, s)
  /\ UNCHANGED workload

Spec == Init /\ [][Next]_vars
-----------------------------------------------------------------------------
(* Properties. *)

TypeOK ==
  /\ rows \in [Issues -> Row]
  /\ counter \in Nat
  /\ pc \in [Requests -> Steps]
  /\ job \in [Requests -> Job]
  /\ local \in [Requests -> Local]
  /\ announced \in [Issues -> Statuses \cup {None}]
  /\ origin \in [Issues -> Statuses \cup {None}]
  /\ overlapped \subseteq Issues

(* IssueCommandService.ts:73: an update whose version is not the current one is *)
(* refused. TypeORM's save does not look at it, so the code saves every one.    *)
StaleWriteRefused ==
  [][\A r \in Requests :
       pc[r] = "write" /\ pc'[r] = "publish" /\ job[r].op = "update" =>
         job[r].version = Mine(r).version]_vars

(* A key is drawn once: the INSERT never meets the unique index, whatever     *)
(* creations run at once and whichever of them fail after drawing.           *)
KeysDrawnOnce ==
  \A r \in Requests : pc[r] = "insert" =>
    /\ \A i \in Issues : rows[i].state # "none" => rows[i].key # local[r].key
    /\ \A q \in Requests \ {r} : pc[q] = "insert" => local[q].key # local[r].key

(* A set of statuses the workflow does not lead out of. *)
Closed(S) == \A m \in Allowed : m[1] \in S => m[2] \in S

(* No interleaving of stale transitions, stale saves and undeletions brings an *)
(* issue to a status the workflow does not lead to from where it was created.  *)
StatusReachable ==
  \A i \in Issues : \A S \in SUBSET Statuses :
    origin[i] \in S /\ Closed(S) => rows[i].status \in S

(* The issues that are in a column, or that a request under way may put there *)
(* without another look, those created in it left out.                       *)
Entering(r, i, status) ==
  /\ job[r].issue = i
  /\ \/ job[r].op = "transition" /\ pc[r] = "write" /\ job[r].to = status
     \/ /\ job[r].op = "update" /\ pc[r] \in {"select", "write"}
        /\ status \in {local[r].row.status, rows[i].status}

Claims(status) ==
  {i \in Issues : /\ origin[i] # status
                  /\ i \in In(status) \/ \E r \in Requests : Entering(r, i, status)}

(* WipLimitHook counts before it writes, so a column can exceed its limit, but *)
(* by no more than the other requests under way, whatever PATCHes restore.    *)
WipBounded ==
  \A s \in Statuses : WipLimit[s] # 0 =>
    Cardinality(Claims(s)) <= WipLimit[s] + Cardinality(Requests) - 1

Life == INSTANCE IssueLife WITH card <- rows

(* While no two requests work on an issue at once, what happens to it is exactly *)
(* the indivisible create, edit, move and delete of IssueLife: a save of the     *)
(* whole entity touches no field the body does not name.                         *)
FollowsLife == [][\A i \in Issues \ overlapped' : Life!IssueStep(i)]_vars

(* While no two requests work on an issue at once, its sprint changes only by a *)
(* PATCH that names the sprint, or, if it is not done, as its sprint completes:  *)
(* no other PATCH, move, retry or deletion puts it back where it was read.       *)
SprintAsAsked ==
  [][\A i \in Issues \ overlapped' :
       rows[i].state # "none" /\ rows'[i].sprint # rows[i].sprint =>
         \/ \E r \in AtWorkOn(i) : job[r].op = "update" /\ "sprint" \in job[r].body.names
         \/ rows[i].status \notin Done /\ AtWorkOn(i) = {}]_vars

(* Subscribers that follow the events know the status of every issue nobody is at *)
(* work on, as long as no two requests worked on it at once.                     *)
SubscribersAgree ==
  \A i \in Issues \ overlapped :
    rows[i].state = "live" /\ AtWorkOn(i) = {} => announced[i] = rows[i].status
=============================================================================
