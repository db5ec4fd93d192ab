--------------------------- MODULE SprintLifecycle ---------------------------
(***************************************************************************)
(* The sprint service (src/src/modules/sprints) as it runs: concurrent     *)
(* requests, each a sequence of awaited queries against MySQL and Redis.   *)
(*                                                                         *)
(* start and complete run in a transaction on a connection of their own,   *)
(* take an advisory lock on it, but read through the repository, that is   *)
(* through ANOTHER connection of the pool, which sees committed rows only. *)
(* The lock is released before the transaction commits and the result of   *)
(* GET_LOCK is not looked at.                                              *)
(*                                                                         *)
(* Story points are abstracted: velocity is the set of the issues whose    *)
(* points were summed.  Dates, names and goals are left out.               *)
(***************************************************************************)
EXTENDS Integers, FiniteSets

CONSTANTS
  Requests,    \* concurrent HTTP requests, on any number of app instances
  Sprints, Projects, ProjectOf,
  Issues,
  IssueStates, \* which of "open", "done", "deleted" (soft) issues may be in
  PoolSize,    \* DB_POOL_MAX
  Workloads,   \* what clients do in a behaviour: see Workload
  Faults,      \* TRUE: a query, a commit or a Redis command may fail
  NoRequest, NoSprint, NoList, NoVelocity

ASSUME SprintAssumption ==
  /\ IsFiniteSet(Requests) /\ NoRequest \notin Requests
  /\ ProjectOf \in [Sprints -> Projects] /\ NoSprint \notin Sprints
  /\ PoolSize \in Nat \ {0}
  /\ Faults \in BOOLEAN
  /\ {"open"} \subseteq IssueStates /\ IssueStates \subseteq {"open", "done", "deleted"}
  /\ \A S \in SUBSET Issues : S # NoVelocity

VARIABLES
  workload,    \* fixed
  sprints,     \* committed rows of table sprints
  issues,      \* committed rows of table issues
  lists,       \* Redis: the cached sprint list of each project
  locks,       \* MySQL advisory locks: name -> holder
  pc,          \* where each request stands
  job,         \* what each request was asked to do
  local,       \* what each request has read, and written but not committed
  announced,   \* requests that have published SprintUpdated
  touched,     \* history: issues written by others since r read the velocity
  overlapped,  \* history: projects in which two starts were under way at once
  staled       \* history: projects whose list was stored late, or not deleted

vars == <<workload, sprints, issues, lists, locks, pc, job, local, announced, touched,
          overlapped, staled>>
cache == <<lists, staled>>
history == <<touched, overlapped>>
database == <<sprints, issues>>

Status == {"NONE", "PLANNING", "ACTIVE", "COMPLETED"}   \* NONE: no such row
SprintRow == [status: Status, velocity: {NoVelocity} \cup SUBSET Issues]
IssueRow == [sprint: Sprints \cup {NoSprint}, state: IssueStates]

SprintsOf(p) == {s \in Sprints : ProjectOf[s] = p}

Endpoints == {"list", "create", "start", "complete"}

(* The endpoints clients call, the sprints they name and the issues there are. *)
Workload == [ops: SUBSET Endpoints, sprints: SUBSET Sprints, issues: SUBSET Issues]

Job == [op: Endpoints \cup {"none"},
        sprint: Sprints \cup {NoSprint}, project: Projects \cup {NoSprint},
        carry: SUBSET Issues, next: Sprints \cup {NoSprint}]

NoJob == [op |-> "none", sprint |-> NoSprint, project |-> NoSprint,
          carry |-> {}, next |-> NoSprint]

Columns == {"status", "velocity"}

(* target: the entity handed to save; cols: the columns TypeORM found to      *)
(* differ; wrote: the UPDATE holds the row lock; todo, moved: issues to carry *)
(* over and those already updated; page: the rows a list request has read.    *)
Fresh == [target |-> [status |-> "NONE", velocity |-> NoVelocity], cols |-> {},
          wrote |-> FALSE, todo |-> {}, moved |-> {}, page |-> NoList]

TxBody == {"find", "active", "velocity", "select", "update", "incomplete",
           "carry"}
InTx == TxBody \cup {"lock", "release", "giveUp", "commit", "rollback"}
Steps == InTx \cup {"idle", "query", "fill", "del"}

(* What a cached or queried sprint list may be. *)
Pages == {NoList} \cup UNION {[SprintsOf(p) -> Status] : p \in Projects}

Local == [target: SprintRow, cols: SUBSET Columns, wrote: BOOLEAN,
          todo: SUBSET Issues, moved: SUBSET Issues, page: Pages]

LockNames == {"start", "complete"} \X Sprints

-----------------------------------------------------------------------------
(* The database: pool, rows, locks. *)

(* Mutant of ConnectionFree: one connection of the pool is kept back. *)
ConnectionFree_OneReserved == Cardinality({r \in Requests : pc[r] \in InTx}) < PoolSize - 1

(* mysql2 hands out a connection when fewer than connectionLimit are out. *)
ConnectionFree == Cardinality({r \in Requests : pc[r] \in InTx}) < PoolSize

SprintHeld(s, r) ==
  \E q \in Requests \ {r} : local[q].wrote /\ job[q].sprint = s

IssueHeld(i, r) == \E q \in Requests \ {r} : i \in local[q].moved

LockOf(r) == <<job[r].op, job[r].sprint>>

(* The sprints of a project as SprintRepository.findByProject returns them. *)
ListOf(p) == [s \in SprintsOf(p) |-> sprints[s].status]

Goto(r, step) == pc' = [pc EXCEPT ![r] = step]

Reply(r) ==
  /\ Goto(r, "idle")
  /\ job' = [job EXCEPT ![r] = NoJob]
  /\ local' = [local EXCEPT ![r] = Fresh]
  /\ announced' = announced \ {r}
  /\ touched' = [touched EXCEPT ![r] = {}]

(* An error in the body: what was only read is dropped, row locks stay held. *)
Abandon(r) ==
  /\ Goto(r, "giveUp")
  /\ local' = [local EXCEPT ![r] =
                 [Fresh EXCEPT !.wrote = local[r].wrote, !.moved = local[r].moved]]
  /\ touched' = [touched EXCEPT ![r] = {}]

Proceed(r, step) == Goto(r, step) /\ UNCHANGED touched

Init ==
  /\ workload \in Workloads
  /\ sprints = [s \in Sprints |-> [status |-> "NONE", velocity |-> NoVelocity]]
  /\ issues \in [Issues -> {[sprint |-> NoSprint, state |-> "open"]}]
  /\ lists = [p \in Projects |-> NoList]
  /\ locks = [n \in LockNames |-> NoRequest]
  /\ pc = [r \in Requests |-> "idle"]
  /\ job = [r \in Requests |-> NoJob]
  /\ local = [r \in Requests |-> Fresh]
  /\ announced = {}
  /\ touched = [r \in Requests |-> {}]
  /\ overlapped = {}
  /\ staled = {}

-----------------------------------------------------------------------------
(* list: cache aside. A hit changes nothing; a miss queries and fills. *)

ListSprints(r, p) ==
  /\ pc[r] = "idle"
  /\ lists[p] = NoList
  /\ Goto(r, "query")
  /\ job' = [job EXCEPT ![r] = [NoJob EXCEPT !.op = "list", !.project = p]]
  /\ UNCHANGED <<database, cache, locks, local, announced, history>>

QueryList(r) ==
  /\ pc[r] = "query"
  /\ ConnectionFree
  /\ Goto(r, "fill")
  /\ local' = [local EXCEPT ![r].page = ListOf(job[r].project)]
  /\ UNCHANGED <<database, cache, locks, job, announced, history>>

FillList(r) ==
  /\ pc[r] = "fill"
  /\ LET p == job[r].project IN
       \/ /\ lists' = [lists EXCEPT ![p] = local[r].page]
          /\ staled' = IF local[r].page = ListOf(p) THEN staled \ {p} ELSE staled \cup {p}
       \/ Faults /\ UNCHANGED cache
  /\ Reply(r)
  /\ UNCHANGED <<database, locks, overlapped>>

(* SPRINT_LIST_SECONDS after it was set, the entry is gone. *)
ExpireList(p) ==
  /\ lists[p] # NoList
  /\ lists' = [lists EXCEPT ![p] = NoList]
  /\ staled' = staled \ {p}
  /\ UNCHANGED <<database, locks, pc, job, local, announced, history>>

(* The invalidation that ends create, start and complete; nobody awaits it *)
(* and a failure is swallowed.                                             *)
InvalidateList(r) ==
  /\ pc[r] = "del"
  /\ LET p == job[r].project IN
       \/ lists' = [lists EXCEPT ![p] = NoList] /\ staled' = staled \ {p}
       \/ /\ Faults /\ UNCHANGED lists
          /\ staled' = IF lists[p] \in {NoList, ListOf(p)} THEN staled ELSE staled \cup {p}
  /\ Reply(r)
  /\ UNCHANGED <<database, locks, overlapped>>

(* create: one INSERT, committed by itself. *)
CreateSprint(r, s) ==
  /\ pc[r] = "idle"
  /\ ConnectionFree
  /\ sprints[s].status = "NONE"
  /\ sprints' = [sprints EXCEPT ![s].status = "PLANNING"]
  /\ Goto(r, "del")
  /\ job' = [job EXCEPT ![r] =
               [NoJob EXCEPT !.op = "create", !.sprint = s, !.project = ProjectOf[s]]]
  /\ UNCHANGED <<issues, cache, locks, local, announced, history>>

-----------------------------------------------------------------------------
(* start and complete: what they share. *)

(* A request that has to wait for its connection has done nothing yet, so it *)
(* enters with the connection of its transaction in hand.                   *)
OpenTransaction(r, j) ==
  /\ pc[r] = "idle"
  /\ ConnectionFree
  /\ Goto(r, "lock")
  /\ job' = [job EXCEPT ![r] = j]
  /\ UNCHANGED <<database, cache, locks, local, announced, history>>

StartSprint(r, s) ==
  OpenTransaction(r, [NoJob EXCEPT !.op = "start", !.sprint = s, !.project = ProjectOf[s]])

CompleteSprint(r, s, carry, next) ==
  OpenTransaction(r, [op |-> "complete", sprint |-> s, project |-> ProjectOf[s],
             carry |-> carry, next |-> next])

(* Past GET_LOCK, and still able to commit. *)
StartUnderWay(r, p) ==
  /\ job[r].op = "start" /\ job[r].project = p
  /\ pc[r] \in TxBody \cup {"release", "commit"}

(* GET_LOCK returns 1, or 0 after ADVISORY_LOCK_TIMEOUT_SECONDS: the code goes *)
(* on either way.                                                            *)
GetLock(r) ==
  /\ pc[r] = "lock"
  /\ locks' = IF locks[LockOf(r)] = NoRequest
                THEN [locks EXCEPT ![LockOf(r)] = r] ELSE locks
  /\ Goto(r, "find")
  /\ overlapped' = overlapped \cup
       {p \in Projects : job[r].op = "start" /\ job[r].project = p
                           /\ \E q \in Requests : StartUnderWay(q, p)}
  /\ UNCHANGED <<database, cache, job, local, announced, touched>>

(* Mutant of FindById: the status guard of start is dropped. *)
FindById_NoStartGuard(r) ==
  /\ pc[r] = "find"
  /\ ConnectionFree
  /\ LET row == sprints[job[r].sprint] IN
       IF job[r].op = "start" \/ row.status = "ACTIVE"
         THEN /\ local' = [local EXCEPT ![r].target = [row EXCEPT
                              !.status = IF job[r].op = "start" THEN "ACTIVE" ELSE "COMPLETED"]]
              /\ Proceed(r, IF job[r].op = "start" THEN "active" ELSE "velocity")
         ELSE Abandon(r)
  /\ UNCHANGED <<database, cache, locks, job, announced, overlapped>>

(* The status guard of start (PLANNING) and of complete (ACTIVE), on a row     *)
(* read through another connection; a row that is not there fails it as well. *)
FindById(r) ==
  /\ pc[r] = "find"
  /\ ConnectionFree
  /\ LET row == sprints[job[r].sprint] IN
       \/ /\ job[r].op = "start" /\ row.status = "PLANNING"
          /\ local' = [local EXCEPT ![r].target = [row EXCEPT !.status = "ACTIVE"]]
          /\ Proceed(r, "active")
       \/ /\ job[r].op = "complete" /\ row.status = "ACTIVE"
          /\ local' = [local EXCEPT ![r].target = [row EXCEPT !.status = "COMPLETED"]]
          /\ Proceed(r, "velocity")
       \/ /\ row.status # (IF job[r].op = "start" THEN "PLANNING" ELSE "ACTIVE")
          /\ Abandon(r)
  /\ UNCHANGED <<database, cache, locks, job, announced, overlapped>>

(* Mutant of FindActive: the other ACTIVE sprint is not looked for. *)
FindActive_Skipped(r) ==
  /\ pc[r] = "active"
  /\ ConnectionFree
  /\ Proceed(r, "select")
  /\ UNCHANGED <<database, cache, locks, job, local, announced, overlapped>>

FindActive(r) ==
  /\ pc[r] = "active"
  /\ ConnectionFree
  /\ IF \E s \in SprintsOf(job[r].project) : sprints[s].status = "ACTIVE"
       THEN Abandon(r)
       ELSE Proceed(r, "select") /\ UNCHANGED local
  /\ UNCHANGED <<database, cache, locks, job, announced, overlapped>>

(* The issues of sprint s in a given state, deleted ones left out. *)
IssuesIn(s, state) == {i \in Issues : issues[i] = [sprint |-> s, state |-> state]}

GetVelocity(r) ==
  /\ pc[r] = "velocity"
  /\ ConnectionFree
  /\ local' = [local EXCEPT ![r].target.velocity = IssuesIn(job[r].sprint, "done")]
  /\ Goto(r, "select")
  /\ UNCHANGED <<database, cache, locks, job, announced, history>>

(* Mutant of SaveSelect: only the status is saved. *)
SaveSelect_StatusOnly(r) ==
  /\ pc[r] = "select"
  /\ local' = [local EXCEPT ![r].cols = {"status"}]
  /\ Goto(r, "update")
  /\ UNCHANGED <<database, cache, locks, job, announced, history>>

(* em.save, first half: TypeORM reads the row and keeps the columns that differ. *)
SaveSelect(r) ==
  /\ pc[r] = "select"
  /\ local' = [local EXCEPT ![r].cols =
                 {c \in Columns : sprints[job[r].sprint][c] # local[r].target[c]}]
  /\ Goto(r, "update")
  /\ UNCHANGED <<database, cache, locks, job, announced, history>>

(* em.save, second half: UPDATE of those columns, once the row lock is free. *)
SaveUpdate(r) ==
  /\ pc[r] = "update"
  /\ local[r].cols = {} \/ ~SprintHeld(job[r].sprint, r)
  /\ local' = [local EXCEPT ![r].wrote = local[r].cols # {}]
  /\ Goto(r, IF job[r].op = "start" THEN "release" ELSE "incomplete")
  /\ UNCHANGED <<database, cache, locks, job, announced, history>>

(* Mutant of GetIncompleteIssues: the filter on the DONE category is lost. *)
GetIncompleteIssues_All(r) ==
  /\ pc[r] = "incomplete"
  /\ ConnectionFree
  /\ local' = [local EXCEPT ![r].todo =
                 IssuesIn(job[r].sprint, "open") \cup IssuesIn(job[r].sprint, "done")]
  /\ Goto(r, "carry")
  /\ UNCHANGED <<database, cache, locks, job, announced, history>>

GetIncompleteIssues(r) ==
  /\ pc[r] = "incomplete"
  /\ ConnectionFree
  /\ local' = [local EXCEPT ![r].todo = IssuesIn(job[r].sprint, "open")]
  /\ Goto(r, "carry")
  /\ UNCHANGED <<database, cache, locks, job, announced, history>>

Dest(r, i) == IF i \in job[r].carry THEN job[r].next ELSE NoSprint

(* One UPDATE per incomplete issue. The foreign key refuses a sprint that is *)
(* not there.                                                              *)
CarryOver(r) ==
  /\ pc[r] = "carry"
  /\ \/ /\ local[r].todo = {}
        /\ Proceed(r, "release")
        /\ UNCHANGED local
     \/ \E i \in local[r].todo :
          /\ ~IssueHeld(i, r)
          /\ IF Dest(r, i) # NoSprint /\ sprints[Dest(r, i)].status = "NONE"
               THEN Abandon(r)
               ELSE /\ local' = [local EXCEPT ![r].todo = @ \ {i}, ![r].moved = @ \cup {i}]
                    /\ UNCHANGED <<pc, touched>>
  /\ UNCHANGED <<database, cache, locks, job, announced, overlapped>>

(* Mutant of ReleaseLock: no finally, an error leaves the lock held. *)
ReleaseLock_OnSuccessOnly(r) ==
  /\ pc[r] \in {"release", "giveUp"}
  /\ announced' = IF pc[r] = "release" THEN announced \cup {r} ELSE announced
  /\ locks' = IF pc[r] = "release" /\ locks[LockOf(r)] = r
                THEN [locks EXCEPT ![LockOf(r)] = NoRequest] ELSE locks
  /\ Goto(r, IF pc[r] = "release" THEN "commit" ELSE "rollback")
  /\ UNCHANGED <<database, cache, job, local, history>>

(* The end of the body: SprintUpdated is published, still inside the          *)
(* transaction; then, as on every error path, the finally block, which frees a *)
(* lock that r does hold.  RELEASE_LOCK fails with its connection, which takes *)
(* the lock along; the error of the finally block ends the transaction.       *)
ReleaseLock(r) ==
  /\ pc[r] \in {"release", "giveUp"}
  /\ announced' = IF pc[r] = "release" THEN announced \cup {r} ELSE announced
  /\ locks' = IF locks[LockOf(r)] = r
                THEN [locks EXCEPT ![LockOf(r)] = NoRequest] ELSE locks
  /\ \/ Goto(r, IF pc[r] = "release" THEN "commit" ELSE "rollback")
     \/ Faults /\ Goto(r, "rollback")
  /\ UNCHANGED <<database, cache, job, local, history>>

(* History: the completions that have read the velocity and not yet ended. *)
Touch(changed, r) ==
  touched' = [q \in Requests |->
    IF q # r /\ job[q].op = "complete"
         /\ pc[q] \in {"select", "update", "incomplete", "carry", "release", "commit"}
      THEN touched[q] \cup changed ELSE touched[q]]

(* The row once the UPDATE of the dirty columns is committed. *)
Dirty(r) == IF local[r].wrote THEN local[r].cols ELSE {}

(* Mutant of Saved: the row is replaced by the dirty columns alone. *)
Saved_Partial(r) == [c \in Dirty(r) |-> local[r].target[c]]

Saved(r) ==
  LET row == sprints[job[r].sprint] IN
    [status |-> IF "status" \in Dirty(r) THEN local[r].target.status ELSE row.status,
     velocity |-> IF "velocity" \in Dirty(r) THEN local[r].target.velocity ELSE row.velocity]

(* Mutant of Commit: the cached list is not deleted. *)
Commit_NoInvalidation(r) ==
  /\ pc[r] = "commit"
  /\ sprints' = [sprints EXCEPT ![job[r].sprint] = Saved(r)]
  /\ issues' = [i \in Issues |->
       IF i \in local[r].moved THEN [issues[i] EXCEPT !.sprint = Dest(r, i)] ELSE issues[i]]
  /\ Reply(r)
  /\ UNCHANGED <<cache, locks, overlapped>>

(* COMMIT makes the sprint and the moved issues visible and frees their rows. *)
Commit(r) ==
  /\ pc[r] = "commit"
  /\ sprints' = [sprints EXCEPT ![job[r].sprint] = Saved(r)]
  /\ issues' = [i \in Issues |->
       IF i \in local[r].moved THEN [issues[i] EXCEPT !.sprint = Dest(r, i)] ELSE issues[i]]
  /\ local' = [local EXCEPT ![r] = Fresh]
  /\ Goto(r, "del")
  /\ Touch(local[r].moved, r)
  /\ UNCHANGED <<cache, locks, job, announced, overlapped>>

Rollback(r) ==
  /\ pc[r] = "rollback"
  /\ Reply(r)
  /\ UNCHANGED <<database, cache, locks, overlapped>>

(* A statement fails: a fault, or the wait for a row lock times out. The error *)
(* leaves the body through the finally block; one from GET_LOCK itself or from *)
(* COMMIT goes straight to the rollback.                                       *)
Blocked(r) ==
  \/ pc[r] = "update" /\ local[r].cols # {} /\ SprintHeld(job[r].sprint, r)
  \/ pc[r] = "carry" /\ \E i \in local[r].todo : IssueHeld(i, r)

Fail(r) ==
  /\ Faults \/ Blocked(r)
  /\ \/ pc[r] \in TxBody /\ Abandon(r)
     \/ pc[r] \in {"lock", "commit"} /\ Proceed(r, "rollback") /\ UNCHANGED local
  /\ UNCHANGED <<database, cache, locks, job, announced, overlapped>>

-----------------------------------------------------------------------------
(* The issue endpoints, seen from the sprints: a short transaction of their   *)
(* own replaces one row (a transition, a PATCH of sprintId, a soft delete, or *)
(* a save that brings an old row back).                                       *)
WriteIssue(i, row) ==
  /\ row # issues[i]
  /\ row.sprint # NoSprint => sprints[row.sprint].status # "NONE"
  /\ ~IssueHeld(i, NoRequest)
  /\ issues' = [issues EXCEPT ![i] = row]
  /\ Touch({i}, NoRequest)
  /\ UNCHANGED <<sprints, cache, locks, pc, job, local, announced, overlapped>>

-----------------------------------------------------------------------------
(* What a request does if nothing fails but its waits for row locks. *)
Progress(r) ==
  \/ QueryList(r) \/ FillList(r) \/ InvalidateList(r)
  \/ GetLock(r) \/ FindById(r) \/ FindActive(r)
  \/ GetVelocity(r) \/ SaveSelect(r) \/ SaveUpdate(r) \/ GetIncompleteIssues(r)
  \/ CarryOver(r) \/ ReleaseLock(r) \/ Commit(r) \/ Rollback(r)
  \/ Blocked(r) /\ Fail(r)

Work(r) == Progress(r) \/ Fail(r)

Ask(r) ==
  \/ "list" \in workload.ops /\ \E p \in Projects : ListSprints(r, p)
  \/ "create" \in workload.ops /\ \E s \in Sprints \cap workload.sprints : CreateSprint(r, s)
  \/ "start" \in workload.ops /\ \E s \in Sprints \cap workload.sprints : StartSprint(r, s)
  \/ /\ "complete" \in workload.ops
     /\ \E s \in Sprints \cap workload.sprints, carry \in SUBSET (Issues \cap workload.issues),
           next \in (Sprints \cap workload.sprints) \cup {NoSprint} :
          /\ carry = {} => next = NoSprint   \* the code looks at next for carried issues only
          /\ CompleteSprint(r, s, carry, next)

Next ==
  /\ \/ \E r \in Requests : Ask(r) \/ Work(r)
     \/ \E p \in Projects : ExpireList(p)
     \/ \E i \in Issues \cap workload.issues, row \in IssueRow : WriteIssue(i, row)
  /\ UNCHANGED workload

(* A request that got under way is driven on by Node's event loop and MySQL's *)
(* answers.  Nobody has to send requests, and nothing has to expire.          *)
Fairness == \A r \in Requests : WF_vars(Progress(r) /\ UNCHANGED workload)

Spec == Init /\ [][Next]_vars
FairSpec == Spec /\ Fairness
-----------------------------------------------------------------------------
(* Properties. *)

TypeOK ==
  /\ sprints \in [Sprints -> SprintRow]
  /\ issues \in [Issues -> IssueRow]
  /\ lists \in [Projects -> Pages]
  /\ locks \in [LockNames -> Requests \cup {NoRequest}]
  /\ pc \in [Requests -> Steps]
  /\ job \in [Requests -> Job]
  /\ local \in [Requests -> Local]
  /\ announced \subseteq Requests
  /\ touched \in [Requests -> SUBSET Issues]
  /\ overlapped \subseteq Projects
  /\ staled \subseteq Projects

ActiveSprints(p) == {s \in SprintsOf(p) : sprints[s].status = "ACTIVE"}

(* SprintService.ts:46: only one ACTIVE sprint per project at a time. The code *)
(* does not keep this when two starts of a project overlap.                  *)
OneActiveSprint == \A p \in Projects : \A s, t \in ActiveSprints(p) : s = t

(* Two ACTIVE sprints in a project come from nothing but two overlapping     *)
(* starts: completions, even doubled, stale or failing, never produce them.  *)
OneActiveUnlessOverlap ==
  \A p \in Projects \ overlapped : \A s, t \in ActiveSprints(p) : s = t

Board == INSTANCE SprintBoard WITH board <- [s \in Sprints |-> sprints[s].status]

(* While no two starts of a project have overlapped, its committed sprints     *)
(* evolve exactly by the indivisible create, start and complete of SprintBoard: *)
(* stale reads across connections, doubled completions and failed commits      *)
(* included, COMPLETED is final and a start commits only with no other ACTIVE.  *)
FollowsBoard == [][\A p \in Projects \ overlapped' : Board!ProjectStep(p)]_vars

(* models/Sprint.ts:34: the velocity is stored at completion, and null before.  *)
VelocityIffCompleted ==
  \A s \in Sprints : ProjectOf[s] \notin overlapped =>
    (sprints[s].velocity # NoVelocity <=> sprints[s].status = "COMPLETED")

(* An advisory lock belongs to a request inside the transaction that took it:  *)
(* no path, failed ones included, returns a connection that still holds one.   *)
NoLeakedLock ==
  \A n \in LockNames : locks[n] # NoRequest =>
    /\ LockOf(locks[n]) = n
    /\ pc[locks[n]] \in TxBody \cup {"release", "giveUp"}

(* A completion splits the sprint: of the issues nobody else wrote since the   *)
(* velocity was read, each one is either counted or carried over, never both   *)
(* and never neither.                                                          *)
CompletionSplitsSprint ==
  \A r \in Requests : job[r].op = "complete" /\ pc[r] \in {"release", "commit"} =>
    \A i \in Issues \ touched[r] :
      /\ ~(i \in local[r].target.velocity /\ i \in local[r].moved)
      /\ issues[i].sprint = job[r].sprint /\ issues[i].state # "deleted" =>
           i \in local[r].target.velocity \cup local[r].moved

(* Every request is answered although locks are contended and rows are held,  *)
(* as long as the pool is larger than the number of open transactions.        *)
EveryRequestAnswered == \A r \in Requests : pc[r] # "idle" ~> pc[r] = "idle"

(* SprintService.ts:20: the cached list is invalidated on create, start and        *)
(* complete.  One that differs from the table waits for its DEL, was stored by a     *)
(* reader whose query a write had overtaken, or has outlived a DEL that failed.     *)
ListsCurrent ==
  \A p \in Projects \ staled :
    \/ lists[p] \in {NoList, ListOf(p)}
    \/ \E r \in Requests : pc[r] = "del" /\ job[r].project = p
=============================================================================
