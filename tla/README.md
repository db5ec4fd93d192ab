# Verification of the project management platform

TLA+ models of the platform's server (`src/src`), TLC configurations that check
them on small instances, and TLAPS proofs of what matters most for every size.

The server is a Koa application on Node.js. Any number of instances share one
MySQL database (through TypeORM), one Redis and one SQS queue. A handler is a
chain of awaited queries, so two requests interleave at every `await`, on one
instance as well as on two. The models take exactly these steps: **one action
per awaited statement**, with the code between two awaits folded into the action
that follows or precedes it. Commands a process sends to Redis on its one
connection are executed in the order sent; where that order matters, they wait in a
queue of the model.

## 1. Inventory

| Part | State | Operations | Talks to | Hard behaviour |
|---|---|---|---|---|
| Sprints (`modules/sprints`) | table `sprints`; Redis `sprints:{project}`; MySQL advisory locks | list, create, start, complete | issues (carry-over, velocity), event bus | reads on a second connection while the transaction holds the first; lock released before COMMIT; GET_LOCK's result ignored; pool exhaustion; failing commits |
| Issue commands (`modules/issues/IssueCommandService`) | table `issues` (soft delete, version) | create, update, transition, delete | keys, workflow, event bus, caches | read, modify, save of whole entities; versions that are not enforced; undeletion |
| Issue keys (`IssueKeyGenerator`) | table `issue_key_counters` | next | MySQL | row lock until COMMIT, gaps |
| Workflow (`modules/workflow`) | transitions and statuses (never changed by a route) | transition, hooks, automatic actions | issues, event bus | WIP count and write are two statements; an action that fails after the commit |
| Issue queries (`IssueQueryService`) | Redis board, entity, index entries | board, get, list | caches | read then set against write then delete |
| Caches (`infrastructure/cache`) | Redis keys with TTL | get, set, del, pattern delete, indexes | | partial indexes that look complete |
| Notifications (`modules/notifications`) | table `notifications`; circuit breaker in Redis and memory; SQS | deliver, poll, list, mark read | event bus, SQS | at-least-once delivery, breaker shared by two counters |
| Event bus (`core/events`) | subscribers | publish, subscribe | everything | handlers run at once; errors logged |
| Activity (`modules/activity`) | table `activity_logs` | log, list | event bus | two subscriptions; a cursor cut to milliseconds |
| WebSocket (`modules/websocket`) | rooms; replay buffer and presence in Redis | connect, disconnect, broadcast, replay, heartbeat, close | event bus | replay against live events; presence per user, not per socket |
| Rate limiter (`core/middleware`) | a Redis sorted set per address | one check per request | | prune, count and record are three commands |
| Accounts (`modules/auth`, `auth.ts`) | table `users`; revoked tokens in Redis | register, login, logout, authenticate | | expiry between two checks; two registrations of one address |
| Projects and roles (`modules/projects`, `rbac.ts`) | tables `projects`, `project_members`; roles and lists in Redis | create, update, delete, members, role check | caches | two saves without a transaction; a role cached after its removal |
| Comments (`modules/comments`) | table `comments` | create, update, delete, list | event bus | find then save; cursors |
| Custom fields (`modules/customFields`) | definitions and values | CRUD | projects | find then save; two deletions without a transaction |
| Search (`modules/search`) | | full-text query | | |
| Server (`server.ts`) | in-flight counter | start, shutdown | all | drain deadline |
| Errors, validation, logging, metrics, health, config, migrations, seed | none that others read | | | |

What makes the parts correct, in a sentence each: one ACTIVE sprint per project,
final completions and a velocity that fits the carry-over; issues whose status
follows the workflow and whose fields change only when a request names them; keys
used once; bounded columns; caches that heal; notifications that are neither lost
nor multiplied without bound; subscribers that end up knowing the last state;
limits exceeded by a bounded amount; cached roles that are true; tokens that stay
revoked; errors that leave nothing half written; shutdowns that end, and end no request. `PROJECT.json` lists the
hazards line by line.

## 2. Modules

| Module | Kind | What it is |
|---|---|---|
| `SprintBoard` | abstract | sprints of a project with indivisible create, start, complete |
| `SprintLifecycle` | detailed | `SprintService` and `SprintRepository` statement by statement |
| `SprintLifecycleProofs` | proofs | theorems about `SprintLifecycle`, that it implements `SprintBoard` among them |
| `MCSprintLifecycle` | instance | two projects, three workloads, symmetry of requests and sprints |
| `IssueLife` | abstract | one issue with indivisible create, edit, move, delete |
| `IssueCommands` | detailed | `IssueCommandService`, `IssueKeyGenerator`, `WorkflowEngine`, hooks, automatic actions |
| `IssueCommandsProofs` | proofs | theorems about `IssueCommands`, that it implements `IssueLife` where requests do not overlap among them |
| `MCIssueCommands` | instance | a three-column workflow, WIP limits, three workloads, symmetry |
| `IssueCaches` | detailed | `IssueManager`'s invalidations, `IssueQueryService` and the Redis caches between them |
| `IssueCachesProofs` | proofs | theorems about `IssueCaches` |
| `MCIssueCaches` | instance | issues created a second apart, symmetry of requests |
| `Comments` | detailed | `CommentService` and `CommentRepository`: post, edit, delete, list |
| `Notifications` | detailed, extends `Comments` | `NotificationService`, circuit breaker, producer, queue and consumer, crashes |
| `NotificationsProofs` | proofs | theorems about both |
| `MCNotifications` | instance | five workloads |
| `HttpServer` | detailed | the life of the processes: requests, count, shutdown |
| `ActivityFeed` | detailed, extends `HttpServer` | the activity log and its feed |
| `Realtime` | detailed, extends `ActivityFeed` | the event bus, rooms, replay buffer, presence, heartbeats; composes the three |
| `RealtimeProofs` | proofs | theorems about shutdown, presence, replay, the log and its feed |
| `MCRealtime` | instance | six workloads, two of them also by themselves |
| `RateLimiter` | detailed | a call and the limiter |
| `Accounts` | detailed, extends `RateLimiter` | users, tokens, `authenticate` |
| `Projects` | detailed, extends `Accounts` | projects, members, `requireProjectRole`, both caches |
| `CustomFields` | detailed, extends `Projects` | definitions and values |
| `Access` | composition, extends `CustomFields` | a call from the first middleware to the answer |
| `AccessProofs` | proofs | theorems about revoked tokens and the rate limiter |
| `HandlersProofs` | proofs, extends `AccessProofs` | theorems about cached roles, types, the answers 500 and what they leave behind |
| `MCAccess` | instance | workloads for the limiter, the tokens, and each group of handlers that can collide; symmetry of calls |
| `OrderLemmas` | lemmas | orders on finite sets, which the proofs about pages share |

The last three families are chains: each module adds the variables and the actions of
its component, and the last one composes them into one next-state relation, so that a
comment's publication *is* the beginning of its notifications, an event's row is lost
with the process that shuts down, and a call goes through limiter, token and role
before its handler runs. A *workload* is what the clients of one behaviour may do, and
which faults may happen; it is chosen in `Init` and never changes. It keeps the instances
small without a cfg for each question, and no action is guarded by anything else that the
code does not have.

### SprintLifecycle

`sprints` and `issues` hold *committed* rows. A request `r` walks through the
steps `pc[r]`; `local[r]` keeps what it has read and what it has written but not
committed (`cols`, `wrote` and `moved` stand for row locks and dirty columns).

| Code | Actions |
|---|---|
| `list` (22-29) | `ListSprints`, `QueryList`, `FillList`; `ExpireList` is the TTL |
| `create` (35-42) | `CreateSprint`, `InvalidateList` |
| `start` (52-81) | `StartSprint`, `GetLock`, `FindById`, `FindActive`, `SaveSelect`, `SaveUpdate`, `ReleaseLock`, `Commit`, `InvalidateList` |
| `complete` (95-137) | `CompleteSprint`, `GetLock`, `FindById`, `GetVelocity`, `SaveSelect`, `SaveUpdate`, `GetIncompleteIssues`, `CarryOver` (once per issue), `ReleaseLock`, `Commit`, `InvalidateList` |
| any error | `Fail` or a failed guard: `Abandon`, `ReleaseLock` (the `finally`), `Rollback` |
| the issue endpoints | `WriteIssue`, one committed row at a time |

TypeORM's `save` is two statements: a SELECT whose result is compared with the
entity, and an UPDATE of the columns that differ (`cols`). A request enters
`StartSprint` with its transaction's connection in hand, since one that waits for
it has done nothing. `GetLock` goes on whether it got the lock or not, as the code
does; the ten-second wait is time, which the model does not have. RELEASE_LOCK in the
`finally` can fail, which in practice is a dead connection: then MySQL frees the lock, and
the transaction is rolled back.
`velocity` is the *set* of issues whose points were summed.

History variables: `overlapped` (projects two of whose starts were between GET_LOCK
and the end of their transaction at once), `touched[r]` (issues others wrote since `r` read
the velocity) and `staled` (projects whose cached list was stored by a reader a write had
overtaken, or has outlived a DEL that failed). No action reads them.

### IssueCommands

`rows[i]` is the row of issue `i` (state, status, sprint, points or none, assignee,
version, key). `counter` is the project's key counter. `announced` is what a
subscriber that follows the status events believes.

| Code | Actions |
|---|---|
| `create` (34-69), `IssueKeyGenerator.next` | `Post`, `DrawKey`, `CommitKey`, `Insert`, `Publish` |
| `update` (81-126) | `Patch`, `FindForUpdate` or `NotFound`, `SaveSelect`, `WriteUpdate`, `Publish` |
| `transition` (133-144), `WorkflowEngine.transition` | `Transition`, `FindForTransition`, `Hooks`, `WriteTransition`, `AutoAction`, `Publish` |
| `delete` (150-155) | `Delete`, `FindForDelete`, `WriteDelete` |
| `SprintService.complete` carry-over | `CarryOver` |
| any failing query | `Fail` |

`Saved` says what TypeORM's `save(Issue, {...issue, ...changes, version})` does: it
reads the row *including soft-deleted ones*, updates the columns that differ from
the request's copy (`deletedAt` and `version` among them), and increments the
version only when the version did not differ. It never raises the optimistic-lock
error the `catch` at line 117 waits for.

History variables: `origin` (status at creation) and `overlapped` (issues two
requests, or a request and a completing sprint, were at work on at once).

### IssueCaches

`rows[i]` is an issue as far as caches tell issues apart: whether it lives, its sprint
and how often it was written (`rev`). A write is one step here, `IssueCommands` being
where it is taken apart. `board`, `entity` and `index` are the Redis keys; a board is
the function from issues to the rows it shows. `walk[r]` is what a client that lists a
sprint page by page remembers.

| Code | Actions |
|---|---|
| `IssueManager.create`, `update`, `transition`, `delete` (27-104) | `Create`, `Update`, `Transition`, `Delete`, then `Scan`, `DropEntity`, `MaintainIndex`, `Sweep`, and `Scan` and `Sweep` again until SCAN's cursor is 0; `SweepFails` |
| `getBoardView` (36-90) | `GetBoard`, `QueryBoard`, `WarmIndex`, `FillBoard` |
| `getById` (101-110) | `GetIssue`, `FindIssue`, `KeepEntity` |
| `list` by sprint (124-183) | `ListIssues`, `Exists`, `RangeByScore`, `MGet`, `FetchIssues` |
| `listFromDb` (185-234) | `PageFromDb`, `IndexPage` |
| TTLs | `ExpireBoard`, `ExpireEntity`, `ExpireIndex` |
| `SprintService.complete` (115-120) | `CompleteMoves` |

The three operations of `Promise.allSettled` are sent on one connection in one tick,
so Redis executes the first SCAN, the DEL and the index command in that order with
others' commands in between. One answer of SCAN holds any of the keys it has not come
to. A cache hit changes nothing and has no action. An index is a sorted set; one that
`addIssue` creates has no TTL, and one that loses its last member is no key any more.
Over HTTP the backlog of a list is `?sprintId=` with nothing after it, which has cache
keys of its own (`Blank`).

`excused` is history: the entries that may be stale because a reader stored what it
had read before a write, a command failed, or a sprint completed. Every other stale
entry would be a missing invalidation.

### Comments and Notifications

`comments` is the table, `copy[r]` the entity an update has read, `walk[r]` what a
client that lists a thread remembers. `saved` counts rows of `notifications` per
*delivery* (a comment and a mentioned user); `handler[c]` is the subscriber's run for
comment `c`; `queue` is SQS with its dead letters; `work[s]` is the batch of the
consumer of server `s`.

| Code | Actions |
|---|---|
| `CommentService.create` (34-65) | `CreateComment`, `FindParent`, `ResolveHandles`, `InsertComment`, `Publish` |
| `update` (74-82), `delete` (89-94) | `EditComment` or `DeleteComment`, `FindComment`, `SelectRow`, `WriteRow` or `SoftDelete` |
| `list` (102-109) | `ListComments`, `ReadPage`, `ReadReplies`, `NextPage`, `LeaveList` |
| `NotificationService` (24-66), `CircuitBreaker` | `ReadCircuit`, `SaveNotification`, `TripCircuit`, `EnqueueNotification`; `CircuitTimeout` is the key's TTL |
| `SqsConsumer.poll` (40-76) | `Poll`, `CheckCircuit`, `SaveQueued`, `DeleteMessage`; `VisibilityTimeout` |
| the process | `Crash`, `Restart` |

The breaker's key is in Redis and shared; its failure count is in one server's memory.
No command stores HALF_OPEN, so what `execute` does in that state (48-52) is dead code:
the count is never reset but by a restart, and after one opening a single failure opens
the circuit again. A message that is received while the circuit is open is left; the
queue hands it out `MaxReceives` times (`elasticmq.conf`), ten seconds apart, and the
circuit stays open for thirty, so messages may become dead letters
before it closes, although
`docs/learning/09-async-notifications-sqs-and-circuit-breaker.md:516` says they stay in the
queue until the database recovers. A reply's parent may be on another issue,
and may be a reply, which `list` then does not show.

History variables: `overlapped` (comments deleted while an update had read them),
`lost` (deliveries cut off by a crash or refused by the queue), `repeated` (deliveries
whose save or deletion failed or came late), `opened`.

### HttpServer, ActivityFeed and Realtime

| Code | Actions |
|---|---|
| `server.ts` (35-84) | `Arrive`, `KeepAliveEnds`, `Complete`, `Abort`, `Answer`, `Signal`, `Drained`, `DrainTimeout`, `Exit` within `Shutdown`, `Crash` within `Fall`, `Restart` |
| `ActivityService` (8-50) | `LogEvent` within `Publish`, `InsertEntry` |
| `ActivityRepository.listByProject` (24-58) | `AskFeed`, `ReadFeed`, `LeaveFeed` |
| `WebSocketService` (24-158) | `Connect`, `Disconnect`, `Vanish`, `Pong`, `Heartbeat`, `Shutdown`, `Broadcast` within `Publish` |
| its Redis commands | `Zadd`, `TrimByAge`, `TrimByRank`, `Zrange`, `Hset`, `Expire`, `Hdel`, `CommandFails`; `PresenceExpires` |
| a process that dies | `Die`; `Unhandled`, a rejection nobody handles; both are `Fall` |

`outbox[s]` holds the commands server `s` has sent and Redis has not executed. Live
events reach only the sockets of the process that published them. A command of the event bus that fails is logged (`CommandFails`);
one sent for a socket is a promise nobody awaits and nobody catches, and its rejection ends
the process (`Unhandled`). A request whose
client went away stays counted, since only `finish` lowers the count. `close()` of the
WebSocket server waits for its sockets, and stops the heartbeats that would drop dead
ones first. `kept[s]` are the connections that were busy when the shutdown of `s` began:
`httpServer.close` ends idle ones and lets these be, so they may bring further requests,
to be counted by the drain or, when it is over, by nobody (`late[s]`).

History variables: `overdue`, `late` and `cut` (drains that timed out, requests that came
after the drain, databases closed under a request), `owed`, `unstored`, `unlogged`, `blurred` (users whose presence may be wrong:
a tab closed beside another, a process that died, a failed command, the TTL).

### RateLimiter, Accounts, Projects, CustomFields and Access

`call[q]` is a request on its way; `call[q].step` is the statement it is at. `clock`
counts half seconds. `sent[q]` holds commands to Redis that are not executed yet, since
`rbac.ts` and some invalidations do not await them. A request is one that gets past paths
and Joi schemas (`Complete`): it has the fields its operation demands.

| Code | Actions |
|---|---|
| `rateLimiter` (16-44) | `Arrive`, `Prune`, `Count`, `Record`, `Expire`; `Tick` |
| `authenticate` (17-36) | `Verify`, `CheckRevoked` |
| `AuthService` | `FindEmail`, `SaveUser`; `CheckPassword`, `SignToken`; `Logout` |
| `requireProjectRole` (25-48) | `CachedRole`, `ReadRole`, `Admit` |
| `ProjectService` (20-116) | `FindKey`, `SaveProject`, `SaveAdmin`; `FindProject`, `FindMembership`, `UpdateProject`, `DeleteProject`; `CachedList`, `QueryList`; `FindMember`, `SaveMember`, `RemoveMember`, `ListMembers` |
| the caches | `SetRole`, `DelRole`, `WriteList`, `CommandFails`, `RoleExpires`, `ListExpires` |
| `errorHandler` (6-28) | `Fails` |
| `CustomFieldService` (19-94) | `ListDefinitions`, `CreateDefinition`, `FindDefinition`, `UpdateDefinition`, `DeleteValues`, `DeleteDefinition`; `ListValues`, `CheckValue`, `FindValue`, `SaveValue`, `ClearValue` |

Every awaited query and every awaited command to Redis may fail (`Fails`), the limiter's
and those of both middlewares among them: nobody catches that but `errorHandler`, which
answers 500. What the step would have done is not done, and what the call wrote before
stays. Commands that nobody awaits, or whose failure is swallowed, fail in `CommandFails`.

The limiter's four commands are not atomic, and its key has a TTL that is renewed only after
a hit was recorded. `hits` are the members of the sorted set; of a window, the limit and
three calls for each process, less one, may be let through: for each process one that
counted before the others recorded, one that was recorded when the key was about to
expire, and one that came in time and counted late, when a later call had pruned what it
should have counted. The bound is tight: with two processes a limit of 2 lets 7 calls
through.

What the models made visible besides: `update` saves the whole row it
found, so a project or definition deleted meanwhile comes back; deleting a project
invalidates neither cache; `addMember` does not invalidate the role cache although
`rbac.ts` (19-21) says so, which is harmless, because no role is cached before one
exists (proved, see `CachedRolesTrue`); a definition whose deletion fails, at a foreign key
or by itself, has already lost its values, and a project whose second save fails has no
administrator (the two exceptions of `AllOrNothing`); the endpoints of values and some of issues and sprints
authenticate only.

History variables: `recorded` and `admitted` (the members of the limiter's set there ever were, and those of
calls that were let through or may yet be), `wrote` (calls that have written and are not
answered), `loggedOut` and
`call[q].late` (tokens whose logout was answered, calls that came after it), `misfilled`
(roles written by a call that had read the former role, or whose invalidation failed),
`disturbed` (calls whose rows another call has written since they read them).

## 3. Runs

| Run | Instance | Properties | Shows |
|---|---|---|---|
| `sprints` | 2 requests, 3 sprints in 2 projects, 1 issue, faults; 1,587,892 states | `TypeOK`, `OneActiveUnlessOverlap`, `VelocityIffCompleted`, `NoLeakedLock`, `CompletionSplitsSprint`, `ListsCurrent`, `FollowsBoard` | without overlapping starts the service implements `SprintBoard`, doubled completions, stale reads and failing commits included; an untouched issue is counted or carried, never both or neither; a stale list is due to a late fill or a failed DEL |
| `sprint_liveness` | 2 requests, pool of 3, fairness; 206,080 states | `EveryRequestAnswered` | no lasting wait on locks, rows or connections |
| `two_active` | the first workload of `sprints` | `OneActiveSprint` **violated** | finding 1 |
| `issues` | 2 requests; 1 issue, all endpoints, a completing sprint, faults; or 3 issues, a column limited to 1; 909,618 states | `TypeOK`, `StatusReachable`, `SubscribersAgree`, `KeysDrawnOnce`, `WipBounded`, `FollowsLife`, `SprintAsAsked` | what survives every race; full atomicity, and sprints that change only as a body or a completion asks, without one; unique keys; a limit exceeded by at most one |
| `stale_update` | 1 request, 1 issue | `StaleWriteRefused` **violated** | finding 2 |
| `caches` | 2 requests, 2 issues, 1 sprint, all endpoints, faults; 2,042,881 states | `TypeOK`, `EntitiesCurrent`, `BoardsCurrent`, `DbPagesComplete` | no answered write is missing from a cached issue or board but for the excused; pages from the database are complete but for issues created within a millisecond that a page ends in |
| `pages` | 1 client, 2 issues, no writes | `PagesComplete` **violated** | finding 3 |
| `notifications` | 2 requests, 2 servers, 4 comments, 2 users, a crash, faults, fairness; 161,609 states | `TypeOK`, `NotifiedCommentExists`, `MentionsNotLost`, `NotifiedOnce`, `CircuitOpensInTime`, `DeletedStaysDeleted`, `ThreadPagesComplete`, `MentionsSettle` | a mention is of a real comment, told once but for failed or late calls, lost only with a server or by a queue that refuses it, and comes to rest; what deletion and paging of comments promise |
| `realtime` | 2 requests, 2 servers, 3 events, 7 rows, 3 tabs of 2 people, crashes, faults, fairness; 269,787 states | `TypeOK`, `RequestsDrained`, `ReplayClosesGap`, `PresenceTellsTabs`, `FeedMissesOnlySameMilli`, `VanishedDropped`, `ShutdownEnds` | replay and live events leave no gap within a process; whom presence is wrong about; the feed skips only within a millisecond; a shutdown ends, and cuts off no request it could have counted |
| `log_once` | the feed's workload of `realtime` | `LoggedOnce` **violated** | finding 4 |
| `late_request` | the shutdown's workload of `realtime` | `DatabaseOutlivesRequests` **violated** | finding 5 |
| `access` | 2 calls, 3 users, 2 projects, 2 fields, faults; ACCESS_STATES states | `TypeOK`, `RateBounded`, `RoleCacheTrue`, `LoggedOutRefused`, `RefusalsAreRaces`, `AllOrNothing` | by how much the limit can be exceeded; when a cached role or a revoked token may still count; that a 500 is a failing query or command, a race, or one of two requests that always end so; that an error leaves nothing written but in two places |

**Bounds.** Two requests give every pairwise interleaving of two handlers; the
hazards listed are pairwise. Three sprints in two projects let a second start
compete, and show that projects do not disturb each other. A workload's `versions` stops
clients from asking for an issue once its version is 2 (creation, one change and one
more under way), or 3 where issues are only moved; `keys` stops creations. The workload
of three issues leaves PATCH and faults out to stay small; that of one issue written while
its sprint completes has one sprint, and lists are read of one project. In `caches` one issue is written twice at most beside
one that is only read, in one sprint whose board is asked for; two pages of one issue
are the smallest list that needs a cursor. The pool of three is the smallest that lets
two transactions each have a second connection; with two, `EveryRequestAnswered` fails, which is the
pool-exhaustion hazard of `SprintRepository.ts:11`. Symmetry is over requests, and
over sprints or issues the instance does not tell apart; the liveness runs use none.

In `notifications`, `Threshold` 2 (the code's is 5) is the smallest with a failure that
does not open the circuit and one that does; `MaxReceives` 3 is the queue's own; a page
of 2 in a thread of 4 needs a second page, and two comments are created within one
millisecond. In `realtime`, a buffer of two events, a window of 2 ms and three events make
both trims drop something; seven rows with a page of two make the feed end a page
within a millisecond and at one; two tabs of one user show what presence per user
means; `MaxConnections` bounds how often tabs connect and `MaxTime` the clock. In
`access`, two calls and a limit of two in a window of one second reach the bound of
`RateBounded`, which is tight; a token lives two seconds, so that it can expire between
any two steps; each workload has the two calls ask for what can collide (two registrations
of one address, removal against role check, deletion against save). The limiter's two calls
run without faults to the end of the second window, where the bound is reached, and with
faults through the first; all other workloads have faults. The issue runs, `notifications`,
the three of `MCRealtime` and `access` end when the bounds are reached, so they
do not check for deadlock; the sprint runs do not end of themselves.

**Fairness.** `sprint_liveness` assumes weak fairness of each request's own next
step (Node's event loop and MySQL answer; a lock wait ends in a timeout, which is
`Fail` under `Blocked`). `notifications` assumes it of handlers and
consumers (awaited calls are answered, if only by an error), of restarts (the container's
restart policy) and of visibility timeouts (the queue's clock). `realtime` assumes it, for each
server, of the heartbeat's interval, of the Redis connection, of the end of a drain (the
loop or its deadline) and of the rest of `shutdown`. Nobody is assumed to send requests,
to close or to keep a socket, and no fault is assumed to happen or to stop.

## 4. Findings

1. **Two ACTIVE sprints** (`two_active`). The lock is named `sprint-start-{sprintId}`,
   so starts of *two* sprints never exclude each other; it is released before COMMIT,
   so even two starts of one sprint both pass their guards. `SprintService.ts:46` and
   `docs/learning/08-sprints-and-project-management.md:818` promise one.
   `OneActiveUnlessOverlap` shows that overlapping starts are the only cause.
2. **Stale updates are saved** (`stale_update`). A PATCH with an old version is
   written and sets the version back, against `IssueCommandService.ts:73` and
   ADR-002. `StatusReachable` and `FollowsLife` delimit the damage.
3. **No second page** (`pages`). A sprint's first page comes from the database, fills
   the index and has an ISO date as its cursor; the second request finds the index
   warm and gives Redis that date as a score, which it refuses, against
   `IssueIndexCache.ts:13`. `DbPagesComplete` shows that the database's own pages fit
   together but for one gap: a cursor holds the milliseconds of a `createdAt` that has
   microseconds (`Clipped`), so an issue created earlier in the millisecond of a page's
   last one can be skipped. (The same index, filled with one page or by `addIssue` alone, also counts
   as complete.)
4. **Every event is logged twice** (`log_once`). `ActivityService` subscribes in its
   constructor, and is constructed by the bootstrap (`server.ts:24`) and by
   `ActivityController.ts:7`, against
   `src/migrations/1781070144604-create-collaboration-tables.ts:17`, ADR-003 and
   `docs/learning/06`. `EventsLogged` says what holds: an event has a row unless both
   inserts failed.
5. **A request may lose its database in a shutdown that is in time** (`late_request`).
   `httpServer.close` (`server.ts:65`) ends idle connections only; one that was busy may
   bring a request after the drain, while the WebSocket server closes, and
   `AppDataSource.destroy` does not wait for it, against
   `docs/learning/01-project-architecture-and-request-lifecycle.md:258`.
   `RequestsDrained` shows that such late requests are the only ones.

## 5. Proofs

All theorems hold for every set of requests, servers, sprints, issues, statuses, clients,
users and tokens, every workflow, limit, threshold and page size. Each rests on the named
assumptions of its modules and on nothing else:

| Assumption | Says |
|---|---|
| `SprintAssumption`, `IssueAssumption` | finitely many requests (and issues); every sprint has a project; a workflow is a relation on statuses; the models' own values (`None`, ...) are none of the program's |
| `CachesAssumption` | finitely many issues, each created at a time; a page holds something; `None` and `Blank` are no sprint and no cursor |
| `CommentsAssumption`, `NotificationsAssumption` | finitely many comments, servers and users, and some server, user and issue; each comment created at a time; a page holds something; a threshold and a number of receives above zero |
| `ServerAssumption`, `FeedAssumption`, `RealtimeAssumption` | finitely many requests and clients, a server; finitely many rows, each created at a time; a buffer that holds something |
| `LimiterAssumption`, `AccountsAssumption`, `AccessAssumption` | finitely many calls, at least one; a limit, a window and a token's life above zero; members at first are of projects that exist, which the foreign key demands; a call has the fields its path and schema demand (`Complete`) |

Bounds that TLC needs (`MaxTime`, a workload's `versions`, `keys` and crashes) are any numbers there,
and failures are not bounded at all.

| Theorem | Statement | Argument |
|---|---|---|
| `TypeCorrect` | `Spec => []TypeOK` | part of the inductive invariant `IInv` |
| `OneActive` | `Spec => []OneActiveUnlessOverlap` | `TypeOK` is not enough: `IInv` adds what each step of a start guarantees. A start past `findActive` in a project that has not overlapped is the only one under way, so no other sprint of it can become ACTIVE before its commit |
| `ImplementsBoard` | `Spec => FollowsBoard` | only `CreateSprint` and `Commit` change `sprints`; by `IInv` a commit's old status still is the one its guard read, so it is a `Start`, a `Complete` or a stutter of `SprintBoard` |
| `LocksFreed` | `Spec => []NoLeakedLock` | each holder's step lies between GET_LOCK and the `finally` |
| `VelocityStored` | `Spec => []VelocityIffCompleted` | `IInv2` adds that the columns found to differ hold status and velocity together, or neither |
| `SprintSplit` | `Spec => []CompletionSplitsSprint` | `SplitInv`: what a completion has read of the issues nobody wrote since (`touched`) is so still; while it carries over, an open issue is moved or yet to be moved |
| `ListsStayCurrent` | `Spec => []ListsCurrent` | inductive with `IInv`, which says whose project a request works for: the steps that change a list of the table lead to the DEL, and only that step leads away from it |
| `IssuesTypeCorrect` | `Spec => []TypeOK` | `Base` = `TypeOK`, where each step's request stands (`PlaceInv`), and that an issue being created is nobody else's (`CreateInv`) |
| `KeysUnique` | `Spec => []KeysDrawnOnce` | `KeyInv`: keys in use or drawn are at most the counter, the one being drawn is the next, one is drawn at a time |
| `StatusesReachable` | `Spec => []StatusReachable` | `ReachInv`: for every closed set of statuses an issue was created in, its row, old copies about to be saved and targets of checked transitions stay in it |
| `WipLimited` | `Spec => []WipBounded` | the set of issues in a column, or about to enter it, grows only when the hook finds room; then it is bounded by the column plus one issue per request |
| `ImplementsLife` | `Spec => FollowsLife` | `LInv`: while only one request is at work on an issue, what it has read is how the row still stands (`AccurateInv`), so the columns a save finds to differ are the body's, a checked transition starts where the row is, and each write is a step of `IssueLife` |
| `SprintKept` | `Spec => SprintAsAsked` | from `LInv` and the effect of each step on the row |
| `StatusAnnounced` | `Spec => []SubscribersAgree` | `KnownInv`: unless an event is still to come, the last status told is the row's |
| `EntitiesStayCurrent` | `Spec => []EntitiesCurrent` | with `StepInv` (what a request remembers at each step) and `CachedInv` (nothing is cached before it exists); a write's DEL comes before its reply |
| `BoardsStayCurrent` | `Spec => []BoardsCurrent` | each board is at every moment yet to be scanned, found or deleted, until the loop ends |
| `PagesFitTogether` | `Spec => []DbPagesComplete` | `WalkInv`: what a client of a quiet sprint has not seen comes after its cursor in the order of the query, or is `Clipped` by it; a page is the first of what comes after, so the next cursor, its last, does the same (`OrderLemmas`) |
| `TypesKept` | `Spec => []TypeOK` (`IssueCaches`) | `Shape`, `WalkInv` (a full page has a last element, so a cursor is one) and `TtlInv` (an index that is gone has no TTL left behind) |
| `NobodyToldOfNothing` | `Spec => []NotifiedCommentExists` | `IInv`: `CommentAdded` is published by a request whose comment is written (`CommentInv`), handlers are of written comments (`HandlerInv`), consumers work on messages there are (`DeliveryInv`) |
| `OnlyEditedComeBack` | `Spec => DeletedStaysDeleted` | an update past its find that holds a row deleted since has it in `overlapped` (`Knows` in `CommentInv`) |
| `MentionsAccounted` | `Spec => MentionsNotLost` | from `IInv`: a handler drops a mention in the step that saves, queues or loses it; a consumer that deletes has saved (`DeliveryInv`); a comment is published once (`PublishInv`) |
| `ToldOnce` | `Spec => []NotifiedOnce` | `OnceInv`: a mention that is not in `repeated` is pending, queued or saved, in this order; whoever works on its message is alone and finds it unsaved, and it can be received only when nobody works on it. That a handler tells nobody twice rests on texts that mention each user once (`Distinct`) |
| `ThreadsReadWhole` | `Spec => []ThreadPagesComplete` | `WalkInv`: while nobody writes, comments not seen come after the cursor, and every one seen came with all its replies |
| `CircuitOpens` | `Spec => []CircuitOpensInTime` | `TripInv`: a server whose count is at the threshold has opened the circuit or is about to. So while the circuit has never opened, every count is at most threshold - 1, and their sum over the servers at most that many times the servers (`SumBounded`) |
| `TypesKept` | `Spec => []TypeOK` (`Notifications`) | not the types but the bound on rows is the work: `TypeInv` counts the rows of a mention, and the consumers and the handler about to add one, against the receives of its message (`Saves`) |
| `DrainRespected` | `Spec => []RequestsDrained` | `Counted`: the count of a process is the number of requests it holds, aborted and late ones included; `Quiet`: one that closes without a timeout serves only requests that came since |
| `PresenceRight` | `Spec => []PresenceTellsTabs` | `PresenceInv`: a HSET to come is for a socket that is there, or an HDEL for it comes behind (`Told`); commands of one server keep their order, so the last about a user decides unless it is in `blurred` |
| `ReplayComplete` | `Spec => []ReplayClosesGap` | `StoredInv`: a published event is in the buffer, on its way, failed or rightly dropped; `GapInv`: one the client has still to hear of is found by its ZRANGEBYSCORE, whose server sent the ZADD before |
| `LoggedUnlessFailed` | `Spec => []EventsLogged` | `LogInv`: only published events are inserted, by the process that published them, and no insert that failed is still under way; so rows, inserts and failures of an event add up to the two services (`LoggedByEachService`), and an event without the first two has two failures |
| `FeedMisses` | `Spec => []FeedMissesOnlySameMilli` | `FeedInv`: rows not seen are past the cursor, or of its millisecond |
| `TypesKept` | `Spec => []TypeOK` (`Realtime`) | the parts of the three modules, with a cursor that is the last of a page |
| `CallsLimited` | `Spec => []RateBounded` | `RateInv` counts for each window the calls let through and those that may still be (`BoundAt`). While the window lasts, only what Redis forgot (`Lost`, at most one per process) and the calls past their count exceed the limit; when it is over no more calls come within it. What the expiry of the key forgets are calls that have not yet renewed it (`ExpiryAt`). A command that fails changes nothing but that its call no longer counts |
| `LateCallsRefused` | `Spec => LoggedOutRefused` | `LogInv`: the entry of a token that was logged out is in Redis for as long as the token lives, whichever way the two times are rounded |
| `CachedRolesTrue` | `Spec => []RoleCacheTrue` | `create` and `addMember` write a role and invalidate nothing. `RoleInv` shows why this is no harm: nobody has a role, stored, cached or on its way to the cache, in a project whose `create` is not over (`BegunInv`), and a role is only ever *added* where there is none |
| `TypesKept` | `Spec => []TypeOK` (`HandlersProofs`: `Access`) | `AccessInv`, all invariants of the two modules together and the types of the caches; a call has what its step needs (`CallTyped`) because requests do (`Complete`) |
| `ServerErrorsExcused` | `Spec => RefusalsAreRaces` | `RaceInv`: what a call has found before its save (`Found`) stands as long as nobody writes the rows it has read (`HasRead`, `Covered`), and whoever writes one puts it in `disturbed`; so a save meets a unique index or a foreign key only then, or in the cases the property names |
| `ErrorsLeaveNothing` | `Spec => AllOrNothing` | `WroteInv`: a call that has written and goes on is at one of three steps (`MidWrite`), of which one cannot fail and two are the exceptions |

**How orders and sums are proved.** A page is "the first k in the order of the query", and
its cursor the last of them. That a finite set has a first and a last element is not taken
from an induction on its size: `SmallestSet` in `OrderLemmas` says that of a nonempty set of
finite sets one has the fewest elements, and a statement about all finite sets holds because
a smallest set it fails of leads to a smaller one. `CircuitOpensInTime` sums over a set with
a fold, a recursive function of the community modules; that this function exists is shown
by giving one (the size of a disjoint union), and its bound by the smallest set that exceeds it.

**Model-checked only:** `EveryRequestAnswered`, `MentionsSettle`,
`VanishedDropped` and `ShutdownEnds`, since liveness under fairness is out of the prover's
reach. Every safety property that a passing run checks is a theorem. The five violated
properties are no theorems, of course: `OneActiveUnlessOverlap`, `FollowsLife`,
`DbPagesComplete`, `EventsLogged` and `RequestsDrained` say what is true beside each.

## 6. Plan

Done: sprints, issue commands, the caches of issues; comments and notifications; the
event bus, activity log, WebSocket service and shutdown; the rate limiter, accounts,
projects with their role cache, and custom fields. Every
safety property of the runs is proved. What could follow, in order:

1. The composition of `IssueCommands` with `IssueCaches`: today `IssueCaches` takes a
   write as one step and `IssueCommands` has no caches. A refinement from one to the other
   would let the theorems of both be cited together.
2. An abstract specification of the notifications (a set of mentions owed and told) that
   `Notifications` implements; `MentionsNotLost` and `NotifiedOnce` are its two halves.
3. Proofs of the lemmas for the temporal properties: that each fair step decreases a measure,
   which is what their liveness rests on.

## 7. Not modelled, and why

- Workflow administration, `updateMemberRole`, `listForUser` and `markAllRead`: no route
  calls them.
- Search: one read-only query. (`SearchRepository` passes one parameter more than the
  query has places, so what a client sees is an empty page.)
- Health, metrics, logging, correlation ids: nothing else reads them. Validation
  restricts what a call may ask, and error mapping is the status of an answer in `Access`.
- Configuration and the seed are static; of the migrations, the unique indexes, foreign
  keys and the precision of times are part of the models that need them.
- `HALF_OPEN` (see above), `pLimit` and the retries inside the AWS SDK, which are part of
  one call; the column `mentions`, which is written and never read.
- Sockets that name no project, filters of the feed and of issue lists, a WebSocket that is
  opened over a connection kept alive through a shutdown, and paging with
  `limit=1`, where a comment's cursor may never advance.
- In `Access`, a query or command that was executed although its answer is an error
  (`Notifications` and `SprintLifecycle` have those of their saves and commits), and the end
  of a process.
- `SprintUpdated` is published before its transaction commits (`SprintService.ts:66`).
  `Realtime` publishes events at any time, and `SprintLifecycle` has no subscribers, so
  no property is about that event of a start that is rolled back.
- Routers that share a prefix each authenticate a call again; it is modelled once.

Text, dates, priorities and formatting are abstracted away where they appear. Time is
in the models of `Access` (half seconds) and `Realtime` (the milliseconds of the replay
window), where the code computes with it; elsewhere a TTL or a timeout is an action that
may happen at any moment after what started it.
