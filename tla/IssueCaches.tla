----------------------------- MODULE IssueCaches -----------------------------
(***************************************************************************)
(* The Redis caches of one project's issues, shared by all servers: a      *)
(* board per sprint, issues by id, and per sprint an index of issue ids    *)
(* (src/src/modules/issues/IssueManager.ts, IssueQueryService.ts,          *)
(* src/src/infrastructure/cache).                                          *)
(*                                                                         *)
(* A write is one step here (IssueCommands takes it apart); what follows   *)
(* it, and the reads, are sequences of Redis commands and queries.  The    *)
(* index by status is written, never read, and left out.                   *)
(***************************************************************************)
EXTENDS Naturals, FiniteSets

CONSTANTS
  Requests,
  Issues,      \* uuids, as numbers for their order
  CreatedAt,   \* of each issue, in microseconds
  Sprints,
  Existing,    \* the issues there are at first, all in ...
  Home,        \* ... this sprint, or None
  PageLimit,
  Ops,         \* the endpoints clients call
  Asked,       \* the boards and lists they ask for
  Faults,      \* TRUE: a Redis command may fail
  Written,     \* bound: the issues that are written to ...
  MaxRev,      \* ... and how often
  None,        \* no sprint: the backlog; no cursor
  Blank        \* ?sprintId= with nothing after it: the backlog, under a key of its own

ASSUME CachesAssumption ==
  /\ Issues \subseteq Nat /\ IsFiniteSet(Issues) /\ CreatedAt \in [Issues -> Nat]
  /\ None \notin [form: {"score", "iso"}, ms: Nat, id: Issues]
  /\ None \notin Sprints /\ Blank \notin Sprints /\ Blank # None
  /\ Existing \subseteq Issues /\ Home \in Sprints \cup {None}
  /\ Written \subseteq Issues
  /\ Asked \subseteq Sprints \cup {None, Blank} /\ Asked # {}
  /\ PageLimit \in Nat \ {0} /\ MaxRev \in Nat /\ Faults \in BOOLEAN

VARIABLES
  rows,      \* table issues; rev counts the writes to a row
  board,     \* board:{projectId}:sprint:{sprintId|backlog}
  entity,    \* issue:{issueId}
  index,     \* idx:sprint:{projectId}:{sprintId|backlog}; empty: no such key
  expiring,  \* the indexes that have a TTL
  pc, job, local,
  walk,      \* what a client that lists page by page remembers
  excused    \* history: entries stale for a reason other than a missed invalidation

vars == <<rows, board, entity, index, expiring, pc, job, local, walk, excused>>

Places == Sprints \cup {None}
Keys == Places \cup {Blank}

Row == [state: {"none", "live", "deleted"}, sprint: Places, rev: Nat]

NoRow == [state |-> "none", sprint |-> None, rev |-> 0]

(* The rows a board shows, NoRow for the issues that are elsewhere. *)
Board == [Issues -> Row]

NoBoard == [i \in {} |-> NoRow]

Entries == ({"board"} \X Keys) \cup ({"entity"} \X Issues)

(* A place in the list, as encodeCursor is given it: the creation time in ms, *)
(* printed as a score by the index path and as an ISO date by the other.      *)
Cursor == [form: {"score", "iso"}, ms: Nat, id: Issues]

Job == [op: {"none", "create", "update", "delete", "board", "get", "list"},
        issue: Issues \cup {None}, key: Keys, named: BOOLEAN]

NoJob == [op |-> "none", issue |-> None, key |-> None, named |-> FALSE]

(* page, ids, more: what was read; left, found: the boards SCAN has not come to, *)
(* and those it has found.                                                       *)
Local == [page: Board \cup {NoBoard}, ids: SUBSET Issues, more: BOOLEAN,
          left: SUBSET Keys, found: SUBSET Keys]

Fresh == [page |-> NoBoard, ids |-> {}, more |-> FALSE, left |-> {}, found |-> {}]

(* The cursor to the next page, the issues seen, what served the pages, and whether *)
(* nothing was written meanwhile.                                                   *)
Walk == [cursor: Cursor \cup {None}, seen: SUBSET Issues,
         sources: SUBSET {"db", "index"}, quiet: BOOLEAN]

NoWalk == [cursor |-> None, seen |-> {}, sources |-> {}, quiet |-> TRUE]

Steps == {"idle", "scan", "drop", "maintain", "sweep", "query", "warm", "fill", "find", "keep",
          "exists", "range", "mget", "fetch", "page", "index", "done", "refused"}

(* An empty Redis, over the issues there are. *)
Init ==
  /\ rows = [i \in Issues |-> IF i \in Existing THEN [NoRow EXCEPT !.state = "live", !.sprint = Home]
                                                 ELSE NoRow]
  /\ board = [k \in Keys |-> NoBoard]
  /\ entity = [i \in Issues |-> NoRow]
  /\ index = [k \in Keys |-> {}]
  /\ expiring = {}
  /\ pc = [r \in Requests |-> "idle"]
  /\ job = [r \in Requests |-> NoJob]
  /\ local = [r \in Requests |-> Fresh]
  /\ walk = [r \in Requests |-> NoWalk]
  /\ excused = {}

-----------------------------------------------------------------------------
Goto(r, step) == pc' = [pc EXCEPT ![r] = step]

Reply(r) ==
  /\ Goto(r, "idle")
  /\ job' = [job EXCEPT ![r] = NoJob]
  /\ local' = [local EXCEPT ![r] = Fresh]
  /\ walk' = [walk EXCEPT ![r] = NoWalk]

Start(r, j, step) ==
  /\ pc[r] = "idle"
  /\ Goto(r, step)
  /\ job' = [job EXCEPT ![r] = j]

indexes == <<index, expiring>>
redis == <<board, entity, index, expiring>>

InSprint(k) ==
  {i \in Issues : rows[i].state = "live" /\ rows[i].sprint = (IF k = Blank THEN None ELSE k)}

(* What the query of getBoardView returns. *)
OnBoard(k) == [i \in Issues |-> IF i \in InSprint(k) THEN rows[i] ELSE NoRow]

(* History: lists that are being paged through are not of a quiet project now. *)
Disturb == walk' = [q \in Requests |-> [walk[q] EXCEPT !.quiet = (pc[q] = "idle")]]

-----------------------------------------------------------------------------
(* The writes. *)

Write(r, op, i, row, named) ==
  /\ op \in Ops /\ i \in Written
  /\ Start(r, [op |-> op, issue |-> i, key |-> row.sprint, named |-> named], "scan")
  /\ rows[i].rev < MaxRev
  /\ rows' = [rows EXCEPT ![i] = [row EXCEPT !.rev = rows[i].rev + 1]]
  /\ local' = [local EXCEPT ![r].left = Asked]
  /\ Disturb
  /\ UNCHANGED <<redis, excused>>

Create(r, i, k) ==
  /\ rows[i].state = "none"
  /\ Write(r, "create", i, [NoRow EXCEPT !.state = "live", !.sprint = k], TRUE)

(* A PATCH that names sprintId, the issue's own perhaps, or does not. *)
Update(r, i, k, named) ==
  /\ rows[i].state = "live"
  /\ named \/ k = rows[i].sprint
  /\ Write(r, "update", i, [rows[i] EXCEPT !.sprint = k], named)

Transition(r, i) ==
  "transition" \in Ops /\ rows[i].state = "live" /\ Write(r, "update", i, rows[i], FALSE)

Delete(r, i) ==
  rows[i].state = "live" /\ Write(r, "delete", i, [rows[i] EXCEPT !.state = "deleted"], FALSE)

(* SprintService.complete moves issues, and leaves these caches alone. *)
CompleteMoves(i, k) ==
  /\ "complete" \in Ops /\ i \in Written
  /\ rows[i].state = "live" /\ rows[i].sprint \in Sprints /\ k # rows[i].sprint
  /\ rows[i].rev < MaxRev
  /\ rows' = [rows EXCEPT ![i] = [state |-> "live", sprint |-> k, rev |-> rows[i].rev + 1]]
  /\ Disturb
  /\ excused' = excused \cup ({<<"entity", i>>, <<"board", rows[i].sprint>>}
                              \cup ({"board"} \X IF k = None THEN {None, Blank} ELSE {k}))
  /\ UNCHANGED <<redis, pc, job, local>>

-----------------------------------------------------------------------------
(* After a write, Promise.allSettled of three things, sent in this order: the    *)
(* first SCAN for boards, DEL of the entity, and a command to the index. Each may *)
(* fail, which changes nothing for the client and the other two.                  *)

(* Mutant of Scan: the pattern is the board the issue is on now. *)
Scan_OwnBoard(r) ==
  /\ pc[r] = "scan"
  /\ \E batch \in SUBSET local[r].left \ {{}} :
       local' = [local EXCEPT ![r].left = @ \ batch,
                              ![r].found = {k \in batch : k = job[r].key /\ board[k] # NoBoard}]
  /\ Goto(r, IF local[r].left = Asked THEN "drop" ELSE "sweep")
  /\ UNCHANGED <<rows, redis, job, walk, excused>>

(* One answer of SCAN: some of the keys not come to yet, if they exist now. *)
Scan(r) ==
  /\ pc[r] = "scan"
  /\ \E batch \in SUBSET local[r].left \ {{}} :
       local' = [local EXCEPT ![r].left = @ \ batch,
                              ![r].found = {k \in batch : board[k] # NoBoard}]
  /\ Goto(r, IF local[r].left = Asked THEN "drop" ELSE "sweep")
  /\ UNCHANGED <<rows, redis, job, walk, excused>>

(* Mutant of DropEntity: a deletion leaves the entity to its TTL. *)
DropEntity_NotDeleted(r) ==
  /\ pc[r] = "drop"
  /\ IF job[r].op \in {"create", "delete"} THEN UNCHANGED <<entity, excused>>
     ELSE /\ entity' = [entity EXCEPT ![job[r].issue] = NoRow]
          /\ excused' = excused \ {<<"entity", job[r].issue>>}
  /\ Goto(r, "maintain")
  /\ UNCHANGED <<rows, board, indexes, job, local, walk>>

(* create has no entity to drop. *)
DropEntity(r) ==
  /\ pc[r] = "drop"
  /\ \/ job[r].op = "create" /\ UNCHANGED <<entity, excused>>
     \/ /\ job[r].op # "create"
        /\ entity' = [entity EXCEPT ![job[r].issue] = NoRow]
        /\ excused' = excused \ {<<"entity", job[r].issue>>}
     \/ /\ job[r].op # "create" /\ Faults
        /\ excused' = excused \cup {<<"entity", job[r].issue>>}
        /\ UNCHANGED entity
  /\ Goto(r, "maintain")
  /\ UNCHANGED <<rows, board, indexes, job, local, walk>>

AddIssue(i, k) == index' = [index EXCEPT ![k] = @ \cup {i}] /\ UNCHANGED expiring

(* Mutant of Forget: the TTL is thought to outlive the key. *)
Forget_KeepsTtl(k, ids) ==
  /\ index' = [index EXCEPT ![k] = @ \ ids]
  /\ UNCHANGED expiring

(* ZREM of some, DEL of all; a sorted set without members is no key. *)
Forget(k, ids) ==
  /\ index' = [index EXCEPT ![k] = @ \ ids]
  /\ expiring' = IF index[k] \subseteq ids THEN expiring \ {k} ELSE expiring

MaintainIndex(r) ==
  /\ pc[r] = "maintain"
  /\ \/ job[r].op = "create" /\ AddIssue(job[r].issue, job[r].key)
     \/ job[r].op = "update" /\ job[r].named /\ Forget(job[r].key, Issues)
     \/ job[r].op = "delete" /\ Forget(job[r].key, {job[r].issue})
     \/ job[r].op = "update" /\ ~job[r].named /\ UNCHANGED indexes
     \/ Faults /\ UNCHANGED indexes
  /\ Goto(r, "sweep")
  /\ UNCHANGED <<rows, board, entity, job, local, walk, excused>>

(* DEL of the keys found; the loop ends with SCAN's cursor back at 0. *)
Sweep(r) ==
  /\ pc[r] = "sweep"
  /\ board' = [k \in Keys |-> IF k \in local[r].found THEN NoBoard ELSE board[k]]
  /\ excused' = excused \ ({"board"} \X local[r].found)
  /\ IF local[r].left = {}
       THEN Reply(r)
       ELSE /\ Goto(r, "scan")
            /\ local' = [local EXCEPT ![r].found = {}]
            /\ UNCHANGED <<job, walk>>
  /\ UNCHANGED <<rows, entity, indexes>>

(* SCAN or DEL fails, and the boards not deleted yet stay. *)
SweepFails(r) ==
  /\ Faults
  /\ pc[r] \in {"scan", "sweep"}
  /\ excused' = excused \cup ({"board"} \X (local[r].left \cup local[r].found))
  /\ IF local[r].left = Asked
       THEN /\ Goto(r, "drop")
            /\ local' = [local EXCEPT ![r].left = {}]
            /\ UNCHANGED <<job, walk>>
       ELSE Reply(r)
  /\ UNCHANGED <<rows, redis>>

-----------------------------------------------------------------------------
(* getBoardView and getById, on a miss; a hit changes nothing. *)

GetBoard(r, k) ==
  /\ "board" \in Ops /\ k \in Asked
  /\ board[k] = NoBoard
  /\ Start(r, [NoJob EXCEPT !.op = "board", !.key = k], "query")
  /\ UNCHANGED <<rows, redis, local, walk, excused>>

QueryBoard(r) ==
  /\ pc[r] = "query"
  /\ local' = [local EXCEPT ![r].page = OnBoard(job[r].key)]
  /\ Goto(r, "warm")
  /\ UNCHANGED <<rows, redis, job, walk, excused>>

(* populateFromIssues: ZADD of every issue, then EXPIRE; none for no issue. *)
Populate(k, ids) ==
  IF ids = {} THEN UNCHANGED indexes
  ELSE /\ index' = [index EXCEPT ![k] = @ \cup ids]
       /\ expiring' = expiring \cup {k}

(* Not awaited, and a failure is ignored. *)
WarmIndex(r) ==
  /\ pc[r] = "warm"
  /\ \/ Populate(job[r].key, {i \in Issues : local[r].page[i] # NoRow})
     \/ Faults /\ UNCHANGED indexes
  /\ Goto(r, "fill")
  /\ UNCHANGED <<rows, board, entity, job, local, walk, excused>>

(* The board is stored as it was read; a write since then excuses it. *)
FillBoard(r) ==
  /\ pc[r] = "fill"
  /\ \/ /\ board' = [board EXCEPT ![job[r].key] = local[r].page]
        /\ excused' = IF local[r].page = OnBoard(job[r].key)
                        THEN excused \ {<<"board", job[r].key>>}
                        ELSE excused \cup {<<"board", job[r].key>>}
     \/ Faults /\ UNCHANGED <<board, excused>>
  /\ Reply(r)
  /\ UNCHANGED <<rows, entity, indexes>>

GetIssue(r, i) ==
  /\ "get" \in Ops
  /\ entity[i] = NoRow
  /\ Start(r, [NoJob EXCEPT !.op = "get", !.issue = i], "find")
  /\ UNCHANGED <<rows, redis, local, walk, excused>>

FindIssue(r) ==
  /\ pc[r] = "find"
  /\ LET i == job[r].issue IN
       IF rows[i].state = "live"
         THEN /\ local' = [local EXCEPT ![r].page = [[j \in Issues |-> NoRow] EXCEPT ![i] = rows[i]]]
              /\ Goto(r, "keep")
              /\ UNCHANGED <<job, walk>>
         ELSE Reply(r)
  /\ UNCHANGED <<rows, redis, excused>>

KeepEntity(r) ==
  /\ pc[r] = "keep"
  /\ LET i == job[r].issue IN
       \/ /\ entity' = [entity EXCEPT ![i] = local[r].page[i]]
          /\ excused' = IF local[r].page[i] = rows[i] THEN excused \ {<<"entity", i>>}
                                                     ELSE excused \cup {<<"entity", i>>}
       \/ Faults /\ UNCHANGED <<entity, excused>>
  /\ Reply(r)
  /\ UNCHANGED <<rows, board, indexes>>

-----------------------------------------------------------------------------
(* list with sprintId alone: a client that pages through a sprint, or through the *)
(* backlog, which it can only name Blank.                                         *)

ListIssues(r, k) ==
  /\ "list" \in Ops /\ k \in Asked \ {None}
  /\ Start(r, [NoJob EXCEPT !.op = "list", !.key = k], "exists")
  /\ UNCHANGED <<rows, redis, local, walk, excused>>

(* getSprintIssueIds: does the index exist? *)
Exists(r) ==
  /\ pc[r] = "exists"
  /\ Goto(r, IF index[job[r].key] # {} THEN "range" ELSE "page")
  /\ UNCHANGED <<rows, redis, job, local, walk, excused>>

(* The score of an issue, in ms; the database orders by microseconds. *)
Scores == [i \in Issues |-> CreatedAt[i] \div 1000]

(* Newest first, then by id. *)
Precedes(time, i, j) == time[i] > time[j] \/ (time[i] = time[j] /\ i > j)

Top(S, n, time) == {i \in S : Cardinality({j \in S : Precedes(time, j, i)}) < n}

Last(S, time) == CHOOSE i \in S : \A j \in S \ {i} : Precedes(time, j, i)

(* ZREVRANGEBYSCORE below the cursor's score; a date is no score, and fails. *)
RangeByScore(r) ==
  /\ pc[r] = "range"
  /\ LET c == walk[r].cursor
         ids == {i \in index[job[r].key] : c # None => Scores[i] < c.ms}
     IN  IF c # None /\ c.form # "score"
           THEN Goto(r, "refused") /\ UNCHANGED local
           ELSE /\ Goto(r, "mget")
                /\ local' = [local EXCEPT ![r].ids = Top(ids, PageLimit, Scores),
                                          ![r].more = Cardinality(ids) > PageLimit]
  /\ walk' = [walk EXCEPT ![r].sources = @ \cup {"index"}]
  /\ UNCHANGED <<rows, redis, job, excused>>

(* fetchIssuesByIds: what the entity cache has is not looked up. *)
MGet(r) ==
  /\ pc[r] = "mget"
  /\ local' = [local EXCEPT ![r].page = [i \in Issues |->
                 IF i \in local[r].ids THEN entity[i] ELSE NoRow]]
  /\ Goto(r, "fetch")
  /\ UNCHANGED <<rows, redis, job, walk, excused>>

(* The others are read from the database, whatever sprint they are in by now. The *)
(* client goes on with the next page if there is one and a cursor to it.          *)
FetchIssues(r) ==
  /\ pc[r] = "fetch"
  /\ LET items == {i \in local[r].ids : local[r].page[i] # NoRow \/ rows[i].state = "live"}
         last == Last(items, Scores)
         next == IF local[r].more /\ items # {}
                   THEN [form |-> "score", ms |-> Scores[last], id |-> last] ELSE None
     IN  /\ walk' = [walk EXCEPT ![r].seen = @ \cup items, ![r].cursor = next]
         /\ Goto(r, IF next # None THEN "exists" ELSE "done")
  /\ local' = [local EXCEPT ![r] = Fresh]
  /\ UNCHANGED <<rows, redis, job, excused>>

(* What follows the cursor in the sprint; the cursor has lost its microseconds. *)
Following(k, c) ==
  {i \in InSprint(k) : c # None =>
     LET at == c.ms * 1000 IN CreatedAt[i] < at \/ (CreatedAt[i] = at /\ i < c.id)}

(* Mutant of PageFromDb: LIMIT is the page's, and nothing tells that more follow. *)
PageFromDb_NoLookahead(r) ==
  /\ pc[r] = "page"
  /\ LET items == Top(Following(job[r].key, walk[r].cursor), PageLimit, CreatedAt)
     IN  /\ walk' = [walk EXCEPT ![r].seen = @ \cup items, ![r].sources = @ \cup {"db"}]
         /\ local' = [local EXCEPT ![r].ids = items]
  /\ Goto(r, "index")
  /\ UNCHANGED <<rows, redis, job, excused>>

(* listFromDb: LIMIT is one more than the page's. A score is no date (one of this *)
(* year has a month above 12), and MySQL refuses it.                              *)
PageFromDb(r) ==
  /\ pc[r] = "page"
  /\ LET c == walk[r].cursor
         rest == Following(job[r].key, c)
         items == Top(rest, PageLimit, CreatedAt)
         last == Last(items, CreatedAt)
         next == IF Cardinality(rest) > PageLimit
                   THEN [form |-> "iso", ms |-> Scores[last], id |-> last] ELSE None
     IN  IF c # None /\ c.form # "iso"
           THEN /\ Goto(r, "refused")
                /\ walk' = [walk EXCEPT ![r].sources = @ \cup {"db"}]
                /\ UNCHANGED local
           ELSE /\ Goto(r, "index")
                /\ walk' = [walk EXCEPT ![r].sources = @ \cup {"db"},
                                        ![r].seen = @ \cup items, ![r].cursor = next]
                /\ local' = [local EXCEPT ![r].ids = items]
  /\ UNCHANGED <<rows, redis, job, excused>>

(* The page warms the index, which is not awaited and may fail. *)
IndexPage(r) ==
  /\ pc[r] = "index"
  /\ Populate(job[r].key, local[r].ids) \/ (Faults /\ UNCHANGED indexes)
  /\ local' = [local EXCEPT ![r] = Fresh]
  /\ Goto(r, IF walk[r].cursor # None THEN "exists" ELSE "done")
  /\ UNCHANGED <<rows, board, entity, job, walk, excused>>

(* A read of Redis or the database fails, and with it the request. *)
ReadFails(r) ==
  /\ Faults
  /\ pc[r] \in {"query", "find", "exists", "range", "mget", "fetch", "page"}
  /\ Reply(r)
  /\ UNCHANGED <<rows, redis, excused>>

(* The client has its last page, or an error. *)
ListEnds(r) ==
  /\ pc[r] \in {"done", "refused"}
  /\ Reply(r)
  /\ UNCHANGED <<rows, redis, excused>>

-----------------------------------------------------------------------------
(* The TTLs. *)

ExpireBoard(k) ==
  /\ board[k] # NoBoard
  /\ board' = [board EXCEPT ![k] = NoBoard]
  /\ excused' = excused \ {<<"board", k>>}
  /\ UNCHANGED <<rows, entity, indexes, pc, job, local, walk>>

ExpireEntity(i) ==
  /\ entity[i] # NoRow
  /\ entity' = [entity EXCEPT ![i] = NoRow]
  /\ excused' = excused \ {<<"entity", i>>}
  /\ UNCHANGED <<rows, board, indexes, pc, job, local, walk>>

ExpireIndex(k) ==
  /\ k \in expiring
  /\ Forget(k, Issues)
  /\ UNCHANGED <<rows, board, entity, pc, job, local, walk, excused>>

-----------------------------------------------------------------------------
Work(r) ==
  \/ Scan(r) \/ DropEntity(r) \/ MaintainIndex(r) \/ Sweep(r) \/ SweepFails(r)
  \/ QueryBoard(r) \/ WarmIndex(r) \/ FillBoard(r)
  \/ FindIssue(r) \/ KeepEntity(r)
  \/ Exists(r) \/ RangeByScore(r) \/ MGet(r) \/ FetchIssues(r) \/ PageFromDb(r) \/ IndexPage(r)
  \/ ReadFails(r) \/ ListEnds(r)

Arrive(r) ==
  \/ \E i \in Issues, k \in Places : Create(r, i, k)
  \/ \E i \in Issues, k \in Places, named \in BOOLEAN : Update(r, i, k, named)
  \/ \E i \in Issues : Transition(r, i) \/ Delete(r, i) \/ GetIssue(r, i)
  \/ \E k \in Keys : GetBoard(r, k) \/ ListIssues(r, k)

Next ==
  \/ \E r \in Requests : Arrive(r) \/ Work(r)
  \/ \E i \in Issues, k \in Places : CompleteMoves(i, k)
  \/ \E k \in Keys : ExpireBoard(k) \/ ExpireIndex(k)
  \/ \E i \in Issues : ExpireEntity(i)

Spec == Init /\ [][Next]_vars
-----------------------------------------------------------------------------
(* Properties. *)

TypeOK ==
  /\ rows \in [Issues -> Row]
  /\ board \in [Keys -> Board \cup {NoBoard}]
  /\ entity \in [Issues -> Row]
  /\ index \in [Keys -> SUBSET Issues]
  /\ expiring \subseteq {k \in Keys : index[k] # {}}
  /\ pc \in [Requests -> Steps]
  /\ job \in [Requests -> Job]
  /\ local \in [Requests -> Local]
  /\ walk \in [Requests -> Walk]
  /\ excused \subseteq Entries

(* Request r is to drop the entity of issue i, or the board k, before it is answered. *)
ToDrop(r, i) ==
  /\ job[r].issue = i /\ job[r].op # "create"
  /\ pc[r] = "drop" \/ (pc[r] = "scan" /\ local[r].left = Asked)

ToSweep(r, k) == k \in local[r].left \cup local[r].found

(* An entity in the cache is the row as it is, or the write is not answered yet: *)
(* once it is, GET shows it, but for a reader that had read before the write,    *)
(* a failed DEL or a sprint completed meanwhile (IssueEntityCache.ts:8).         *)
EntitiesCurrent ==
  \A i \in Issues : entity[i] # NoRow /\ entity[i] # rows[i] =>
    \/ <<"entity", i>> \in excused
    \/ \E r \in Requests : ToDrop(r, i)

(* A cached board, too, shows every write that has been answered, whatever boards *)
(* the SCAN loop found in which of its answers, with the same exceptions.         *)
BoardsCurrent ==
  \A k \in Keys : board[k] # NoBoard /\ board[k] # OnBoard(k) =>
    \/ <<"board", k>> \in excused
    \/ \E r \in Requests : ToSweep(r, k)

(* A page that ends with issue j has a cursor beyond i as well, which comes next. *)
Clipped(j, i) ==
  Precedes(CreatedAt, j, i) /\ Scores[i] = Scores[j] /\ CreatedAt[j] # Scores[j] * 1000

(* A client that pages through a sprint nobody writes to, served by the database *)
(* on every page, sees every issue of the sprint (IssueQueryService.listFromDb), *)
(* but for those that follow one it sees within the same millisecond.            *)
DbPagesComplete ==
  \A r \in Requests :
    pc[r] \in {"done", "refused"} /\ walk[r].quiet /\ walk[r].sources = {"db"} =>
      /\ pc[r] = "done" /\ walk[r].seen \subseteq InSprint(job[r].key)
      /\ \A i \in InSprint(job[r].key) \ walk[r].seen : \E j \in walk[r].seen : Clipped(j, i)

(* IssueIndexCache.ts:15, stable cursor pagination: whether the pages come from   *)
(* the index or, cold, from the database makes no difference to the client.      *)
PagesComplete ==
  \A r \in Requests : pc[r] \in {"done", "refused"} /\ walk[r].quiet =>
    pc[r] = "done" /\ walk[r].seen = InSprint(job[r].key)
=============================================================================
