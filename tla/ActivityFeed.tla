----------------------------- MODULE ActivityFeed -----------------------------
(***************************************************************************)
(* The activity log (src/src/modules/activity): a row for a domain event,  *)
(* written by every ActivityService of the process that published it, and  *)
(* the feed of a project, read page by page.                               *)
(*                                                                         *)
(* There are two services in a process: bootstrap makes one, and so does   *)
(* the controller's module.  The feed's filters are left out.              *)
(***************************************************************************)
EXTENDS HttpServer

CONSTANTS
  Events,      \* the events a behaviour may publish, as numbers from 1
  Entries,     \* uuids of rows, as numbers for their order
  CreatedAt,   \* of each row, in half milliseconds
  FeedLimit,
  None         \* no event, no cursor

Kinds == {"IssueCreated", "StatusChanged", "IssueUpdated", "IssueMoved", "CommentAdded",
          "SprintUpdated"}

ASSUME FeedAssumption ==
  /\ Entries \subseteq Nat /\ IsFiniteSet(Entries) /\ CreatedAt \in [Entries -> Nat]
  /\ FeedLimit \in Nat \ {0}
  /\ Events \subseteq Nat \ {0} /\ None \notin Events \cup Entries \cup {0} /\ None \notin Kinds

VARIABLES
  log,         \* table activity_logs: the event each row tells of, or Earlier
  inserting,   \* inserts under way: <<process, event, service>>
  unlogged,    \* history: inserts that failed or were cut off
  feed         \* what a client that reads the feed remembers

feedVars == <<log, inserting, unlogged, feed>>

(* What the rows there are at first tell of. *)
Earlier == 0

Services == {"bootstrap", "controller"}

(* marks: the rows cursors were made of; quiet: no row was written since the first page. *)
Feed == [step: {"idle", "query", "shown"}, cursor: {None} \cup [ms: Nat, id: Entries],
         more: BOOLEAN, seen: SUBSET Entries, marks: SUBSET Entries, quiet: BOOLEAN]

NoFeed == [step |-> "idle", cursor |-> None, more |-> FALSE, seen |-> {}, marks |-> {},
           quiet |-> TRUE]

FeedTypeOK ==
  /\ log \in [Entries -> Events \cup {None, Earlier}]
  /\ inserting \subseteq Servers \X Events \X Services
  /\ unlogged \subseteq Events \X Services
  /\ feed \in Feed

Rows == {n \in Entries : log[n] # None}

-----------------------------------------------------------------------------
(* toActivityEntry returns null for the other kinds. *)
Logged == {"IssueCreated", "StatusChanged", "IssueUpdated", "CommentAdded"}

(* Every service of the process has subscribed to '*', and calls save at once. *)
LogEvent(s, e, kind) ==
  inserting' = IF kind \in Logged THEN inserting \cup {<<s, e, service>> : service \in Services}
               ELSE inserting

(* A row gets the time of its insertion; a failure is logged, and the event is not. *)
InsertEntry(s, e, service) ==
  /\ <<s, e, service>> \in inserting
  /\ inserting' = inserting \ {<<s, e, service>>}
  /\ \/ /\ \E n \in Entries \ Rows :
             /\ \A other \in Entries \ Rows : CreatedAt[n] <= CreatedAt[other]
             /\ log' = [log EXCEPT ![n] = e]
        /\ feed' = [feed EXCEPT !.quiet = (feed.step = "idle")]
        /\ UNCHANGED unlogged
     \/ unlogged' = unlogged \cup {<<e, service>>} /\ UNCHANGED <<log, feed>>

(* The process ends before its inserts do. *)
DropInserts(s) ==
  LET mine == {w \in inserting : w[1] = s} IN
    /\ inserting' = inserting \ mine
    /\ unlogged' = unlogged \cup {<<w[2], w[3]>> : w \in mine}
    /\ UNCHANGED <<log, feed>>

-----------------------------------------------------------------------------
(* listByProject: newest first. *)

Newer(m, n) == CreatedAt[m] > CreatedAt[n] \/ (CreatedAt[m] = CreatedAt[n] /\ m > n)

NewestOf(k, ns) == {n \in ns : Cardinality({m \in ns : Newer(m, n)}) < k}

OldestOf(ns) == CHOOSE n \in ns : \A m \in ns : m = n \/ Newer(m, n)

(* toISOString: milliseconds, in half milliseconds here. *)
Milli(t) == 2 * (t \div 2)

(* Mutant of Older: only what is older than the cursor, whatever the id. *)
Older_ByTime(cursor, ns) ==
  IF cursor = None THEN ns ELSE {n \in ns : CreatedAt[n] < cursor.ms}

(* The rows past a cursor: the column has microseconds, the cursor has not. *)
Older(cursor, ns) ==
  IF cursor = None THEN ns
  ELSE {n \in ns : \/ CreatedAt[n] < cursor.ms
                   \/ CreatedAt[n] = cursor.ms /\ n < cursor.id}

AskFeed ==
  /\ feed.step = "idle" \/ (feed.step = "shown" /\ feed.more)
  /\ feed' = [feed EXCEPT !.step = "query"]
  /\ UNCHANGED <<log, inserting, unlogged>>

ReadFeed ==
  /\ feed.step = "query"
  /\ LET rows == NewestOf(FeedLimit + 1, Older(feed.cursor, Rows))
         items == NewestOf(FeedLimit, rows)
         last == OldestOf(items) IN
       feed' = [feed EXCEPT !.step = "shown",
                            !.more = (items # rows),
                            !.seen = @ \cup items,
                            !.cursor = IF items = rows THEN None
                                       ELSE [ms |-> Milli(CreatedAt[last]), id |-> last],
                            !.marks = IF items = rows THEN @ ELSE @ \cup {last}]
  /\ UNCHANGED <<log, inserting, unlogged>>

LeaveFeed ==
  /\ feed.step = "shown"
  /\ feed' = NoFeed
  /\ UNCHANGED <<log, inserting, unlogged>>

-----------------------------------------------------------------------------
(* A client that reads a feed to its end, while no row is added, has seen every row but *)
(* some of the millisecond a page ended within: the cursor is cut to milliseconds, and   *)
(* the feed runs backwards.  A page that ends at a whole millisecond loses nothing.       *)
FeedMissesOnlySameMilli ==
  feed.step = "shown" /\ feed.quiet /\ ~feed.more =>
    \A n \in Rows \ feed.seen : \E last \in feed.marks :
      CreatedAt[last] > Milli(CreatedAt[last]) /\ Milli(CreatedAt[n]) = Milli(CreatedAt[last])
=============================================================================
