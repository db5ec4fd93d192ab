------------------------------- MODULE Comments -------------------------------
(***************************************************************************)
(* Comments on issues (src/src/modules/comments): concurrent requests of   *)
(* several servers that post, edit, delete and list them, each a sequence  *)
(* of awaited queries.                                                     *)
(*                                                                         *)
(* A text is the users it mentions, each once (resolveHandles selects rows *)
(* of users).  The column mentions is written and never read, and left     *)
(* out, as are the issues: they exist.                                     *)
(***************************************************************************)
EXTENDS Naturals, Sequences, FiniteSets

CONSTANTS
  Requests, Servers,
  Comments,    \* uuids, as numbers for their order
  CreatedAt,   \* of each comment, in half milliseconds
  Issues, Users,
  PageLimit,
  Workloads,   \* what clients do in a behaviour: see Workload
  None         \* no parent, no cursor, no comment

VARIABLES
  workload,
  comments,    \* table comments
  pc, job,
  copy,        \* the entity an update has read
  walk,        \* what a client that lists page by page remembers
  overlapped   \* history: comments deleted while an update had read them

requestVars == <<pc, job, copy, walk>>
commentVars == <<workload, comments, requestVars, overlapped>>

Texts ==
  {text \in UNION {[1..n -> Users] : n \in 0..Cardinality(Users)} :
     \A m, n \in DOMAIN text : text[m] = text[n] => m = n}

Row == [state: {"none", "live", "deleted"}, issue: Issues, author: Users,
        parent: Comments \cup {None}, text: Texts]

(* Who calls which endpoints of which servers, the texts they write, whether they   *)
(* write replies, the comments there are at first and those yet to be written,       *)
(* whether SQS_NOTIFICATION_QUEUE_URL is set, and how often a server may die.        *)
Workload == [clients: SUBSET Requests, servers: SUBSET Servers,
             ops: SUBSET {"create", "update", "delete", "list"}, texts: SUBSET Texts,
             replies: BOOLEAN, existing: SUBSET Comments, fresh: SUBSET Comments,
             queue: BOOLEAN, crashes: Nat]

ASSUME CommentsAssumption ==
  /\ Comments \subseteq Nat /\ IsFiniteSet(Comments) /\ CreatedAt \in [Comments -> Nat]
  /\ IsFiniteSet(Servers) /\ IsFiniteSet(Users) /\ {} \notin {Servers, Users, Issues}
  /\ PageLimit \in Nat \ {0}
  /\ None \notin Comments /\ None \notin [ms: Nat, id: Comments]
  /\ Workloads \subseteq Workload

Job == [op: {"none", "create", "update", "delete", "list"}, at: Servers,
        comment: Comments \cup {None}, issue: Issues, actor: Users,
        parent: Comments \cup {None}, text: Texts]

(* The cursor: ms of the last comment shown, and its id.  quiet: nothing was *)
(* written since the walk began.                                              *)
Walk == [cursor: {None} \cup [ms: Nat, id: Comments], page: SUBSET Comments,
         more: BOOLEAN, seen: SUBSET Comments, quiet: BOOLEAN]

NoWalk == [cursor |-> None, page |-> {}, more |-> FALSE, seen |-> {}, quiet |-> TRUE]

NoText == <<>>

NoRow == [state |-> "none", issue |-> CHOOSE i \in Issues : TRUE,
          author |-> CHOOSE u \in Users : TRUE, parent |-> None, text |-> NoText]

NoJob == [op |-> "none", at |-> CHOOSE s \in Servers : TRUE, comment |-> None,
          issue |-> NoRow.issue, actor |-> NoRow.author, parent |-> None, text |-> NoText]

CommentSteps == {"idle", "parent", "resolve", "insert", "publish",
                 "find", "select", "write", "remove", "page", "replies", "done"}

(* The comments there are at first are bare; the later ones may answer the first. *)
CommentsInit ==
  /\ workload \in Workloads
  /\ \E thread \in [workload.existing -> {None} \cup workload.existing] :
       /\ \A c \in workload.existing : thread[c] # None => CreatedAt[thread[c]] < CreatedAt[c]
       /\ comments = [c \in Comments |->
            IF c \in workload.existing THEN [NoRow EXCEPT !.state = "live", !.parent = thread[c]]
                                       ELSE NoRow]
  /\ pc = [r \in Requests |-> "idle"]
  /\ job = [r \in Requests |-> NoJob]
  /\ copy = [r \in Requests |-> NoRow]
  /\ walk = [r \in Requests |-> NoWalk]
  /\ overlapped = {}

-----------------------------------------------------------------------------
Goto(r, step) == pc' = [pc EXCEPT ![r] = step]

Reply(r) ==
  /\ Goto(r, "idle")
  /\ job' = [job EXCEPT ![r] = NoJob]
  /\ copy' = [copy EXCEPT ![r] = NoRow]

(* The server dies: its requests are cut off. *)
CutOff(s) ==
  /\ pc' = [r \in Requests |-> IF job[r].at = s THEN "idle" ELSE pc[r]]
  /\ job' = [r \in Requests |-> IF job[r].at = s THEN NoJob ELSE job[r]]
  /\ copy' = [r \in Requests |-> IF job[r].at = s THEN NoRow ELSE copy[r]]
  /\ walk' = [r \in Requests |-> IF job[r].at = s THEN NoWalk ELSE walk[r]]
  /\ UNCHANGED <<workload, comments, overlapped>>

Start(r, j, step) ==
  /\ pc[r] = "idle" /\ r \in workload.clients /\ j.at \in workload.servers
  /\ j.op \in workload.ops
  /\ Goto(r, step)
  /\ job' = [job EXCEPT ![r] = j]
  /\ UNCHANGED <<workload, comments, copy, walk, overlapped>>

Unwritten == {c \in workload.fresh : comments[c].state = "none"}

Live(c) == comments[c].state = "live"

(* History: threads that are being paged through are not quiet now. *)
Disturb == walk' = [q \in Requests |-> [walk[q] EXCEPT !.quiet = @ /\ job[q].op # "list"]]

-----------------------------------------------------------------------------
(* create: the parent must exist, on whatever issue, and may be a reply itself. *)

CreateComment(r, s, i, u, p, text) ==
  /\ text \in workload.texts
  /\ Unwritten # {}
  /\ p # None => workload.replies /\ comments[p].state # "none"
  /\ Start(r, [NoJob EXCEPT !.op = "create", !.at = s, !.issue = i, !.actor = u,
                            !.parent = p, !.text = text],
           IF p = None THEN "resolve" ELSE "parent")

FindParent(r) ==
  /\ pc[r] = "parent"
  /\ IF Live(job[r].parent)
       THEN Goto(r, "resolve") /\ UNCHANGED <<job, copy>>
       ELSE Reply(r)
  /\ UNCHANGED <<workload, comments, walk, overlapped>>

(* One query for the users of all handles; it may fail. *)
ResolveHandles(r) ==
  /\ pc[r] = "resolve"
  /\ \/ Goto(r, "insert") /\ UNCHANGED <<job, copy>>
     \/ Reply(r)
  /\ UNCHANGED <<workload, comments, walk, overlapped>>

(* Mutant of InsertComment: a failed insert goes unnoticed. *)
InsertComment_FailureSwallowed(r) ==
  /\ pc[r] = "insert"
  /\ \E c \in Unwritten :
       /\ \A d \in Unwritten : CreatedAt[c] <= CreatedAt[d]
       /\ \/ comments' = [comments EXCEPT ![c] =
               [state |-> "live", issue |-> job[r].issue, author |-> job[r].actor,
                parent |-> job[r].parent, text |-> job[r].text]]
          \/ UNCHANGED comments
       /\ job' = [job EXCEPT ![r].comment = c]
  /\ Goto(r, "publish")
  /\ Disturb
  /\ UNCHANGED <<workload, copy, overlapped>>

(* A new uuid, and a creation time no earlier than those before it. *)
InsertComment(r) ==
  /\ pc[r] = "insert"
  /\ \/ /\ \E c \in Unwritten :
             /\ \A d \in Unwritten : CreatedAt[c] <= CreatedAt[d]
             /\ comments' = [comments EXCEPT ![c] =
                  [state |-> "live", issue |-> job[r].issue, author |-> job[r].actor,
                   parent |-> job[r].parent, text |-> job[r].text]]
             /\ job' = [job EXCEPT ![r].comment = c]
        /\ Goto(r, "publish")
        /\ Disturb
        /\ UNCHANGED copy
     \/ Reply(r) /\ UNCHANGED <<comments, walk>>
  /\ UNCHANGED <<workload, overlapped>>

(* The rest of create, in one run of the event loop: CommentAdded, and the answer. *)
PublishComment(r) ==
  /\ pc[r] = "publish"
  /\ Reply(r)
  /\ UNCHANGED <<workload, comments, walk, overlapped>>

-----------------------------------------------------------------------------
(* update and delete: only the author may, and only what is not deleted. *)

EditComment(r, s, c, u, text) ==
  /\ text \in workload.texts /\ comments[c].state # "none"
  /\ Start(r, [NoJob EXCEPT !.op = "update", !.at = s, !.comment = c, !.actor = u,
                            !.text = text], "find")

DeleteComment(r, s, c, u) ==
  /\ comments[c].state # "none"
  /\ Start(r, [NoJob EXCEPT !.op = "delete", !.at = s, !.comment = c, !.actor = u], "find")

(* Mutant of FindComment: deleted comments are found too. *)
FindComment_WithDeleted(r) ==
  /\ pc[r] = "find"
  /\ LET c == job[r].comment IN
       IF comments[c].author = job[r].actor
         THEN /\ copy' = [copy EXCEPT ![r] = [comments[c] EXCEPT !.state = "live"]]
              /\ Goto(r, IF job[r].op = "update" THEN "select" ELSE "remove")
              /\ UNCHANGED job
         ELSE Reply(r)
  /\ UNCHANGED <<workload, comments, walk, overlapped>>

FindComment(r) ==
  /\ pc[r] = "find"
  /\ LET c == job[r].comment IN
       IF Live(c) /\ comments[c].author = job[r].actor
         THEN /\ copy' = [copy EXCEPT ![r] = comments[c]]
              /\ Goto(r, IF job[r].op = "update" THEN "select" ELSE "remove")
              /\ UNCHANGED job
         ELSE Reply(r)
  /\ UNCHANGED <<workload, comments, walk, overlapped>>

(* save of the copy with the new text: first the row is read again, deleted or not, *)
(* and the columns that differ are found: the text, and deletedAt if it was set.    *)
SelectRow(r) ==
  /\ pc[r] = "select"
  /\ copy' = [copy EXCEPT ![r].text = job[r].text,
                          ![r].state = IF Live(job[r].comment) THEN "none" ELSE "live"]
  /\ Goto(r, "write")
  /\ UNCHANGED <<workload, comments, job, walk, overlapped>>

(* Then they are written; copy.state is "none" when deletedAt did not differ. *)
WriteRow(r) ==
  /\ pc[r] = "write"
  /\ \/ /\ comments' = [comments EXCEPT
             ![job[r].comment].text = copy[r].text,
             ![job[r].comment].state = IF copy[r].state = "none" THEN @ ELSE copy[r].state]
        /\ Disturb
     \/ UNCHANGED <<comments, walk>>
  /\ Reply(r)
  /\ UNCHANGED <<workload, overlapped>>

SoftDelete(r) ==
  /\ pc[r] = "remove"
  /\ LET c == job[r].comment IN
       \/ /\ comments' = [comments EXCEPT ![c].state = "deleted"]
          /\ overlapped' =
               IF \E q \in Requests : pc[q] \in {"select", "write"} /\ job[q].comment = c
                 THEN overlapped \cup {c} ELSE overlapped
          /\ Disturb
       \/ UNCHANGED <<comments, overlapped, walk>>
  /\ Reply(r)
  /\ UNCHANGED workload

-----------------------------------------------------------------------------
(* list: a page of top-level comments, then the replies to each. *)

Earlier(c, d) == CreatedAt[c] < CreatedAt[d] \/ (CreatedAt[c] = CreatedAt[d] /\ c < d)

TopLevel(i) == {c \in Comments : Live(c) /\ comments[c].issue = i /\ comments[c].parent = None}

RepliesTo(cs) == {c \in Comments : Live(c) /\ comments[c].parent \in cs}

(* toISOString: milliseconds, in half milliseconds here. *)
Milli(t) == 2 * (t \div 2)

(* Mutant of After: the id alone tells where the last page ended. *)
After_IdOnly(cursor, cs) ==
  IF cursor = None THEN cs ELSE {c \in cs : c > cursor.id}

(* The comments past a cursor: the column has microseconds, the cursor has not. *)
After(cursor, cs) ==
  IF cursor = None THEN cs
  ELSE {c \in cs : \/ CreatedAt[c] > cursor.ms
                   \/ CreatedAt[c] = cursor.ms /\ c > cursor.id}

Oldest(n, cs) == {c \in cs : Cardinality({d \in cs : Earlier(d, c)}) < n}

LastOf(cs) == CHOOSE c \in cs : \A d \in cs : d = c \/ Earlier(d, c)

ListComments(r, s, i) ==
  Start(r, [NoJob EXCEPT !.op = "list", !.at = s, !.issue = i], "page")

(* One row more than a page is asked for, to know whether there is another page. *)
ReadPage(r) ==
  /\ pc[r] = "page"
  /\ LET rows == Oldest(PageLimit + 1, After(walk[r].cursor, TopLevel(job[r].issue)))
         items == Oldest(PageLimit, rows) IN
       walk' = [walk EXCEPT ![r].page = items,
                            ![r].more = (items # rows),
                            ![r].cursor = IF items = rows THEN None
                                          ELSE [ms |-> Milli(CreatedAt[LastOf(items)]),
                                                id |-> LastOf(items)]]
  /\ Goto(r, "replies")
  /\ UNCHANGED <<workload, comments, job, copy, overlapped>>

(* The page is answered with its replies. *)
ReadReplies(r) ==
  /\ pc[r] = "replies"
  /\ LET shown == walk[r].page \cup RepliesTo(walk[r].page) IN
       walk' = [walk EXCEPT ![r].seen = @ \cup shown]
  /\ Goto(r, "done")
  /\ UNCHANGED <<workload, comments, job, copy, overlapped>>

(* The client asks for the next page, if there is one, or leaves. *)
NextPage(r) ==
  /\ pc[r] = "done" /\ walk[r].more
  /\ Goto(r, "page")
  /\ UNCHANGED <<workload, comments, job, copy, walk, overlapped>>

LeaveList(r) ==
  /\ pc[r] = "done"
  /\ Reply(r)
  /\ walk' = [walk EXCEPT ![r] = NoWalk]
  /\ UNCHANGED <<workload, comments, overlapped>>

-----------------------------------------------------------------------------
(* What a server does about comments, but for the publication. *)
CommentStep(s) ==
  \E r \in Requests :
    \/ \E u \in Users :
         \/ \E i \in Issues, p \in Comments \cup {None}, text \in Texts :
              CreateComment(r, s, i, u, p, text)
         \/ \E c \in Comments, text \in Texts : EditComment(r, s, c, u, text)
         \/ \E c \in Comments : DeleteComment(r, s, c, u)
    \/ \E i \in Issues : ListComments(r, s, i)
    \/ /\ job[r].at = s
       /\ \/ FindParent(r) \/ ResolveHandles(r) \/ InsertComment(r)
          \/ FindComment(r) \/ SelectRow(r) \/ WriteRow(r) \/ SoftDelete(r)
          \/ ReadPage(r) \/ ReadReplies(r) \/ NextPage(r) \/ LeaveList(r)

-----------------------------------------------------------------------------
(* A deleted comment comes back only if it was being edited when it was deleted: *)
(* CommentService.update saves the whole entity it read, deletedAt included.     *)
DeletedStaysDeleted ==
  [][\A c \in Comments : comments[c].state = "deleted" /\ comments'[c].state # "deleted"
                           => c \in overlapped]_commentVars

(* All that list shows of an issue: top-level comments and their direct replies. *)
Shown(i) == TopLevel(i) \cup RepliesTo(TopLevel(i))

(* A client that pages through an issue's comments while nobody writes any has seen *)
(* all of them when list says there are no more: a cursor cut to milliseconds makes  *)
(* comments appear twice, and never skips one.                                       *)
ThreadPagesComplete ==
  \A r \in Requests :
    pc[r] = "done" /\ walk[r].quiet /\ ~walk[r].more => walk[r].seen = Shown(job[r].issue)
=============================================================================
