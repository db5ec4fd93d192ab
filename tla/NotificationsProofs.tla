------------------------- MODULE NotificationsProofs -------------------------
(***************************************************************************)
(* Proofs about Comments and Notifications: nobody is told of a comment    *)
(* that does not exist, what was deleted stays deleted unless it was being *)
(* edited, no published mention is lost between database and queue, or     *)
(* saved twice unless a call failed or came late; a thread nobody writes to *)
(* is read whole page by page, and enough failing saves open the circuit.  *)
(*                                                                         *)
(* The inductive invariant IInv says what a request knows of the comment   *)
(* it works on (CommentInv), that a comment is published once (PublishInv), *)
(* and what is behind every handler (HandlerInv) and every row and message *)
(* (DeliveryInv).  OnceInv adds that a mention is pending, queued or saved, *)
(* in this order; WalkInv what a client has seen of a thread when it asks for *)
(* the next page; TypeInv that rows and consumers about to save are counted by *)
(* the receives of their message; TripInv that failures counted while the  *)
(* circuit is closed stay within the thresholds, server by server.         *)
(***************************************************************************)
EXTENDS Notifications, OrderLemmas, SequenceTheorems

IsRow(c) == DOMAIN c = {"state", "issue", "author", "parent", "text"}

(* Nobody is mentioned twice in a text. *)
Distinct(text) == \A m, n \in DOMAIN text : text[m] = text[n] => m = n

IsJob(j) ==
  /\ DOMAIN j = {"op", "at", "comment", "issue", "actor", "parent", "text"}
  /\ j.text \in Seq(Users) /\ Distinct(j.text)

Written(c) == comments[c].state # "none"

(* What a request at a step knows of the comment it works on, and the copy it has. *)
Knows(step, j, k) ==
  /\ step # "idle" => IsJob(j)
  /\ step \in {"find", "select", "write", "remove", "publish"}
       => j.comment \in Comments /\ Written(j.comment)
  /\ step \in {"select", "write"}
       => /\ IsRow(k)
          /\ comments[j.comment].state = "deleted" => j.comment \in overlapped
  /\ step = "write" => k.state \in {"none", "live"}

CommentInv ==
  /\ workload \in Workload
  /\ comments = [c \in Comments |-> comments[c]] /\ \A c \in Comments : IsRow(comments[c])
  /\ pc = [r \in Requests |-> pc[r]] /\ job = [r \in Requests |-> job[r]]
  /\ copy = [r \in Requests |-> copy[r]]
  /\ \A r \in Requests : Knows(pc[r], job[r], copy[r])

(* A comment whose insert was answered has no handler yet, and no other request has it. *)
PublishInv ==
  \A r \in Requests : pc[r] = "publish" =>
    /\ handler[job[r].comment].todo = <<>>
    /\ \A q \in Requests \ {r} : pc[q] = "publish" => job[q].comment # job[r].comment

IsHandler(h) ==
  /\ DOMAIN h = {"step", "at", "todo"}
  /\ h.todo \in Seq(Users) /\ (h.step = "none" <=> h.todo = <<>>)
  /\ Distinct(h.todo)

IsMessage(m) == DOMAIN m = {"place", "visible", "receives"}

HandlerInv ==
  /\ handler = [c \in Comments |-> handler[c]] /\ \A c \in Comments : IsHandler(handler[c])
  /\ \A c \in Comments : handler[c].todo # <<>> => Written(c)

DeliveryInv ==
  /\ saved \in [Deliveries -> Nat]
  /\ queue = [d \in Deliveries |-> queue[d]] /\ \A d \in Deliveries : IsMessage(queue[d])
  /\ work \in [Servers -> [Deliveries -> {"none", "check", "save", "delete"}]]
  /\ \A s \in Servers, d \in Deliveries :
       /\ work[s][d] # "none" => queue[d].place # "none"
       /\ work[s][d] = "delete" => saved[d] > 0

IInv == CommentInv /\ PublishInv /\ HandlerInv /\ DeliveryInv /\ NotifiedCommentExists

(* What the action properties say of a step. *)
Undeleted ==
  \A c \in Comments :
    comments[c].state = "deleted" /\ comments'[c].state # "deleted" => c \in overlapped

StaysAccounted == \A d \in Deliveries : Accounted(d) => Accounted(d)'

StaysWritten == \A c \in Comments : Written(c) => Written(c)'

-----------------------------------------------------------------------------
LEMMA TextsAreSequences == \A text \in Texts : text \in Seq(Users) /\ Distinct(text)
<1> SUFFICES ASSUME NEW text \in Texts PROVE text \in Seq(Users) /\ Distinct(text)
  OBVIOUS
<1>1. PICK n \in 0..Cardinality(Users) : text \in [1..n -> Users]
  BY DEF Texts
<1>2. n \in Nat
  BY <1>1
<1>3. Distinct(text)
  BY DEF Texts, Distinct
<1> QED
  BY <1>1, <1>2, <1>3

(* A request goes on, and the tables stay as they are. *)
LEMMA LocalKeeps ==
  ASSUME CommentInv, PublishInv, NEW r \in Requests, NEW step, NEW j, NEW k,
         step # "publish", Knows(step, j, k),
         pc' = [pc EXCEPT ![r] = step], job' = [job EXCEPT ![r] = j],
         copy' = [copy EXCEPT ![r] = k],
         UNCHANGED <<workload, comments, overlapped, handler>>
  PROVE  CommentInv' /\ PublishInv' /\ StaysWritten /\ Undeleted
<1>1. pc'[r] = step /\ job'[r] = j /\ copy'[r] = k
  BY DEF CommentInv
<1>2. \A q \in Requests \ {r} : pc'[q] = pc[q] /\ job'[q] = job[q] /\ copy'[q] = copy[q]
  BY DEF CommentInv
<1>3. CommentInv'
  BY <1>1, <1>2 DEF CommentInv, Knows, Written
<1>4. PublishInv'
  BY <1>1, <1>2 DEF PublishInv
<1> QED
  BY <1>3, <1>4 DEF StaysWritten, Written, Undeleted

LEMMA ReplyKeeps ==
  ASSUME CommentInv, PublishInv, NEW r \in Requests, Reply(r),
         UNCHANGED <<workload, comments, overlapped, handler>>
  PROVE  CommentInv' /\ PublishInv' /\ StaysWritten /\ Undeleted
<1>1. PICK j, k : /\ pc' = [pc EXCEPT ![r] = "idle"] /\ job' = [job EXCEPT ![r] = j]
                  /\ copy' = [copy EXCEPT ![r] = k]
  BY DEF Reply, Goto
<1>2. Knows("idle", j, k)
  BY DEF Knows
<1> QED
  BY <1>1, <1>2, LocalKeeps

(* A request comes. *)
LEMMA StartKeeps ==
  ASSUME CommentInv, PublishInv, NEW r \in Requests, NEW j, NEW step, Start(r, j, step),
         IsJob(j), step \in {"resolve", "parent", "find", "page"},
         step = "find" => j.comment \in Comments /\ Written(j.comment),
         UNCHANGED handler
  PROVE  CommentInv' /\ PublishInv' /\ StaysWritten /\ Undeleted
<1>1. PICK k : k = copy[r]
  OBVIOUS
<1>2. /\ pc' = [pc EXCEPT ![r] = step] /\ job' = [job EXCEPT ![r] = j]
      /\ copy' = [copy EXCEPT ![r] = k] /\ UNCHANGED <<workload, comments, overlapped>>
  BY <1>1 DEF Start, Goto, CommentInv
<1>3. Knows(step, j, k)
  BY DEF Knows
<1> QED
  BY <1>2, <1>3, LocalKeeps

(* A request goes on with the same job and copy. *)
LEMMA GotoKeeps ==
  ASSUME CommentInv, PublishInv, NEW r \in Requests, NEW step, Goto(r, step),
         pc[r] # "idle", step \in {"resolve", "insert", "page", "replies", "done"},
         UNCHANGED <<workload, comments, job, copy, overlapped, handler>>
  PROVE  CommentInv' /\ PublishInv' /\ StaysWritten /\ Undeleted
<1>1. PICK j, k : j = job[r] /\ k = copy[r]
  OBVIOUS
<1>2. /\ pc' = [pc EXCEPT ![r] = step] /\ job' = [job EXCEPT ![r] = j]
      /\ copy' = [copy EXCEPT ![r] = k]
  BY <1>1 DEF Goto, CommentInv
<1>3. Knows(step, j, k)
  BY <1>1 DEF CommentInv, Knows
<1> QED
  BY <1>2, <1>3, LocalKeeps

-----------------------------------------------------------------------------
(* What the actions of requests keep. *)
Keeps == CommentInv' /\ PublishInv' /\ StaysWritten /\ Undeleted

LEMMA StartsKeep ==
  ASSUME CommentInv, PublishInv, UNCHANGED handler, NEW r \in Requests, NEW s,
         \/ \E u \in Users :
              \/ \E i \in Issues, p \in Comments \cup {None}, text \in Texts :
                   CreateComment(r, s, i, u, p, text)
              \/ \E c \in Comments, text \in Texts : EditComment(r, s, c, u, text)
              \/ \E c \in Comments : DeleteComment(r, s, c, u)
         \/ \E i \in Issues : ListComments(r, s, i)
  PROVE  Keeps
<1>1. PICK j, step :
        /\ Start(r, j, step) /\ step \in {"resolve", "parent", "find", "page"}
        /\ IsJob(j) /\ (step = "find" => j.comment \in Comments /\ Written(j.comment))
  <2>1. ASSUME NEW u \in Users, NEW i \in Issues, NEW p \in Comments \cup {None},
               NEW text \in Texts, CreateComment(r, s, i, u, p, text)
        PROVE  \E j, step :
                 /\ Start(r, j, step) /\ step \in {"resolve", "parent"} /\ IsJob(j)
    <3>1. PICK j : j = [NoJob EXCEPT !.op = "create", !.at = s, !.issue = i, !.actor = u,
                                     !.parent = p, !.text = text]
      OBVIOUS
    <3>2. IsJob(j)
      BY <3>1, TextsAreSequences DEF NoJob, IsJob
    <3>3. Start(r, j, IF p = None THEN "resolve" ELSE "parent")
      BY <2>1, <3>1 DEF CreateComment
    <3> QED
      BY <3>2, <3>3
  <2>2. ASSUME NEW u \in Users, NEW c \in Comments, NEW text \in Texts,
               EditComment(r, s, c, u, text)
        PROVE  \E j : Start(r, j, "find") /\ IsJob(j) /\ j.comment \in Comments /\ Written(j.comment)
    <3>1. PICK j : j = [NoJob EXCEPT !.op = "update", !.at = s, !.comment = c, !.actor = u,
                                     !.text = text]
      OBVIOUS
    <3>2. IsJob(j) /\ j.comment = c
      BY <3>1, TextsAreSequences DEF NoJob, IsJob
    <3>3. Start(r, j, "find") /\ Written(c)
      BY <2>2, <3>1 DEF EditComment, Written
    <3> QED
      BY <3>2, <3>3
  <2>3. ASSUME NEW u \in Users, NEW c \in Comments, DeleteComment(r, s, c, u)
        PROVE  \E j : Start(r, j, "find") /\ IsJob(j) /\ j.comment \in Comments /\ Written(j.comment)
    <3>1. PICK j : j = [NoJob EXCEPT !.op = "delete", !.at = s, !.comment = c, !.actor = u]
      OBVIOUS
    <3>2. IsJob(j) /\ j.comment = c
      BY <3>1 DEF NoJob, NoText, IsJob, Distinct
    <3>3. Start(r, j, "find") /\ Written(c)
      BY <2>3, <3>1 DEF DeleteComment, Written
    <3> QED
      BY <3>2, <3>3
  <2>4. ASSUME NEW i \in Issues, ListComments(r, s, i)
        PROVE  \E j : Start(r, j, "page") /\ IsJob(j)
    <3>1. PICK j : j = [NoJob EXCEPT !.op = "list", !.at = s, !.issue = i]
      OBVIOUS
    <3>2. IsJob(j)
      BY <3>1 DEF NoJob, NoText, IsJob, Distinct
    <3>3. Start(r, j, "page")
      BY <2>4, <3>1 DEF ListComments
    <3> QED
      BY <3>2, <3>3
  <2> QED
    BY <2>1, <2>2, <2>3, <2>4
<1> QED
  BY <1>1, StartKeeps DEF Keeps

LEMMA InsertKeeps ==
  ASSUME CommentInv, PublishInv, HandlerInv, UNCHANGED handler, NEW r \in Requests,
         InsertComment(r)
  PROVE  Keeps
<1>1. CASE Reply(r) /\ UNCHANGED comments
  BY <1>1, ReplyKeeps DEF InsertComment, Keeps
<1>2. ASSUME NEW c \in Unwritten,
             comments' = [comments EXCEPT ![c] =
               [state |-> "live", issue |-> job[r].issue, author |-> job[r].actor,
                parent |-> job[r].parent, text |-> job[r].text]],
             job' = [job EXCEPT ![r].comment = c], Goto(r, "publish"), UNCHANGED copy
      PROVE  Keeps
  <2>1. c \in Comments /\ ~Written(c)
    BY DEF Unwritten, CommentInv, Workload, Written
  <2>2. pc[r] = "insert" /\ UNCHANGED <<workload, overlapped>>
    BY DEF InsertComment
  <2>3. /\ comments'[c].state = "live" /\ IsRow(comments'[c])
        /\ \A e \in Comments \ {c} : comments'[e] = comments[e]
        /\ comments' = [e \in Comments |-> comments'[e]]
    BY <1>2, <2>1 DEF CommentInv, IsRow
  <2>4. /\ pc'[r] = "publish" /\ IsJob(job'[r]) /\ job'[r].comment = c
        /\ \A q \in Requests \ {r} : pc'[q] = pc[q] /\ job'[q] = job[q]
        /\ pc' = [q \in Requests |-> pc'[q]] /\ job' = [q \in Requests |-> job'[q]]
    BY <1>2, <2>2 DEF CommentInv, Knows, IsJob, Goto
  <2>5. StaysWritten /\ Undeleted
    BY <2>1, <2>3 DEF StaysWritten, Undeleted, Written
  <2>6. \A q \in Requests : Knows(pc[q], job[q], copy[q])'
    BY <1>2, <2>1, <2>2, <2>3, <2>4 DEF CommentInv, Knows, Written
  <2>7. CommentInv'
    BY <1>2, <2>2, <2>3, <2>4, <2>6 DEF CommentInv
  <2>8. \A q \in Requests \ {r} : pc[q] = "publish" => job[q].comment # c
    BY <2>1 DEF CommentInv, Knows
  <2>9. handler[c].todo = <<>>
    BY <2>1 DEF HandlerInv
  <2>10. \A q \in Requests : pc[q] = "publish" => handler[job[q].comment].todo = <<>>
    BY DEF PublishInv
  <2>11. PublishInv'
    BY <2>4, <2>8, <2>9, <2>10 DEF PublishInv
  <2> QED
    BY <2>5, <2>7, <2>11 DEF Keeps
<1> QED
  BY <1>1, <1>2 DEF InsertComment

(* update: the row is found, read again, and written. *)
LEMMA FindKeeps ==
  ASSUME CommentInv, PublishInv, UNCHANGED handler, NEW r \in Requests, FindComment(r)
  PROVE  Keeps
<1>1. CASE Reply(r)
  BY <1>1, ReplyKeeps DEF FindComment, Keeps
<1>2. CASE ~Reply(r)
  <2>1. PICK step, j, k :
          /\ step \in {"select", "remove"}
          /\ j = job[r] /\ k = comments[j.comment] /\ Live(j.comment) /\ Goto(r, step)
          /\ copy' = [copy EXCEPT ![r] = k] /\ UNCHANGED job
    BY <1>2 DEF FindComment
  <2>2. Knows(step, j, k)
    BY <2>1 DEF FindComment, CommentInv, Knows, Live, Written
  <2>3. job' = [job EXCEPT ![r] = j]
    BY <2>1 DEF CommentInv
  <2> QED
    BY <2>1, <2>2, <2>3, LocalKeeps DEF FindComment, Goto, Keeps
<1> QED
  BY <1>1, <1>2

LEMMA SelectKeeps ==
  ASSUME CommentInv, PublishInv, UNCHANGED handler, NEW r \in Requests, SelectRow(r)
  PROVE  Keeps
<1>1. PICK j, state, k :
        /\ j = job[r] /\ state \in {"none", "live"}
        /\ k = [copy[r] EXCEPT !.text = j.text, !.state = state]
        /\ copy' = [copy EXCEPT ![r] = k]
  BY DEF SelectRow, CommentInv
<1>2. IsRow(copy[r])
  BY DEF SelectRow, CommentInv, Knows
<1>3. IsRow(k) /\ k.state = state
  BY <1>1, <1>2 DEF IsRow
<1>4. Knows("write", j, k)
  BY <1>1, <1>3 DEF SelectRow, CommentInv, Knows
<1>5. job' = [job EXCEPT ![r] = j]
  BY <1>1 DEF SelectRow, CommentInv
<1>6. pc' = [pc EXCEPT ![r] = "write"] /\ UNCHANGED <<workload, comments, overlapped, handler>>
  BY DEF SelectRow, Goto
<1>7. copy' = [copy EXCEPT ![r] = k]
  BY <1>1
<1> QED
  BY <1>4, <1>5, <1>6, <1>7, LocalKeeps DEF Keeps

LEMMA WriteKeeps ==
  ASSUME CommentInv, PublishInv, UNCHANGED handler, NEW r \in Requests, WriteRow(r)
  PROVE  Keeps
<1>1. CASE UNCHANGED comments
  BY <1>1, ReplyKeeps DEF WriteRow, Keeps
<1>2. CASE comments' = [comments EXCEPT
             ![job[r].comment].text = copy[r].text,
             ![job[r].comment].state = IF copy[r].state = "none" THEN @ ELSE copy[r].state]
  <2>1. PICK c : c = job[r].comment
    OBVIOUS
  <2>2. /\ pc[r] = "write" /\ Reply(r) /\ UNCHANGED <<workload, overlapped>>
        /\ c \in Comments /\ Written(c) /\ copy[r].state \in {"none", "live"}
        /\ comments[c].state = "deleted" => c \in overlapped
    BY <2>1 DEF WriteRow, CommentInv, Knows
  <2>3. /\ IsRow(comments'[c]) /\ comments'[c].state \in {comments[c].state, "live"}
        /\ \A e \in Comments \ {c} : comments'[e] = comments[e]
        /\ comments' = [e \in Comments |-> comments'[e]]
    BY <1>2, <2>1, <2>2 DEF CommentInv, IsRow
  <2>4. /\ pc'[r] = "idle" /\ pc' = [q \in Requests |-> pc'[q]]
        /\ job' = [q \in Requests |-> job'[q]] /\ copy' = [q \in Requests |-> copy'[q]]
        /\ \A q \in Requests \ {r} : pc'[q] = pc[q] /\ job'[q] = job[q] /\ copy'[q] = copy[q]
    BY <2>2 DEF Reply, Goto, CommentInv
  <2>5. StaysWritten /\ Undeleted
    BY <2>2, <2>3 DEF StaysWritten, Undeleted, Written
  <2>6. \A q \in Requests : Knows(pc[q], job[q], copy[q])'
    BY <2>2, <2>3, <2>4 DEF CommentInv, Knows, Written
  <2>7. CommentInv' /\ PublishInv'
    BY <2>2, <2>3, <2>4, <2>6 DEF CommentInv, PublishInv
  <2> QED
    BY <2>5, <2>7 DEF Keeps
<1> QED
  BY <1>1, <1>2 DEF WriteRow

(* delete: whoever was about to save the row is overlapped. *)
LEMMA SoftDeleteKeeps ==
  ASSUME CommentInv, PublishInv, UNCHANGED handler, NEW r \in Requests, SoftDelete(r)
  PROVE  Keeps
<1>1. CASE UNCHANGED <<comments, overlapped>>
  BY <1>1, ReplyKeeps DEF SoftDelete, Keeps
<1>2. CASE /\ comments' = [comments EXCEPT ![job[r].comment].state = "deleted"]
           /\ overlapped' = IF \E q \in Requests : /\ pc[q] \in {"select", "write"}
                                                   /\ job[q].comment = job[r].comment
                              THEN overlapped \cup {job[r].comment} ELSE overlapped
  <2>1. PICK c : c = job[r].comment
    OBVIOUS
  <2>2. pc[r] = "remove" /\ Reply(r) /\ UNCHANGED workload /\ c \in Comments /\ Written(c)
    BY <2>1 DEF SoftDelete, CommentInv, Knows
  <2>3. /\ IsRow(comments'[c]) /\ comments'[c].state = "deleted"
        /\ \A e \in Comments \ {c} : comments'[e] = comments[e]
        /\ comments' = [e \in Comments |-> comments'[e]]
    BY <1>2, <2>1, <2>2 DEF CommentInv, IsRow
  <2>4. /\ pc'[r] = "idle" /\ pc' = [q \in Requests |-> pc'[q]]
        /\ job' = [q \in Requests |-> job'[q]] /\ copy' = [q \in Requests |-> copy'[q]]
        /\ \A q \in Requests \ {r} : pc'[q] = pc[q] /\ job'[q] = job[q] /\ copy'[q] = copy[q]
    BY <2>2 DEF Reply, Goto, CommentInv
  <2>5. /\ \A e \in overlapped : e \in overlapped'
        /\ \A q \in Requests : pc[q] \in {"select", "write"} /\ job[q].comment = c => c \in overlapped'
    BY <1>2, <2>1
  <2>6. StaysWritten /\ Undeleted
    BY <2>2, <2>3 DEF StaysWritten, Undeleted, Written
  <2>7. \A q \in Requests : Knows(pc[q], job[q], copy[q])'
    BY <2>2, <2>3, <2>4, <2>5 DEF CommentInv, Knows, Written
  <2>8. CommentInv' /\ PublishInv'
    BY <2>2, <2>3, <2>4, <2>7 DEF CommentInv, PublishInv
  <2> QED
    BY <2>6, <2>8 DEF Keeps
<1> QED
  BY <1>1, <1>2 DEF SoftDelete

LEMMA CommentStepKeeps ==
  ASSUME IInv, UNCHANGED notifyVars, NEW s, CommentStep(s)
  PROVE  Keeps
<1> USE DEF IInv, notifyVars
<1> PICK r \in Requests :
      \/ \E u \in Users :
           \/ \E i \in Issues, p \in Comments \cup {None}, text \in Texts :
                CreateComment(r, s, i, u, p, text)
           \/ \E c \in Comments, text \in Texts : EditComment(r, s, c, u, text)
           \/ \E c \in Comments : DeleteComment(r, s, c, u)
      \/ \E i \in Issues : ListComments(r, s, i)
      \/ FindParent(r) \/ ResolveHandles(r) \/ InsertComment(r)
      \/ FindComment(r) \/ SelectRow(r) \/ WriteRow(r) \/ SoftDelete(r)
      \/ ReadPage(r) \/ ReadReplies(r) \/ NextPage(r) \/ LeaveList(r)
  BY DEF CommentStep
<1>1. CASE FindParent(r)
  BY <1>1, GotoKeeps, ReplyKeeps DEF FindParent, Keeps
<1>2. CASE ResolveHandles(r)
  BY <1>2, GotoKeeps, ReplyKeeps DEF ResolveHandles, Keeps
<1>3. CASE ReadPage(r)
  BY <1>3, GotoKeeps DEF ReadPage, Keeps
<1>4. CASE ReadReplies(r)
  BY <1>4, GotoKeeps DEF ReadReplies, Keeps
<1>5. CASE NextPage(r)
  BY <1>5, GotoKeeps DEF NextPage, Keeps
<1>6. CASE LeaveList(r)
  BY <1>6, ReplyKeeps DEF LeaveList, Keeps
<1>7. CASE InsertComment(r)
  BY <1>7, InsertKeeps
<1>8. CASE FindComment(r)
  BY <1>8, FindKeeps
<1>9. CASE SelectRow(r)
  BY <1>9, SelectKeeps
<1>10. CASE WriteRow(r)
  BY <1>10, WriteKeeps
<1>11. CASE SoftDelete(r)
  BY <1>11, SoftDeleteKeeps
<1> QED
  BY <1>1, <1>2, <1>3, <1>4, <1>5, <1>6, <1>7, <1>8, <1>9, <1>10, <1>11, StartsKeep

-----------------------------------------------------------------------------
(* What handlers do: they begin with all mentions, and drop one after the other. *)
HandlersKept ==
  /\ handler' = [c \in Comments |-> handler'[c]]
  /\ \A c \in Comments : IsHandler(handler'[c])
  /\ \A c \in Comments : handler[c].todo = <<>> => handler'[c].todo = <<>>

LEMMA StepFacts ==
  ASSUME HandlerInv, NEW c \in Comments, NEW step, step # "none", handler[c].step # "none",
         Step(c, step)
  PROVE  HandlersKept /\ \A d \in Deliveries : d \in Pending(d[1]) => (d \in Pending(d[1]))'
<1>1. /\ handler'[c].todo = handler[c].todo /\ IsHandler(handler'[c])
      /\ \A e \in Comments \ {c} : handler'[e] = handler[e]
      /\ handler' = [e \in Comments |-> handler'[e]]
  BY DEF HandlerInv, IsHandler, Step
<1>2. HandlersKept
  BY <1>1 DEF HandlersKept, HandlerInv
<1>3. \A e \in Comments : handler'[e].todo = handler[e].todo
  BY <1>1
<1>4. \A d \in Deliveries : d[1] \in Comments
  BY DEF Deliveries
<1> QED
  BY <1>2, <1>3, <1>4 DEF Pending

LEMMA NextMentionFacts ==
  ASSUME HandlerInv, NEW c \in Comments, handler[c].step # "none", NextMention(c)
  PROVE  /\ HandlersKept /\ Current(c) \in Deliveries /\ Written(c)
         /\ \A d \in Deliveries : d \in Pending(d[1]) /\ d # Current(c) => (d \in Pending(d[1]))'
         /\ Current(c) \in Pending(c)
         /\ \A d \in Deliveries : (d \in Pending(d[1]))' => d \in Pending(d[1]) /\ d # Current(c)
<1>1. PICK todo \in Seq(Users) : todo = handler[c].todo /\ todo # <<>> /\ IsHandler(handler[c])
  BY DEF HandlerInv, IsHandler
<1>2. PICK new : /\ handler' = [handler EXCEPT ![c] = new] /\ IsHandler(new)
                 /\ new.todo = IF Len(todo) = 1 THEN <<>> ELSE Tail(todo)
  <2>1. CASE Len(todo) = 1
    <3>1. PICK new : new = NoHandler
      OBVIOUS
    <3>2. IsHandler(new) /\ new.todo = <<>>
      BY <3>1 DEF NoHandler, NoText, IsHandler, Distinct
    <3>3. handler' = [handler EXCEPT ![c] = new]
      BY <1>1, <2>1, <3>1 DEF NextMention, HandlerInv
    <3> QED
      BY <2>1, <3>2, <3>3
  <2>2. CASE Len(todo) # 1
    <3>1. Tail(todo) \in Seq(Users) /\ Len(Tail(todo)) = Len(todo) - 1 /\ Len(todo) \in Nat
      BY <1>1, HeadTailProperties
    <3>2. Tail(todo) # <<>>
      <4>1. Len(<<>>) = 0
        BY EmptySeq
      <4>2. Len(Tail(todo)) # 0
        BY <2>2, <3>1
      <4> QED
        BY <4>1, <4>2
    <3>3. PICK new : new = [step |-> "state", at |-> handler[c].at, todo |-> Tail(todo)]
      OBVIOUS
    <3>4. Distinct(Tail(todo))
      <4>1. \A n \in DOMAIN Tail(todo) : n + 1 \in DOMAIN todo /\ Tail(todo)[n] = todo[n + 1]
        BY <1>1, <3>1
      <4>2. Distinct(todo)
        BY <1>1 DEF IsHandler
      <4>3. DOMAIN Tail(todo) = 1..Len(Tail(todo)) /\ Len(Tail(todo)) \in Nat
        BY <3>1
      <4> QED
        BY <4>1, <4>2, <4>3 DEF Distinct
    <3>5. IsHandler(new) /\ new.todo = Tail(todo)
      BY <3>1, <3>2, <3>3, <3>4 DEF IsHandler
    <3>6. handler' = [handler EXCEPT ![c] = new]
      BY <1>1, <2>2, <3>3 DEF NextMention, HandlerInv
    <3> QED
      BY <2>2, <3>5, <3>6
  <2> QED
    BY <2>1, <2>2
<1>3. /\ handler'[c] = new /\ \A e \in Comments \ {c} : handler'[e] = handler[e]
      /\ handler' = [e \in Comments |-> handler'[e]]
  BY <1>2 DEF HandlerInv
<1>4. HandlersKept /\ Written(c)
  BY <1>1, <1>2, <1>3 DEF HandlersKept, HandlerInv
<1>5. Current(c) = <<c, Head(todo)>> /\ Head(todo) \in Users
  BY <1>1 DEF Current
<1>6. ASSUME NEW d \in Deliveries, d \in Pending(d[1]), d # Current(c)
      PROVE  (d \in Pending(d[1]))'
  <2>1. d[1] \in Comments
    BY DEF Deliveries
  <2>2. CASE d[1] # c
    BY <1>3, <1>6, <2>1, <2>2 DEF Pending
  <2>3. CASE d[1] = c
    <3>1. PICK n \in 1..Len(todo) : d = <<c, todo[n]>>
      BY <1>1, <1>6, <2>3 DEF Pending
    <3>2. n # 1 /\ Len(todo) # 1
      BY <1>1, <1>5, <1>6, <3>1
    <3>3. n - 1 \in DOMAIN Tail(todo) /\ Tail(todo)[n - 1] = todo[n]
      BY <1>1, <3>2
    <3>4. handler'[c].todo = Tail(todo)
      BY <1>2, <1>3, <3>2
    <3> QED
      BY <2>3, <3>1, <3>3, <3>4 DEF Pending
  <2> QED
    BY <2>2, <2>3
<1>7. Current(c) \in Pending(c)
  <2>1. 1 \in DOMAIN todo /\ todo[1] = Head(todo)
    BY <1>1
  <2> QED
    BY <1>1, <1>5, <2>1 DEF Pending
<1>8. ASSUME NEW d \in Deliveries, (d \in Pending(d[1]))'
      PROVE  d \in Pending(d[1]) /\ d # Current(c)
  <2>1. d[1] \in Comments
    BY DEF Deliveries
  <2>2. CASE d[1] # c
    BY <1>3, <1>5, <1>8, <2>1, <2>2 DEF Pending
  <2>3. CASE d[1] = c
    <3>1. PICK n : n \in DOMAIN new.todo /\ d = <<c, new.todo[n]>>
      BY <1>3, <1>8, <2>3 DEF Pending
    <3>2. new.todo = Tail(todo) /\ Len(todo) # 1
      BY <1>2, <3>1
    <3>3. n + 1 \in DOMAIN todo /\ d = <<c, todo[n + 1]>> /\ n + 1 # 1 /\ 1 \in DOMAIN todo
      <4>1. DOMAIN Tail(todo) = 1..Len(todo) - 1 /\ Len(todo) \in Nat
        BY <1>1
      <4> QED
        BY <1>1, <3>1, <3>2, <4>1
    <3>4. todo[n + 1] # todo[1] /\ Head(todo) = todo[1]
      BY <1>1, <3>3 DEF IsHandler, Distinct
    <3> QED
      BY <1>1, <1>5, <2>3, <3>3, <3>4 DEF Pending
  <2> QED
    BY <2>2, <2>3
<1> QED
  BY <1>4, <1>5, <1>6, <1>7, <1>8 DEF Deliveries

(* Handlers and consumers do nothing to comments and requests. *)
LEMMA HandlingKeeps ==
  ASSUME IInv, HandlersKept, UNCHANGED commentVars
  PROVE  CommentInv' /\ PublishInv' /\ HandlerInv' /\ Undeleted
<1>1. CommentInv' /\ Undeleted /\ StaysWritten
  BY DEF IInv, commentVars, requestVars, CommentInv, Knows, Written, Undeleted, StaysWritten
<1>2. PublishInv'
  BY DEF IInv, CommentInv, Knows, PublishInv, HandlersKept, commentVars, requestVars
<1>3. HandlerInv'
  BY <1>1 DEF IInv, HandlerInv, HandlersKept, StaysWritten
<1> QED
  BY <1>1, <1>2, <1>3

LEMMA UnhandledKeeps ==
  ASSUME IInv, UNCHANGED <<commentVars, handler>>
  PROVE  /\ CommentInv' /\ PublishInv' /\ HandlerInv' /\ Undeleted
         /\ \A d \in Deliveries : d \in Pending(d[1]) => (d \in Pending(d[1]))'
<1>1. HandlersKept
  BY DEF IInv, HandlerInv, HandlersKept
<1> QED
  BY <1>1, HandlingKeeps DEF Pending

-----------------------------------------------------------------------------
(* Each step keeps the invariant and what the action properties ask. *)
Goes == IInv' /\ Undeleted /\ StaysAccounted

LEMMA CommentsGo ==
  ASSUME IInv, UNCHANGED notifyVars, NEW s, CommentStep(s)
  PROVE  Goes
<1>1. Keeps
  BY CommentStepKeeps
<1>2. HandlerInv' /\ DeliveryInv' /\ NotifiedCommentExists'
  BY <1>1 DEF IInv, HandlerInv, DeliveryInv, NotifiedCommentExists, notifyVars, Keeps,
              StaysWritten, Written, Deliveries
<1>3. StaysAccounted
  BY DEF StaysAccounted, Accounted, Pending, notifyVars
<1> QED
  BY <1>1, <1>2, <1>3 DEF Keeps, Goes, IInv

LEMMA PublishGoes ==
  ASSUME IInv, NEW r \in Requests, Publish(r)
  PROVE  Goes
<1>1. PICK c, text : c = job[r].comment /\ text = job[r].text
  OBVIOUS
<1>2. /\ pc[r] = "publish" /\ c \in Comments /\ Written(c) /\ text \in Seq(Users) /\ Distinct(text)
      /\ handler[c].todo = <<>>
  BY <1>1 DEF Publish, PublishComment, IInv, CommentInv, Knows, IsJob, PublishInv
<1>3. /\ pc'[r] = "idle" /\ pc' = [q \in Requests |-> pc'[q]]
      /\ job' = [q \in Requests |-> job'[q]] /\ copy' = [q \in Requests |-> copy'[q]]
      /\ \A q \in Requests \ {r} : pc'[q] = pc[q] /\ job'[q] = job[q] /\ copy'[q] = copy[q]
  BY DEF Publish, PublishComment, Reply, Goto, IInv, CommentInv
<1>4. UNCHANGED <<workload, comments, overlapped>>
  BY DEF Publish, PublishComment
<1>5. CommentInv' /\ Undeleted
  BY <1>3, <1>4 DEF IInv, CommentInv, Knows, Written, Undeleted
<1>6. /\ handler' = [e \in Comments |-> handler'[e]] /\ IsHandler(handler'[c])
      /\ \A e \in Comments \ {c} : handler'[e] = handler[e]
  <2>1. CASE text = <<>>
    BY <1>1, <1>2, <2>1 DEF Publish, NoText, IInv, HandlerInv
  <2>2. CASE text # <<>>
    <3>1. PICK at : handler' = [handler EXCEPT ![c] = [step |-> "state", at |-> at, todo |-> text]]
      BY <1>1, <2>2 DEF Publish, NoText
    <3> QED
      BY <1>2, <2>2, <3>1 DEF IsHandler, IInv, HandlerInv
  <2> QED
    BY <2>1, <2>2
<1>7. HandlerInv'
  BY <1>2, <1>4, <1>6 DEF IInv, HandlerInv, Written
<1>8. PublishInv'
  <2>1. \A q \in Requests : pc'[q] = "publish" =>
          /\ q # r /\ pc[q] = "publish" /\ job'[q] = job[q]
          /\ job[q].comment \in Comments \ {c} /\ handler[job[q].comment].todo = <<>>
    BY <1>1, <1>2, <1>3 DEF IInv, CommentInv, Knows, PublishInv
  <2> QED
    BY <1>6, <2>1 DEF IInv, PublishInv
<1>9. DeliveryInv' /\ NotifiedCommentExists'
  BY <1>4 DEF Publish, IInv, DeliveryInv, NotifiedCommentExists, Deliveries
<1>10. ASSUME NEW d \in Deliveries, Accounted(d)
       PROVE  Accounted(d)'
  <2>1. d \in Pending(d[1]) => d[1] # c
    BY <1>2 DEF Pending
  <2>2. d[1] \in Comments
    BY DEF Deliveries
  <2>3. d \in Pending(d[1]) => (d \in Pending(d[1]))'
    BY <1>6, <2>1, <2>2 DEF Pending
  <2> QED
    BY <1>10, <2>3 DEF Accounted, Publish
<1> QED
  BY <1>5, <1>7, <1>8, <1>9, <1>10 DEF Goes, IInv, StaysAccounted

-----------------------------------------------------------------------------
(* The handler of a comment.  What is no longer pending was saved, queued or lost. *)
LEMMA ReadCircuitGoes ==
  ASSUME IInv, NEW c \in Comments, ReadCircuit(c)
  PROVE  Goes
<1>1. HandlersKept /\ \A d \in Deliveries : d \in Pending(d[1]) => (d \in Pending(d[1]))'
  BY StepFacts DEF IInv, ReadCircuit, Handles
<1>2. CommentInv' /\ PublishInv' /\ HandlerInv' /\ Undeleted
  BY <1>1, HandlingKeeps DEF ReadCircuit
<1>3. DeliveryInv' /\ NotifiedCommentExists'
  BY DEF ReadCircuit, IInv, DeliveryInv, NotifiedCommentExists, commentVars, Deliveries
<1>4. StaysAccounted
  BY <1>1 DEF StaysAccounted, Accounted, ReadCircuit
<1> QED
  BY <1>2, <1>3, <1>4 DEF Goes, IInv

LEMMA TripCircuitGoes ==
  ASSUME IInv, NEW c \in Comments, TripCircuit(c)
  PROVE  Goes
<1>1. HandlersKept /\ \A d \in Deliveries : d \in Pending(d[1]) => (d \in Pending(d[1]))'
  BY StepFacts DEF IInv, TripCircuit, Handles
<1>2. CommentInv' /\ PublishInv' /\ HandlerInv' /\ Undeleted
  BY <1>1, HandlingKeeps DEF TripCircuit
<1>3. DeliveryInv' /\ NotifiedCommentExists'
  BY DEF TripCircuit, IInv, DeliveryInv, NotifiedCommentExists, commentVars, Deliveries
<1>4. StaysAccounted
  BY <1>1 DEF StaysAccounted, Accounted, TripCircuit
<1> QED
  BY <1>2, <1>3, <1>4 DEF Goes, IInv

(* A row is saved for the comment a handler is at. *)
LEMMA SaveFacts ==
  ASSUME DeliveryInv, NEW d \in Deliveries, Save(d)
  PROVE  /\ saved' \in [Deliveries -> Nat] /\ saved'[d] > 0
         /\ \A e \in Deliveries : saved[e] > 0 => saved'[e] > 0
         /\ \A e \in Deliveries \ {d} : saved'[e] = saved[e]
BY DEF DeliveryInv, Save

LEMMA SaveNotificationGoes ==
  ASSUME IInv, NEW c \in Comments, SaveNotification(c)
  PROVE  Goes
<1>1. handler[c].step # "none" /\ UNCHANGED <<commentVars, queue, work, lost>>
  BY DEF SaveNotification, Handles
<1>2. Current(c) \in Deliveries /\ Written(c)
  <2>1. handler[c].todo \in Seq(Users) /\ handler[c].todo # <<>> /\ Written(c)
    BY <1>1 DEF IInv, HandlerInv, IsHandler
  <2>2. Head(handler[c].todo) \in Users
    BY <2>1, HeadTailProperties
  <2> QED
    BY <2>1, <2>2 DEF Current, Deliveries
<1>3. PICK e \in Deliveries : e = Current(c) /\ e[1] = c
  BY <1>2 DEF Current
<1>4. UNCHANGED saved \/ Save(e)
  BY <1>3 DEF SaveNotification
<1>5. HandlersKept /\ \A d \in Deliveries :
        d \in Pending(d[1]) => (d \in Pending(d[1]))' \/ (d = e /\ saved'[e] > 0)
  <2>1. CASE SaveFails(c)
    BY <1>1, <2>1, StepFacts DEF SaveFails, IInv
  <2>2. CASE Save(e) /\ NextMention(c)
    BY <1>1, <1>3, <2>2, NextMentionFacts, SaveFacts DEF IInv
  <2> QED
    BY <1>3, <2>1, <2>2 DEF SaveNotification
<1>6. /\ saved' \in [Deliveries -> Nat]
      /\ \A d \in Deliveries : saved[d] > 0 => saved'[d] > 0
      /\ \A d \in Deliveries : saved'[d] > 0 => saved[d] > 0 \/ d = e
  BY <1>4, SaveFacts DEF IInv, DeliveryInv
<1>7. CommentInv' /\ PublishInv' /\ HandlerInv' /\ Undeleted
  BY <1>1, <1>5, HandlingKeeps
<1>8. DeliveryInv'
  BY <1>1, <1>6 DEF IInv, DeliveryInv
<1>9. NotifiedCommentExists'
  BY <1>1, <1>2, <1>3, <1>6 DEF IInv, NotifiedCommentExists, Written, commentVars
<1>10. StaysAccounted
  BY <1>1, <1>5, <1>6 DEF StaysAccounted, Accounted
<1> QED
  BY <1>7, <1>8, <1>9, <1>10 DEF Goes, IInv

LEMMA EnqueueGoes ==
  ASSUME IInv, NEW c \in Comments, EnqueueNotification(c)
  PROVE  Goes
<1>1. handler[c].step # "none" /\ UNCHANGED <<commentVars, saved, work>> /\ NextMention(c)
  BY DEF EnqueueNotification, Handles
<1>2. /\ HandlersKept /\ Current(c) \in Deliveries /\ Written(c)
      /\ \A d \in Deliveries : d \in Pending(d[1]) /\ d # Current(c) => (d \in Pending(d[1]))'
  BY <1>1, NextMentionFacts DEF IInv
<1>3. PICK e \in Deliveries : e = Current(c) /\ e[1] = c
  BY <1>2 DEF Current
<1>4. /\ queue' = [d \in Deliveries |-> queue'[d]] /\ \A d \in Deliveries : IsMessage(queue'[d])
      /\ \A d \in Deliveries \ {e} : queue'[d] = queue[d]
      /\ lost \subseteq lost'
      /\ \/ queue'[e].place = "queue"
         \/ queue'[e] = queue[e] /\ e \in lost'
  <2>1. CASE Put(e) /\ UNCHANGED lost
    <3>1. PICK m : m = [place |-> "queue", visible |-> TRUE, receives |-> 0]
      OBVIOUS
    <3>2. IsMessage(m) /\ m.place = "queue" /\ queue' = [queue EXCEPT ![e] = m]
      BY <2>1, <3>1 DEF Put, IsMessage
    <3> QED
      BY <2>1, <3>2 DEF IInv, DeliveryInv
  <2>2. CASE UNCHANGED queue /\ lost' = lost \cup {e}
    BY <2>2 DEF IInv, DeliveryInv
  <2> QED
    BY <1>3, <2>1, <2>2 DEF EnqueueNotification
<1>5. CommentInv' /\ PublishInv' /\ HandlerInv' /\ Undeleted
  BY <1>1, <1>2, HandlingKeeps
<1>6. DeliveryInv'
  BY <1>1, <1>4 DEF IInv, DeliveryInv
<1>7. NotifiedCommentExists'
  BY <1>1, <1>2, <1>3, <1>4 DEF IInv, NotifiedCommentExists, Written, commentVars
<1>8. StaysAccounted
  BY <1>1, <1>2, <1>3, <1>4 DEF StaysAccounted, Accounted
<1> QED
  BY <1>5, <1>6, <1>7, <1>8 DEF Goes, IInv

-----------------------------------------------------------------------------
(* The consumers.  A message is deleted only when its row was saved. *)
LEMMA PollGoes ==
  ASSUME IInv, NEW s \in Servers, Poll(s)
  PROVE  Goes
<1>1. PICK batch \in SUBSET {d \in Deliveries : queue[d].place = "queue" /\ queue[d].visible},
           dead \in SUBSET Deliveries :
        /\ dead \subseteq batch
        /\ queue' = [d \in Deliveries |->
             IF d \in dead THEN [queue[d] EXCEPT !.place = "dead", !.visible = FALSE]
             ELSE IF d \in batch THEN [queue[d] EXCEPT !.visible = FALSE, !.receives = @ + 1]
             ELSE queue[d]]
        /\ work' = [work EXCEPT ![s] = [d \in Deliveries |->
             IF d \in batch \ dead THEN "check" ELSE "none"]]
  <2>1. PICK batch \in SUBSET {d \in Deliveries : queue[d].place = "queue" /\ queue[d].visible} :
          LET dead == {d \in batch : queue[d].receives = MaxReceives} IN
            /\ queue' = [d \in Deliveries |->
                 IF d \in dead THEN [queue[d] EXCEPT !.place = "dead", !.visible = FALSE]
                 ELSE IF d \in batch THEN [queue[d] EXCEPT !.visible = FALSE, !.receives = @ + 1]
                 ELSE queue[d]]
            /\ work' = [work EXCEPT ![s] = [d \in Deliveries |->
                 IF d \in batch \ dead THEN "check" ELSE "none"]]
    BY DEF Poll
  <2> QED
    BY <2>1
<1>2. /\ queue' = [d \in Deliveries |-> queue'[d]] /\ \A d \in Deliveries : IsMessage(queue'[d])
      /\ \A d \in Deliveries : queue[d].place = "none" <=> queue'[d].place = "none"
      /\ \A d \in Deliveries : queue[d].place \in {"queue", "dead"}
                                 => queue'[d].place \in {"queue", "dead"}
  BY <1>1 DEF IInv, DeliveryInv, IsMessage
<1>3. /\ work' \in [Servers -> [Deliveries -> {"none", "check", "save", "delete"}]]
      /\ \A t \in Servers, d \in Deliveries :
           \/ work'[t][d] = work[t][d]
           \/ work'[t][d] = "check" /\ queue'[d].place # "none"
           \/ work'[t][d] = "none"
  BY <1>1, <1>2 DEF IInv, DeliveryInv
<1>4. CommentInv' /\ PublishInv' /\ HandlerInv' /\ Undeleted
      /\ UNCHANGED saved
      /\ \A d \in Deliveries : d \in Pending(d[1]) => (d \in Pending(d[1]))'
  BY UnhandledKeeps DEF Poll
<1>5. DeliveryInv'
  <2>1. \A t \in Servers, d \in Deliveries :
          /\ work'[t][d] # "none" => queue'[d].place # "none"
          /\ work'[t][d] = "delete" => saved[d] > 0
    BY <1>2, <1>3 DEF IInv, DeliveryInv
  <2> QED
    BY <1>2, <1>3, <1>4, <2>1 DEF IInv, DeliveryInv
<1>6. NotifiedCommentExists'
  BY <1>2 DEF IInv, NotifiedCommentExists, Poll, commentVars
<1>7. StaysAccounted
  BY <1>2, <1>4 DEF StaysAccounted, Accounted, Poll
<1> QED
  BY <1>4, <1>5, <1>6, <1>7 DEF Goes, IInv

LEMMA ConsumerGoes ==
  ASSUME IInv, NEW s \in Servers, NEW d \in Deliveries,
         CheckCircuit(s, d) \/ SaveQueued(s, d) \/ DeleteMessage(s, d)
  PROVE  Goes
<1>1. UNCHANGED <<commentVars, handler, lost>> /\ work[s][d] # "none"
  BY DEF CheckCircuit, SaveQueued, DeleteMessage
<1>2. /\ \/ UNCHANGED saved \/ Save(d)
      /\ \/ UNCHANGED queue
         \/ /\ work[s][d] = "delete"
            /\ queue' = [queue EXCEPT ![d].place = "gone", ![d].visible = FALSE]
      /\ \E step \in {"none", "save", "delete"} :
           /\ work' = [work EXCEPT ![s][d] = step]
           /\ step = "delete" => Save(d)
  BY DEF CheckCircuit, SaveQueued, DeleteMessage, Proceed
<1>3. /\ saved' \in [Deliveries -> Nat]
      /\ \A e \in Deliveries : saved[e] > 0 => saved'[e] > 0
      /\ \A e \in Deliveries : saved'[e] > 0 => saved[e] > 0 \/ e = d
      /\ Save(d) => saved'[d] > 0
  BY <1>2, SaveFacts DEF IInv, DeliveryInv
<1>4. /\ queue' = [e \in Deliveries |-> queue'[e]] /\ \A e \in Deliveries : IsMessage(queue'[e])
      /\ \A e \in Deliveries : queue[e].place = "none" => queue'[e].place = "none" \/ e = d
      /\ \A e \in Deliveries : queue[e].place # "none" => queue'[e].place # "none"
      /\ \A e \in Deliveries : \/ queue'[e].place = queue[e].place
                               \/ saved[e] > 0
  BY <1>2 DEF IInv, DeliveryInv, IsMessage
<1>5. PICK step \in {"none", "save", "delete"} :
        /\ work' = [work EXCEPT ![s][d] = step] /\ (step = "delete" => saved'[d] > 0)
  BY <1>2, <1>3
<1>6. /\ work' \in [Servers -> [Deliveries -> {"none", "check", "save", "delete"}]]
      /\ work'[s][d] = step
      /\ \A t \in Servers, e \in Deliveries : t # s \/ e # d => work'[t][e] = work[t][e]
  BY <1>5 DEF IInv, DeliveryInv
<1>7. CommentInv' /\ PublishInv' /\ HandlerInv' /\ Undeleted
      /\ \A e \in Deliveries : e \in Pending(e[1]) => (e \in Pending(e[1]))'
  BY <1>1, UnhandledKeeps
<1>8. DeliveryInv'
  BY <1>1, <1>3, <1>4, <1>5, <1>6 DEF IInv, DeliveryInv
<1>9. queue[d].place # "none"
  BY <1>1 DEF IInv, DeliveryInv
<1>10. NotifiedCommentExists'
  BY <1>1, <1>3, <1>4, <1>9 DEF IInv, NotifiedCommentExists, commentVars
<1>11. StaysAccounted
  BY <1>1, <1>3, <1>4, <1>7 DEF StaysAccounted, Accounted
<1> QED
  BY <1>7, <1>8, <1>10, <1>11 DEF Goes, IInv

LEMMA VisibilityGoes ==
  ASSUME IInv, NEW d \in Deliveries, VisibilityTimeout(d)
  PROVE  Goes
<1>1. UNCHANGED <<commentVars, handler, saved, work, lost>> /\ queue[d].place = "queue"
  BY DEF VisibilityTimeout
<1>2. /\ queue' = [e \in Deliveries |-> queue'[e]] /\ \A e \in Deliveries : IsMessage(queue'[e])
      /\ \A e \in Deliveries : queue'[e].place = queue[e].place
  <2>1. PICK visible : queue' = [queue EXCEPT ![d].visible = visible]
    BY DEF VisibilityTimeout
  <2> QED
    BY <2>1 DEF IInv, DeliveryInv, IsMessage
<1>3. CommentInv' /\ PublishInv' /\ HandlerInv' /\ Undeleted
      /\ \A e \in Deliveries : e \in Pending(e[1]) => (e \in Pending(e[1]))'
  BY <1>1, UnhandledKeeps
<1>4. DeliveryInv'
  BY <1>1, <1>2 DEF IInv, DeliveryInv
<1>5. NotifiedCommentExists'
  BY <1>1, <1>2 DEF IInv, NotifiedCommentExists, commentVars
<1>6. StaysAccounted
  BY <1>1, <1>2, <1>3 DEF StaysAccounted, Accounted
<1> QED
  BY <1>3, <1>4, <1>5, <1>6 DEF Goes, IInv

LEMMA IdleGoes ==
  ASSUME IInv, UNCHANGED <<commentVars, handler, saved, queue, work, lost>>
  PROVE  Goes
<1>1. CommentInv' /\ PublishInv' /\ HandlerInv' /\ Undeleted
      /\ \A e \in Deliveries : e \in Pending(e[1]) => (e \in Pending(e[1]))'
  BY UnhandledKeeps
<1>2. DeliveryInv' /\ NotifiedCommentExists'
  BY DEF IInv, DeliveryInv, NotifiedCommentExists, commentVars, Deliveries
<1>3. StaysAccounted
  BY <1>1 DEF StaysAccounted, Accounted
<1> QED
  BY <1>1, <1>2, <1>3 DEF Goes, IInv

(* What a server that dies was handling is lost; what it received is not. *)
LEMMA CrashGoes ==
  ASSUME IInv, NEW s \in Servers, Crash(s)
  PROVE  Goes
<1>1. UNCHANGED <<workload, comments, overlapped, saved, queue>>
  BY DEF Crash, CutOff
<1>2. /\ pc' = [r \in Requests |-> pc'[r]] /\ job' = [r \in Requests |-> job'[r]]
      /\ copy' = [r \in Requests |-> copy'[r]]
      /\ \A r \in Requests :
           \/ pc'[r] = "idle"
           \/ pc'[r] = pc[r] /\ job'[r] = job[r] /\ copy'[r] = copy[r]
  BY DEF Crash, CutOff
<1>3. CommentInv' /\ Undeleted
  BY <1>1, <1>2 DEF IInv, CommentInv, Knows, Written, Undeleted
<1>4. /\ handler' = [c \in Comments |-> handler'[c]]
      /\ \A c \in Comments :
           \/ handler'[c] = handler[c]
           \/ /\ handler'[c] = NoHandler
              /\ handler[c].at = s
  BY DEF Crash
<1>5. IsHandler(NoHandler) /\ NoHandler.todo = <<>>
  BY DEF NoHandler, NoText, IsHandler, Distinct
<1>6. HandlerInv'
  BY <1>1, <1>4, <1>5 DEF IInv, HandlerInv, Written
<1>7. PublishInv'
  <2>1. \A r \in Requests : pc'[r] = "publish" =>
          /\ pc[r] = "publish" /\ job'[r] = job[r]
          /\ job[r].comment \in Comments /\ handler[job[r].comment].todo = <<>>
    BY <1>2 DEF IInv, CommentInv, Knows, PublishInv
  <2>2. \A c \in Comments : handler[c].todo = <<>> => handler'[c].todo = <<>>
    BY <1>4, <1>5
  <2> QED
    BY <2>1, <2>2 DEF IInv, PublishInv
<1>8. /\ work' \in [Servers -> [Deliveries -> {"none", "check", "save", "delete"}]]
      /\ \A t \in Servers, d \in Deliveries : work'[t][d] = work[t][d] \/ work'[t][d] = "none"
  BY DEF Crash, IInv, DeliveryInv
<1>9. DeliveryInv' /\ NotifiedCommentExists'
  BY <1>1, <1>8 DEF IInv, DeliveryInv, NotifiedCommentExists
<1>10. ASSUME NEW d \in Deliveries, Accounted(d)
       PROVE  Accounted(d)'
  <2>1. d[1] \in Comments
    BY DEF Deliveries
  <2>2. CASE d \in Pending(d[1])
    <3>1. CASE handler[d[1]].at = s
      BY <2>1, <2>2, <3>1 DEF Crash, Accounted
    <3>2. CASE handler[d[1]].at # s
      BY <1>4, <2>1, <2>2, <3>2 DEF Pending, Accounted
    <3> QED
      BY <3>1, <3>2
  <2>3. CASE d \in lost
    BY <2>3 DEF Crash, Accounted
  <2> QED
    BY <1>1, <1>10, <2>2, <2>3 DEF Accounted
<1> QED
  BY <1>3, <1>6, <1>7, <1>9, <1>10 DEF Goes, IInv, StaysAccounted

-----------------------------------------------------------------------------
LEMMA NextGoes ==
  ASSUME IInv, [Next]_vars
  PROVE  Goes
<1>1. CASE UNCHANGED vars
  BY <1>1, IdleGoes DEF vars, notifyVars
<1>2. ASSUME NEW s, CommentStep(s), UNCHANGED notifyVars PROVE Goes
  BY <1>2, CommentsGo
<1>3. ASSUME NEW r \in Requests, Publish(r) PROVE Goes
  BY <1>3, PublishGoes
<1>4. ASSUME NEW c \in Comments, Handle(c) PROVE Goes
  BY <1>4, ReadCircuitGoes, SaveNotificationGoes, TripCircuitGoes, EnqueueGoes DEF Handle
<1>5. CASE CircuitTimeout
  BY <1>5, IdleGoes DEF CircuitTimeout
<1>6. ASSUME NEW s \in Servers, Consume(s) \/ Crash(s) \/ Restart(s) PROVE Goes
  <2>1. CASE Restart(s)
    BY <2>1, IdleGoes DEF Restart
  <2> QED
    BY <1>6, <2>1, PollGoes, ConsumerGoes, CrashGoes DEF Consume
<1>7. ASSUME NEW d \in Deliveries, VisibilityTimeout(d) PROVE Goes
  BY <1>7, VisibilityGoes
<1> QED
  BY <1>1, <1>2, <1>3, <1>4, <1>5, <1>6, <1>7 DEF Next

LEMMA InitIInv == Init => IInv
<1> SUFFICES ASSUME Init PROVE IInv
  OBVIOUS
<1>1. PICK thread \in [workload.existing -> {None} \cup workload.existing] :
        comments = [c \in Comments |->
          IF c \in workload.existing THEN [NoRow EXCEPT !.state = "live", !.parent = thread[c]]
                                     ELSE NoRow]
  BY DEF Init, CommentsInit
<1>2. comments = [c \in Comments |-> comments[c]] /\ \A c \in Comments : IsRow(comments[c])
  <2> IsRow(NoRow)
    BY DEF IsRow, NoRow
  <2>1. PICK bare : bare = NoRow /\ IsRow(bare)
    OBVIOUS
  <2>2. \A p : IsRow([bare EXCEPT !.state = "live", !.parent = p])
    BY <2>1 DEF IsRow
  <2>3. \A c \in Comments : \/ comments[c] = bare
                           \/ \E p : comments[c] = [bare EXCEPT !.state = "live", !.parent = p]
    BY <1>1, <2>1
  <2> QED
    BY <1>1, <2>1, <2>2, <2>3
<1>3. workload \in Workload
  BY CommentsAssumption DEF Init, CommentsInit
<1>4. CommentInv /\ PublishInv
  BY <1>2, <1>3 DEF Init, CommentsInit, CommentInv, Knows, PublishInv
<1>5. HandlerInv
  <2>1. IsHandler(NoHandler) /\ NoHandler.todo = <<>>
    BY DEF NoHandler, NoText, IsHandler, Distinct
  <2> QED
    BY <2>1 DEF Init, HandlerInv
<1>6. DeliveryInv
  BY DEF Init, DeliveryInv, IsMessage
<1>7. NotifiedCommentExists
  BY DEF Init, NotifiedCommentExists
<1> QED
  BY <1>4, <1>5, <1>6, <1>7 DEF IInv

-----------------------------------------------------------------------------
(* Once. *)

Untold(d) == saved[d] = 0 /\ queue[d].place = "none"

(* Before its handler begins nobody was told of a comment. *)
PublishOnce ==
  \A r \in Requests : pc[r] = "publish" => \A u \in Users : Untold(<<job[r].comment, u>>)

(* A mention is pending, queued or saved, in this order.  One consumer at most works on *)
(* its message, which comes back only while the row is not saved.                       *)
Once(d) ==
  /\ saved[d] <= 1
  /\ d \in Pending(d[1]) => Untold(d)
  /\ queue[d].place = "queue" /\ queue[d].visible
       => saved[d] = 0 /\ \A s \in Servers : work[s][d] = "none"
  /\ queue[d].place = "queue" /\ saved[d] > 0 => \E s \in Servers : work[s][d] = "delete"
  /\ \A s, t \in Servers : work[s][d] # "none" /\ work[t][d] # "none" => s = t
  /\ \A s \in Servers : work[s][d] \in {"check", "save"} => saved[d] = 0

OnceInv == PublishOnce /\ \A d \in Deliveries : d \in repeated \/ Once(d)

(* What is about to be published is neither handled nor queued. *)
LEMMA PublishStill ==
  ASSUME IInv, OnceInv, UNCHANGED commentVars,
         \A d \in Deliveries : Untold(d) /\ handler[d[1]].todo = <<>> => Untold(d)'
  PROVE  PublishOnce'
<1> SUFFICES ASSUME NEW r \in Requests, pc[r] = "publish", NEW u \in Users
             PROVE  Untold(<<job[r].comment, u>>)'
  BY DEF PublishOnce, commentVars, requestVars
<1>1. PICK d : d = <<job[r].comment, u>>
  OBVIOUS
<1>2. d \in Deliveries /\ handler[d[1]].todo = <<>>
  BY <1>1 DEF IInv, CommentInv, Knows, PublishInv, Deliveries
<1>3. Untold(d)
  BY <1>1 DEF OnceInv, PublishOnce
<1>4. Untold(d)'
  BY <1>2, <1>3
<1> QED
  BY <1>1, <1>4 DEF commentVars, requestVars

(* Nothing happens to rows, messages and consumers. *)
LEMMA OnceStill ==
  ASSUME IInv, OnceInv, PublishOnce', UNCHANGED <<saved, queue, work, repeated>>,
         \A d \in Deliveries : (d \in Pending(d[1]))' => d \in Pending(d[1]) \/ Untold(d)
  PROVE  OnceInv'
<1> SUFFICES ASSUME NEW d \in Deliveries, d \notin repeated PROVE Once(d)'
  BY DEF OnceInv
<1>1. Once(d)
  BY DEF OnceInv
<1> QED
  BY <1>1 DEF Once, Untold

LEMMA PendingStep ==
  ASSUME HandlerInv, NEW c \in Comments, NEW step, Step(c, step)
  PROVE  \A d \in Deliveries : (d \in Pending(d[1]))' => d \in Pending(d[1])
<1>1. /\ handler'[c].todo = handler[c].todo
      /\ \A e \in Comments \ {c} : handler'[e] = handler[e]
  BY DEF HandlerInv, IsHandler, Step
<1>2. \A e \in Comments : handler'[e].todo = handler[e].todo
  BY <1>1
<1>3. \A d \in Deliveries : d[1] \in Comments
  BY DEF Deliveries
<1> QED
  BY <1>2, <1>3 DEF Pending

(* Nothing of this is changed. *)
LEMMA OnceIdle ==
  ASSUME IInv, OnceInv, UNCHANGED <<commentVars, handler, saved, queue, work, repeated>>
  PROVE  OnceInv'
<1>1. PublishOnce'
  BY PublishStill DEF Untold
<1>2. \A d \in Deliveries : (d \in Pending(d[1]))' => d \in Pending(d[1])
  BY DEF Pending
<1> QED
  BY <1>1, <1>2, OnceStill

-----------------------------------------------------------------------------
LEMMA PublishSteps ==
  ASSUME IInv, NEW s, CommentStep(s)
  PROVE  \A r \in Requests : pc'[r] = "publish" =>
           \/ pc[r] = "publish" /\ job'[r].comment = job[r].comment
           \/ job'[r].comment \in Comments /\ ~Written(job'[r].comment)
<1> PICK r \in Requests :
      \/ \E u \in Users :
           \/ \E i \in Issues, p \in Comments \cup {None}, text \in Texts :
                CreateComment(r, s, i, u, p, text)
           \/ \E c \in Comments, text \in Texts : EditComment(r, s, c, u, text)
           \/ \E c \in Comments : DeleteComment(r, s, c, u)
      \/ \E i \in Issues : ListComments(r, s, i)
      \/ FindParent(r) \/ ResolveHandles(r) \/ InsertComment(r)
      \/ FindComment(r) \/ SelectRow(r) \/ WriteRow(r) \/ SoftDelete(r)
      \/ ReadPage(r) \/ ReadReplies(r) \/ NextPage(r) \/ LeaveList(r)
  BY DEF CommentStep
<1>1. pc = [q \in Requests |-> pc[q]] /\ job = [q \in Requests |-> job[q]]
  BY DEF IInv, CommentInv
<1>2. CASE InsertComment(r) /\ ~Reply(r)
  <2>1. PICK c \in Unwritten : job' = [job EXCEPT ![r].comment = c] /\ Goto(r, "publish")
    BY <1>2 DEF InsertComment
  <2>2. c \in Comments /\ ~Written(c)
    BY DEF Unwritten, IInv, CommentInv, Workload, Written
  <2>3. pc[r] = "insert"
    BY <1>2 DEF InsertComment
  <2>4. IsJob(job[r])
    BY <2>3 DEF IInv, CommentInv, Knows
  <2>5. job'[r].comment = c /\ \A q \in Requests \ {r} : pc'[q] = pc[q] /\ job'[q] = job[q]
    BY <1>1, <2>1, <2>4 DEF Goto, IsJob
  <2> QED
    BY <2>2, <2>5
<1>3. ASSUME NEW step, step # "publish", Goto(r, step),
             UNCHANGED job \/ \E j : job' = [job EXCEPT ![r] = j]
      PROVE  \A q \in Requests : pc'[q] = "publish" =>
               pc[q] = "publish" /\ job'[q].comment = job[q].comment
  BY <1>1, <1>3 DEF Goto
<1>4. CASE Reply(r)
  BY <1>3, <1>4 DEF Reply
<1>5. ASSUME NEW j, NEW step, step # "publish", Start(r, j, step)
      PROVE  \A q \in Requests : pc'[q] = "publish" =>
               pc[q] = "publish" /\ job'[q].comment = job[q].comment
  BY <1>3, <1>5 DEF Start
<1>6. CASE \/ \E u \in Users :
                \/ \E i \in Issues, p \in Comments \cup {None}, text \in Texts :
                     CreateComment(r, s, i, u, p, text)
                \/ \E c \in Comments, text \in Texts : EditComment(r, s, c, u, text)
                \/ \E c \in Comments : DeleteComment(r, s, c, u)
           \/ \E i \in Issues : ListComments(r, s, i)
  <2>1. \E j, step : step # "publish" /\ Start(r, j, step)
    BY <1>6 DEF CreateComment, EditComment, DeleteComment, ListComments
  <2> QED
    BY <1>5, <2>1
<1>7. CASE /\ FindParent(r) \/ ResolveHandles(r) \/ FindComment(r) \/ SelectRow(r)
              \/ ReadPage(r) \/ ReadReplies(r) \/ NextPage(r)
           /\ ~Reply(r)
  <2>1. \E step : step # "publish" /\ Goto(r, step) /\ UNCHANGED job
    BY <1>7 DEF FindParent, ResolveHandles, FindComment, SelectRow, ReadPage, ReadReplies, NextPage
  <2> QED
    BY <1>3, <2>1
<1>8. CASE WriteRow(r) \/ SoftDelete(r) \/ LeaveList(r)
  BY <1>4, <1>8 DEF WriteRow, SoftDelete, LeaveList
<1> QED
  BY <1>2, <1>4, <1>6, <1>7, <1>8

LEMMA CommentsOnce ==
  ASSUME IInv, OnceInv, UNCHANGED notifyVars, NEW s, CommentStep(s)
  PROVE  OnceInv'
<1>1. PublishOnce'
  <2> SUFFICES ASSUME NEW r \in Requests, pc'[r] = "publish", NEW u \in Users
               PROVE  Untold(<<job'[r].comment, u>>)
    BY DEF PublishOnce, Untold, notifyVars
  <2>1. CASE pc[r] = "publish" /\ job'[r].comment = job[r].comment
    BY <2>1 DEF OnceInv, PublishOnce
  <2>2. CASE job'[r].comment \in Comments /\ ~Written(job'[r].comment)
    <3>1. PICK c : c = job'[r].comment
      OBVIOUS
    <3>2. PICK d \in Deliveries : d = <<c, u>>
      BY <2>2, <3>1 DEF Deliveries
    <3>3. d[1] = c /\ ~Written(d[1])
      BY <2>2, <3>1, <3>2
    <3>4. saved[d] \in Nat
      BY DEF IInv, DeliveryInv
    <3>5. Untold(d)
      BY <3>3, <3>4 DEF IInv, NotifiedCommentExists, Written, Untold
    <3> QED
      BY <3>1, <3>2, <3>5
  <2> QED
    BY <2>1, <2>2, PublishSteps
<1>2. \A d \in Deliveries : (d \in Pending(d[1]))' => d \in Pending(d[1])
  BY DEF Pending, notifyVars
<1> QED
  BY <1>1, <1>2, OnceStill DEF notifyVars

(* The handler begins: nobody was told yet. *)
LEMMA PublishKeepsOnce ==
  ASSUME IInv, OnceInv, NEW r \in Requests, Publish(r)
  PROVE  OnceInv'
<1>1. PICK c : c = job[r].comment
  OBVIOUS
<1>2. pc[r] = "publish" /\ c \in Comments /\ UNCHANGED <<saved, queue, work, repeated>>
  BY <1>1 DEF Publish, PublishComment, IInv, CommentInv, Knows
<1>3. \A q \in Requests : pc'[q] = "publish" => pc[q] = "publish" /\ job'[q] = job[q]
  BY DEF Publish, PublishComment, Reply, Goto, IInv, CommentInv
<1>4. PublishOnce'
  BY <1>2, <1>3 DEF OnceInv, PublishOnce, Untold
<1>5. \A e \in Comments \ {c} : handler'[e] = handler[e]
  BY <1>1, <1>2 DEF Publish, IInv, HandlerInv
<1>6. ASSUME NEW d \in Deliveries, (d \in Pending(d[1]))' PROVE d \in Pending(d[1]) \/ Untold(d)
  <2>1. CASE d[1] = c
    <3>1. PICK u \in Users : d = <<c, u>>
      BY <2>1 DEF Deliveries
    <3> QED
      BY <1>1, <1>2, <3>1 DEF OnceInv, PublishOnce
  <2>2. CASE d[1] # c
    <3>1. d[1] \in Comments
      BY DEF Deliveries
    <3> QED
      BY <1>5, <1>6, <2>2, <3>1 DEF Pending
  <2> QED
    BY <2>1, <2>2
<1> QED
  BY <1>2, <1>4, <1>6, OnceStill

(* What a handler is at. *)
LEMMA CurrentFacts ==
  ASSUME HandlerInv, NEW c \in Comments, handler[c].step # "none"
  PROVE  \E e \in Deliveries : /\ e = Current(c) /\ e[1] = c /\ e \in Pending(c)
                               /\ handler[c].todo # <<>>
<1>1. PICK todo \in Seq(Users) : todo = handler[c].todo /\ todo # <<>>
  BY DEF HandlerInv, IsHandler
<1>2. Head(todo) \in Users /\ 1 \in DOMAIN todo /\ todo[1] = Head(todo)
  BY <1>1
<1>3. PICK e : e = <<c, Head(todo)>>
  OBVIOUS
<1>4. e \in Deliveries /\ e[1] = c /\ e = Current(c)
  BY <1>1, <1>2, <1>3 DEF Deliveries, Current
<1>5. e \in Pending(c)
  BY <1>1, <1>2, <1>3 DEF Pending
<1> QED
  BY <1>1, <1>4, <1>5

(* A handler goes on with the same mention. *)
LEMMA StepOnce ==
  ASSUME IInv, OnceInv, NEW c \in Comments, NEW step, Step(c, step),
         UNCHANGED <<commentVars, saved, queue, work, repeated>>
  PROVE  OnceInv'
<1>1. PublishOnce'
  BY PublishStill DEF Untold
<1>2. \A d \in Deliveries : (d \in Pending(d[1]))' => d \in Pending(d[1])
  BY PendingStep DEF IInv
<1> QED
  BY <1>1, <1>2, OnceStill

(* The mention a handler is at is saved for the first time. *)
LEMMA SaveNotificationOnce ==
  ASSUME IInv, OnceInv, NEW c \in Comments, SaveNotification(c)
  PROVE  OnceInv'
<1>1. handler[c].step # "none" /\ UNCHANGED <<commentVars, queue, work>>
  BY DEF SaveNotification, Handles
<1>2. PICK e \in Deliveries : /\ e = Current(c) /\ e[1] = c /\ e \in Pending(c)
                              /\ handler[c].todo # <<>>
  BY <1>1, CurrentFacts DEF IInv
<1>3. CASE SaveFails(c) /\ UNCHANGED <<saved, repeated>>
  BY <1>1, <1>3, StepOnce DEF SaveFails
<1>4. CASE /\ Save(e)
           /\ \/ NextMention(c) /\ UNCHANGED repeated
              \/ SaveFails(c) /\ repeated' = repeated \cup {e}
  <2>1. saved'[e] = saved[e] + 1 /\ \A d \in Deliveries \ {e} : saved'[d] = saved[d]
    BY <1>4 DEF Save, IInv, DeliveryInv
  <2>2. PublishOnce'
    BY <1>1, <1>2, <2>1, PublishStill DEF Untold
  <2>3. \A d \in Deliveries : (d \in Pending(d[1]))' => d \in Pending(d[1])
    BY <1>1, <1>4, NextMentionFacts, PendingStep DEF IInv, SaveFails
  <2>4. NextMention(c) => ~(e \in Pending(e[1]))'
    BY <1>1, <1>2, NextMentionFacts DEF IInv
  <2>5. ASSUME NEW d \in Deliveries, d \notin repeated'
        PROVE  Once(d)'
    <3>1. Once(d)
      BY <1>4, <2>5 DEF OnceInv
    <3>2. CASE d = e
      <4>1. Untold(e) /\ ~(e \in Pending(e[1]))'
        BY <1>2, <1>4, <2>4, <2>5, <3>1, <3>2 DEF Once
      <4>2. \A s \in Servers : work[s][e] = "none"
        BY <4>1 DEF Untold, IInv, DeliveryInv
      <4> QED
        BY <1>1, <2>1, <3>2, <4>1, <4>2 DEF Once, Untold
    <3>3. CASE d # e
      BY <1>1, <2>1, <2>3, <3>1, <3>3 DEF Once, Untold
    <3> QED
      BY <3>2, <3>3
  <2> QED
    BY <2>2, <2>5 DEF OnceInv
<1> QED
  BY <1>2, <1>3, <1>4 DEF SaveNotification

(* The mention a handler is at is queued, its row not saved, or lost. *)
LEMMA EnqueueOnce ==
  ASSUME IInv, OnceInv, NEW c \in Comments, EnqueueNotification(c)
  PROVE  OnceInv'
<1>1. /\ handler[c].step # "none" /\ UNCHANGED <<commentVars, saved, work, repeated>>
      /\ NextMention(c)
  BY DEF EnqueueNotification, Handles
<1>2. PICK e \in Deliveries : /\ e = Current(c) /\ e[1] = c /\ e \in Pending(c)
                              /\ handler[c].todo # <<>>
  BY <1>1, CurrentFacts DEF IInv
<1>3. \A d \in Deliveries : (d \in Pending(d[1]))' => d \in Pending(d[1]) /\ d # e
  BY <1>1, <1>2, NextMentionFacts DEF IInv
<1>4. \A d \in Deliveries \ {e} : queue'[d] = queue[d]
  BY <1>2 DEF EnqueueNotification, Put, IInv, DeliveryInv
<1>5. PublishOnce'
  BY <1>1, <1>2, <1>4, PublishStill DEF Untold
<1>6. ASSUME NEW d \in Deliveries, d \notin repeated
      PROVE  Once(d)'
  <2>1. Once(d)
    BY <1>6 DEF OnceInv
  <2>2. CASE d = e
    <3>1. Untold(e) /\ ~(e \in Pending(e[1]))'
      BY <1>2, <1>3, <2>1, <2>2 DEF Once
    <3>2. \A s \in Servers : work[s][e] = "none"
      BY <3>1 DEF Untold, IInv, DeliveryInv
    <3> QED
      BY <1>1, <2>2, <3>1, <3>2 DEF Once, Untold
  <2>3. CASE d # e
    BY <1>1, <1>3, <1>4, <2>1, <2>3 DEF Once, Untold
  <2> QED
    BY <2>2, <2>3
<1> QED
  BY <1>1, <1>5, <1>6 DEF OnceInv

-----------------------------------------------------------------------------
(***************************************************************************)
(* Pages of comments.  While nobody writes, a walk has seen every comment  *)
(* and reply of the thread but for what comes after its cursor, where it   *)
(* has more pages to read, and for the page it is about to show.           *)
(***************************************************************************)
ListSteps == {"page", "replies", "done"}

IsWalk(w) == DOMAIN w = {"cursor", "page", "more", "seen", "quiet"}

WithReplies(cs) == cs \cup RepliesTo(cs)

(* What is left to be read after the page at hand. *)
Unread(step, j, w) ==
  IF step = "page" \/ w.more THEN After(w.cursor, TopLevel(j.issue)) ELSE {}

HasRead(step, j, w) ==
  /\ w.seen \subseteq Shown(j.issue)
  /\ step = "replies" => w.page \subseteq TopLevel(j.issue)
  /\ WithReplies(TopLevel(j.issue) \ (Unread(step, j, w) \cup IF step = "replies" THEN w.page ELSE {}))
       \subseteq w.seen

Walks(step, j, w) ==
  /\ IsWalk(w)
  /\ step \notin ListSteps => w.seen = {} /\ w.cursor = None
  /\ step \in ListSteps => j.op = "list" /\ (w.quiet => HasRead(step, j, w))

WalkInv ==
  /\ walk = [r \in Requests |-> walk[r]]
  /\ \A r \in Requests : Walks(pc[r], job[r], walk[r])

ByTime == {p \in Comments \X Comments : Earlier(p[1], p[2])}

-----------------------------------------------------------------------------
LEMMA ByTimeOrders == ASSUME NEW S, S \subseteq Comments PROVE IsOrder(ByTime, S) /\ IsFiniteSet(S)
<1>1. \A x, y \in Comments : <<x, y>> \in ByTime <=> Earlier(x, y)
  BY DEF ByTime
<1>2. \A x \in Comments : x \in Nat /\ CreatedAt[x] \in Nat
  BY CommentsAssumption
<1>3. IsOrder(ByTime, S)
  BY <1>1, <1>2 DEF IsOrder, Earlier
<1>4. IsFiniteSet(S)
  BY CommentsAssumption, FS_Subset
<1> QED
  BY <1>3, <1>4

LEMMA OldestFirst ==
  ASSUME NEW S, S \subseteq Comments, NEW k
  PROVE  Oldest(k, S) = FirstOf(ByTime, k, S)
<1>1. ASSUME NEW x \in S PROVE {y \in S : Earlier(y, x)} = Before(ByTime, x, S)
  BY DEF ByTime, Before
<1> QED
  BY <1>1 DEF Oldest, FirstOf

LEMMA LastIsLast ==
  ASSUME NEW S, S \subseteq Comments, S # {}
  PROVE  LastOf(S) \in S
<1>1. PICK x \in S : \A y \in S : y = x \/ <<y, x>> \in ByTime
  BY ByTimeOrders, LastExists
<1>2. \A y \in S : y = x \/ Earlier(y, x)
  BY <1>1 DEF ByTime
<1> QED
  BY <1>2 DEF LastOf

(* The cursor is cut to milliseconds: it is no later than the last comment of the page. *)
LEMMA CursorCut ==
  ASSUME NEW S, S \subseteq Comments, NEW l \in Comments, NEW c \in S, Earlier(l, c)
  PROVE  c \in After([ms |-> Milli(CreatedAt[l]), id |-> l], S)
<1>1. PICK cursor : cursor = [ms |-> Milli(CreatedAt[l]), id |-> l]
  OBVIOUS
<1>2. cursor.ms = Milli(CreatedAt[l]) /\ cursor.id = l
  BY <1>1
<1>3. CreatedAt[l] \in Nat /\ CreatedAt[c] \in Nat /\ l \in Nat /\ c \in Nat
  BY CommentsAssumption
<1>4. Milli(CreatedAt[l]) \in Nat /\ Milli(CreatedAt[l]) <= CreatedAt[l]
  BY <1>3 DEF Milli
<1>5. cursor # None
  BY <1>1, <1>4, CommentsAssumption
<1>6. CreatedAt[c] > cursor.ms \/ (CreatedAt[c] = cursor.ms /\ c > cursor.id)
  BY <1>2, <1>3, <1>4 DEF Earlier
<1> QED
  BY <1>1, <1>5, <1>6 DEF After

-----------------------------------------------------------------------------
(* The comments stay as they are, and one request or none goes on. *)
LEMMA WalkLocal ==
  ASSUME CommentInv, WalkInv, UNCHANGED comments, NEW r \in Requests, NEW step, NEW j, NEW w,
         Walks(step, j, w), pc' = [pc EXCEPT ![r] = step], job' = [job EXCEPT ![r] = j],
         walk' = [walk EXCEPT ![r] = w]
  PROVE  WalkInv'
<1>1. /\ pc'[r] = step /\ job'[r] = j /\ walk'[r] = w
      /\ \A q \in Requests \ {r} : pc'[q] = pc[q] /\ job'[q] = job[q] /\ walk'[q] = walk[q]
  BY DEF CommentInv, WalkInv
<1>2. ASSUME NEW p, NEW k, NEW v, Walks(p, k, v)
      PROVE  Walks(p, k, v)'
  BY <1>2 DEF Walks, HasRead, Unread, WithReplies, TopLevel, RepliesTo, Shown, Live
<1>3. \A q \in Requests : Walks(pc[q], job[q], walk[q])'
  BY <1>1, <1>2 DEF WalkInv
<1> QED
  BY <1>3 DEF WalkInv

LEMMA WalkStill ==
  ASSUME CommentInv, WalkInv, UNCHANGED <<comments, pc, job, walk>>
  PROVE  WalkInv'
BY DEF WalkInv, Walks, HasRead, Unread, WithReplies, TopLevel, RepliesTo, Shown, Live

(* Some comment is written: no thread is quiet any more. *)
LEMMA WalkDisturbed ==
  ASSUME CommentInv, WalkInv, Disturb, NEW r \in Requests, NEW step, NEW j,
         pc[r] \notin ListSteps, step \notin ListSteps,
         pc' = [pc EXCEPT ![r] = step], job' = [job EXCEPT ![r] = j]
  PROVE  WalkInv'
<1>1. /\ pc'[r] = step /\ job'[r] = j
      /\ \A q \in Requests \ {r} : pc'[q] = pc[q] /\ job'[q] = job[q]
  BY DEF CommentInv
<1>2. /\ walk' = [q \in Requests |-> walk'[q]]
      /\ \A q \in Requests : walk'[q] = [walk[q] EXCEPT !.quiet = @ /\ job[q].op # "list"]
  BY DEF Disturb
<1>3. ASSUME NEW q \in Requests
      PROVE  Walks(pc[q], job[q], walk[q])'
  <2>1. IsWalk(walk[q])
    BY DEF WalkInv, Walks
  <2>2. /\ IsWalk(walk'[q]) /\ walk'[q].seen = walk[q].seen /\ walk'[q].cursor = walk[q].cursor
    BY <1>2, <2>1 DEF IsWalk
  <2>3. walk'[q].quiet = (walk[q].quiet /\ job[q].op # "list")
    BY <1>2, <2>1 DEF IsWalk
  <2>4. job[q].op = "list" => ~walk'[q].quiet
    BY <2>3
  <2> QED
    BY <1>1, <2>2, <2>4 DEF WalkInv, Walks
<1> QED
  BY <1>2, <1>3 DEF WalkInv

(* A request that lists nothing goes on or ends. *)
LEMMA OtherWalks ==
  ASSUME CommentInv, WalkInv, UNCHANGED <<comments, walk>>, NEW r \in Requests, NEW step, NEW j,
         pc[r] \notin ListSteps, step \notin ListSteps,
         pc' = [pc EXCEPT ![r] = step], job' = [job EXCEPT ![r] = j]
  PROVE  WalkInv'
<1>1. PICK w : w = walk[r]
  OBVIOUS
<1>2. Walks(step, j, w) /\ walk' = [walk EXCEPT ![r] = w]
  BY <1>1 DEF WalkInv, Walks
<1> QED
  BY <1>2, WalkLocal

LEMMA ReplyWalks ==
  ASSUME CommentInv, WalkInv, UNCHANGED <<comments, walk>>, NEW r \in Requests,
         pc[r] \notin ListSteps, Reply(r)
  PROVE  WalkInv'
BY OtherWalks DEF Reply, Goto, ListSteps

LEMMA GotoWalks ==
  ASSUME CommentInv, WalkInv, UNCHANGED <<comments, walk, job>>, NEW r \in Requests, NEW step,
         pc[r] \notin ListSteps, Goto(r, step), step \notin ListSteps
  PROVE  WalkInv'
<1>1. PICK j : j = job[r]
  OBVIOUS
<1>2. job' = [job EXCEPT ![r] = j]
  BY <1>1 DEF CommentInv
<1> QED
  BY <1>2, OtherWalks DEF Goto

(* A walk begins with everything still to read. *)
LEMMA ListWalks ==
  ASSUME CommentInv, WalkInv, NEW r \in Requests, NEW s, NEW i, ListComments(r, s, i)
  PROVE  WalkInv'
<1>1. PICK j : j = [NoJob EXCEPT !.op = "list", !.at = s, !.issue = i]
  OBVIOUS
<1>2. j.op = "list"
  BY <1>1 DEF NoJob
<1>3. PICK w : w = walk[r]
  OBVIOUS
<1>4. /\ pc[r] = "idle" /\ pc' = [pc EXCEPT ![r] = "page"] /\ job' = [job EXCEPT ![r] = j]
      /\ walk' = [walk EXCEPT ![r] = w] /\ UNCHANGED comments
  BY <1>1, <1>3 DEF ListComments, Start, Goto, WalkInv
<1>5. w.seen = {} /\ w.cursor = None /\ IsWalk(w)
  BY <1>3, <1>4 DEF WalkInv, Walks, ListSteps
<1>6. Walks("page", j, w)
  BY <1>2, <1>5 DEF Walks, HasRead, Unread, After, WithReplies, RepliesTo, ListSteps
<1> QED
  BY <1>4, <1>6, WalkLocal

(* What the page does not have comes after the cursor it leaves. *)
LEMMA PageWalks ==
  ASSUME CommentInv, WalkInv, NEW r \in Requests, ReadPage(r)
  PROVE  WalkInv'
<1>1. PICK j, w, top, rest, rows, items :
        /\ j = job[r] /\ w = walk[r] /\ top = TopLevel(j.issue)
        /\ rest = After(w.cursor, top)
        /\ rows = Oldest(PageLimit + 1, rest) /\ items = Oldest(PageLimit, rows)
  OBVIOUS
<1>2. PICK v : v = [w EXCEPT !.page = items, !.more = (items # rows),
                             !.cursor = IF items = rows THEN None
                                        ELSE [ms |-> Milli(CreatedAt[LastOf(items)]),
                                              id |-> LastOf(items)]]
  OBVIOUS
<1>3. /\ pc[r] = "page" /\ pc' = [pc EXCEPT ![r] = "replies"] /\ job' = [job EXCEPT ![r] = j]
      /\ walk' = [walk EXCEPT ![r] = v] /\ UNCHANGED comments
  BY <1>1, <1>2 DEF ReadPage, Goto, CommentInv
<1>4. IsWalk(w) /\ j.op = "list" /\ (w.quiet => HasRead("page", j, w))
  BY <1>1, <1>3 DEF WalkInv, Walks, ListSteps
<1>5. /\ IsWalk(v) /\ v.page = items /\ (v.more <=> items # rows) /\ v.seen = w.seen
      /\ v.quiet = w.quiet
      /\ items # rows => v.cursor = [ms |-> Milli(CreatedAt[LastOf(items)]), id |-> LastOf(items)]
  BY <1>2, <1>4 DEF IsWalk
<1>6. top \subseteq Comments /\ rest \subseteq top
  BY <1>1 DEF TopLevel, After
<1>7. /\ items \subseteq rest /\ (items = rows => items = rest)
      /\ items # rows => items # {}
      /\ \A x \in items, y \in rest \ items : Earlier(x, y)
  <2>1. IsOrder(ByTime, rest) /\ IsFiniteSet(rest) /\ rest \subseteq Comments
    BY <1>6, ByTimeOrders
  <2>2. rows = FirstOf(ByTime, PageLimit + 1, rest) /\ rows \subseteq rest
    BY <1>1, <2>1, OldestFirst, FirstFinite
  <2>3. items = FirstOf(ByTime, PageLimit, rows)
    BY <1>1, <2>1, <2>2, OldestFirst
  <2>4. PageLimit \in Nat \ {0}
    BY CommentsAssumption
  <2>5. /\ items \subseteq rows /\ (items = rows => items = rest)
        /\ items # rows => items # {}
        /\ \A x \in items, y \in rest \ items : <<x, y>> \in ByTime
    BY <2>1, <2>2, <2>3, <2>4, PageSplit
  <2> QED
    BY <2>2, <2>5 DEF ByTime
<1>8. top \ (Unread("replies", j, v) \cup items) \subseteq top \ rest
  <2>1. CASE items = rows
    BY <1>7, <2>1
  <2>2. CASE items # rows
    <3>1. LastOf(items) \in items /\ items \subseteq Comments
      BY <1>6, <1>7, <2>2, LastIsLast
    <3>2. ASSUME NEW c \in rest, c \notin items PROVE c \in After(v.cursor, top)
      <4>1. Earlier(LastOf(items), c) /\ LastOf(items) \in Comments /\ c \in top
        BY <1>6, <1>7, <3>1, <3>2
      <4> QED
        BY <1>5, <1>6, <2>2, <4>1, CursorCut
    <3>3. Unread("replies", j, v) = After(v.cursor, top)
      BY <1>1, <1>5, <2>2 DEF Unread
    <3> QED
      BY <3>2, <3>3
  <2> QED
    BY <2>1, <2>2
<1>9. w.quiet => HasRead("replies", j, v)
  <2> SUFFICES ASSUME w.quiet PROVE HasRead("replies", j, v)
    OBVIOUS
  <2>1. WithReplies(top \ rest) \subseteq w.seen /\ w.seen \subseteq Shown(j.issue)
    BY <1>1, <1>4 DEF HasRead, Unread
  <2>2. WithReplies(top \ (Unread("replies", j, v) \cup items)) \subseteq WithReplies(top \ rest)
    BY <1>8 DEF WithReplies, RepliesTo
  <2> QED
    BY <1>1, <1>5, <1>6, <1>7, <2>1, <2>2 DEF HasRead
<1>10. Walks("replies", j, v)
  BY <1>4, <1>5, <1>9 DEF Walks, ListSteps
<1> QED
  BY <1>3, <1>10, WalkLocal

(* The page is shown with the replies to it. *)
LEMMA RepliesWalk ==
  ASSUME CommentInv, WalkInv, NEW r \in Requests, ReadReplies(r)
  PROVE  WalkInv'
<1>1. PICK j, w, v : /\ j = job[r] /\ w = walk[r]
                     /\ v = [w EXCEPT !.seen = @ \cup WithReplies(w.page)]
  OBVIOUS
<1>2. /\ pc[r] = "replies" /\ pc' = [pc EXCEPT ![r] = "done"] /\ job' = [job EXCEPT ![r] = j]
      /\ walk' = [walk EXCEPT ![r] = v] /\ UNCHANGED comments
  BY <1>1 DEF ReadReplies, Goto, CommentInv, WithReplies
<1>3. IsWalk(w) /\ j.op = "list" /\ (w.quiet => HasRead("replies", j, w))
  BY <1>1, <1>2 DEF WalkInv, Walks, ListSteps
<1>4. /\ IsWalk(v) /\ v.page = w.page /\ v.more = w.more /\ v.quiet = w.quiet
      /\ v.cursor = w.cursor /\ v.seen = w.seen \cup WithReplies(w.page)
  BY <1>1, <1>3 DEF IsWalk
<1>5. ASSUME w.quiet PROVE HasRead("done", j, v)
  <2>1. HasRead("replies", j, w)
    BY <1>3, <1>5
  <2>2. Unread("done", j, v) = Unread("replies", j, w)
    BY <1>4 DEF Unread
  <2>3. WithReplies(w.page) \subseteq Shown(j.issue)
    BY <2>1 DEF HasRead, WithReplies, Shown, RepliesTo
  <2>4. ASSUME NEW cs, NEW ds
        PROVE  WithReplies(cs \ ds) \subseteq WithReplies(cs \ (ds \cup w.page)) \cup WithReplies(w.page)
    BY DEF WithReplies, RepliesTo
  <2> QED
    BY <1>4, <2>1, <2>2, <2>3, <2>4 DEF HasRead
<1>6. Walks("done", j, v)
  BY <1>3, <1>4, <1>5 DEF Walks, ListSteps
<1> QED
  BY <1>2, <1>6, WalkLocal

LEMMA NextPageWalks ==
  ASSUME CommentInv, WalkInv, NEW r \in Requests, NextPage(r)
  PROVE  WalkInv'
<1>1. PICK j, w : j = job[r] /\ w = walk[r]
  OBVIOUS
<1>2. /\ pc[r] = "done" /\ w.more /\ pc' = [pc EXCEPT ![r] = "page"]
      /\ job' = [job EXCEPT ![r] = j] /\ walk' = [walk EXCEPT ![r] = w] /\ UNCHANGED comments
  BY <1>1 DEF NextPage, Goto, CommentInv, WalkInv
<1>3. Walks("done", j, w)
  BY <1>1, <1>2 DEF WalkInv
<1>4. Walks("page", j, w)
  BY <1>2, <1>3 DEF Walks, HasRead, Unread, ListSteps
<1> QED
  BY <1>2, <1>4, WalkLocal

LEMMA NoWalkWalks == ASSUME NEW step, NEW j, step \notin ListSteps PROVE Walks(step, j, NoWalk)
BY DEF Walks, NoWalk, IsWalk

LEMMA CommentStepWalks ==
  ASSUME CommentInv, WalkInv, NEW s, CommentStep(s)
  PROVE  WalkInv'
<1> PICK r \in Requests :
      \/ \E u \in Users :
           \/ \E i \in Issues, p \in Comments \cup {None}, text \in Texts :
                CreateComment(r, s, i, u, p, text)
           \/ \E c \in Comments, text \in Texts : EditComment(r, s, c, u, text)
           \/ \E c \in Comments : DeleteComment(r, s, c, u)
      \/ \E i \in Issues : ListComments(r, s, i)
      \/ FindParent(r) \/ ResolveHandles(r) \/ InsertComment(r)
      \/ FindComment(r) \/ SelectRow(r) \/ WriteRow(r) \/ SoftDelete(r)
      \/ ReadPage(r) \/ ReadReplies(r) \/ NextPage(r) \/ LeaveList(r)
  BY DEF CommentStep
<1>1. ASSUME NEW j, NEW step \in {"resolve", "parent", "find"}, Start(r, j, step)
      PROVE  WalkInv'
  BY <1>1, OtherWalks DEF Start, Goto, ListSteps
<1>2. CASE \E u \in Users :
             \/ \E i \in Issues, p \in Comments \cup {None}, text \in Texts :
                  CreateComment(r, s, i, u, p, text)
             \/ \E c \in Comments, text \in Texts : EditComment(r, s, c, u, text)
             \/ \E c \in Comments : DeleteComment(r, s, c, u)
  <2>1. \E j, step : step \in {"resolve", "parent", "find"} /\ Start(r, j, step)
    BY <1>2 DEF CreateComment, EditComment, DeleteComment
  <2> QED
    BY <2>1, <1>1
<1>3. CASE FindParent(r)
  BY <1>3, GotoWalks, ReplyWalks DEF FindParent, ListSteps
<1>4. CASE ResolveHandles(r)
  BY <1>4, GotoWalks, ReplyWalks DEF ResolveHandles, ListSteps
<1>5. CASE InsertComment(r)
  <2>1. CASE Disturb /\ Goto(r, "publish") /\ \E c \in Unwritten : job' = [job EXCEPT ![r].comment = c]
    <3>1. PICK j : job' = [job EXCEPT ![r] = j]
      BY <2>1
    <3> QED
      BY <1>5, <2>1, <3>1, WalkDisturbed DEF InsertComment, Goto, ListSteps
  <2> QED
    BY <1>5, <2>1, ReplyWalks DEF InsertComment, ListSteps
<1>6. CASE FindComment(r)
  <2>1. \/ Reply(r)
        \/ \E step \in {"select", "remove"} : Goto(r, step) /\ UNCHANGED job
    BY <1>6 DEF FindComment
  <2> QED
    BY <1>6, <2>1, GotoWalks, ReplyWalks DEF FindComment, ListSteps
<1>7. CASE SelectRow(r)
  BY <1>7, GotoWalks DEF SelectRow, ListSteps
<1>8. CASE WriteRow(r)
  <2>1. CASE Disturb
    BY <1>8, <2>1, WalkDisturbed DEF WriteRow, Reply, Goto, ListSteps
  <2> QED
    BY <1>8, <2>1, ReplyWalks DEF WriteRow, ListSteps
<1>9. CASE SoftDelete(r)
  <2>1. CASE Disturb
    BY <1>9, <2>1, WalkDisturbed DEF SoftDelete, Reply, Goto, ListSteps
  <2> QED
    BY <1>9, <2>1, ReplyWalks DEF SoftDelete, ListSteps
<1>10. CASE LeaveList(r)
  <2>1. Walks("idle", NoJob, NoWalk)
    BY NoWalkWalks DEF ListSteps
  <2> QED
    BY <1>10, <2>1, WalkLocal DEF LeaveList, Reply, Goto
<1> QED
  BY <1>2, <1>3, <1>4, <1>5, <1>6, <1>7, <1>8, <1>9, <1>10, ListWalks, PageWalks, RepliesWalk,
     NextPageWalks

(* A server dies: its requests are gone, the others go on. *)
LEMMA CutOffWalks ==
  ASSUME CommentInv, WalkInv, NEW s, CutOff(s)
  PROVE  WalkInv'
<1>1. ASSUME NEW r \in Requests
      PROVE  \/ pc'[r] = "idle" /\ walk'[r] = NoWalk
             \/ pc'[r] = pc[r] /\ job'[r] = job[r] /\ walk'[r] = walk[r]
  BY DEF CutOff
<1>2. ASSUME NEW p, NEW k, NEW v, Walks(p, k, v)
      PROVE  Walks(p, k, v)'
  BY <1>2 DEF CutOff, Walks, HasRead, Unread, WithReplies, TopLevel, RepliesTo, Shown, Live
<1>3. ASSUME NEW j PROVE Walks("idle", j, NoWalk)
  BY NoWalkWalks DEF ListSteps
<1>4. ASSUME NEW r \in Requests PROVE Walks(pc[r], job[r], walk[r])'
  <2>1. PICK p, k, v : p = pc'[r] /\ k = job'[r] /\ v = walk'[r]
    OBVIOUS
  <2>2. Walks(p, k, v)
    BY <1>1, <1>3, <2>1 DEF WalkInv
  <2>3. Walks(p, k, v)'
    BY <1>2, <2>2
  <2> QED
    BY <2>1, <2>3
<1>5. walk' = [r \in Requests |-> walk'[r]]
  BY DEF CutOff
<1> QED
  BY <1>4, <1>5 DEF WalkInv

LEMMA NextWalks ==
  ASSUME IInv, WalkInv, [Next]_vars
  PROVE  WalkInv'
<1> USE DEF IInv
<1>1. CASE UNCHANGED commentVars
  BY <1>1, WalkStill DEF commentVars, requestVars
<1>2. ASSUME NEW s, CommentStep(s) PROVE WalkInv'
  BY <1>2, CommentStepWalks
<1>3. ASSUME NEW r \in Requests, Publish(r) PROVE WalkInv'
  BY <1>3, ReplyWalks DEF Publish, PublishComment, ListSteps
<1>4. ASSUME NEW s \in Servers, Crash(s) PROVE WalkInv'
  BY <1>4, CutOffWalks DEF Crash
<1>5. ASSUME NEW c \in Comments, Handle(c) PROVE WalkInv'
  BY <1>1, <1>5 DEF Handle, ReadCircuit, SaveNotification, TripCircuit, EnqueueNotification
<1>6. ASSUME NEW s \in Servers, Consume(s) \/ Restart(s) PROVE WalkInv'
  BY <1>1, <1>6 DEF Consume, Poll, CheckCircuit, SaveQueued, DeleteMessage, Restart
<1>7. CASE CircuitTimeout \/ \E d \in Deliveries : VisibilityTimeout(d)
  BY <1>1, <1>7 DEF CircuitTimeout, VisibilityTimeout
<1>8. CASE UNCHANGED vars
  BY <1>1, <1>8 DEF vars
<1> QED
  BY <1>2, <1>3, <1>4, <1>5, <1>6, <1>7, <1>8 DEF Next

LEMMA InitWalks == Init => WalkInv
<1> SUFFICES ASSUME Init PROVE WalkInv
  OBVIOUS
<1>1. walk = [r \in Requests |-> NoWalk] /\ pc = [r \in Requests |-> "idle"]
  BY DEF Init, CommentsInit
<1>2. ASSUME NEW j PROVE Walks("idle", j, NoWalk)
  BY NoWalkWalks DEF ListSteps
<1> QED
  BY <1>1, <1>2 DEF WalkInv

LEMMA WalkedComplete == WalkInv => ThreadPagesComplete
<1> SUFFICES ASSUME WalkInv, NEW r \in Requests,
                    pc[r] = "done", walk[r].quiet, ~walk[r].more
             PROVE  walk[r].seen = Shown(job[r].issue)
  BY DEF ThreadPagesComplete
<1>1. HasRead("done", job[r], walk[r])
  BY DEF WalkInv, Walks, ListSteps
<1>2. Unread("done", job[r], walk[r]) = {}
  BY DEF Unread
<1> QED
  BY <1>1, <1>2 DEF HasRead, WithReplies, Shown
-----------------------------------------------------------------------------
(* The consumers.  Nobody works on a message that can be received, and it is not saved. *)
LEMMA PollOnce ==
  ASSUME IInv, OnceInv, NEW s \in Servers, Poll(s)
  PROVE  OnceInv'
<1>1. UNCHANGED <<commentVars, handler, saved, repeated>> /\ Working(s) = {}
  BY DEF Poll
<1>2. PICK batch \in SUBSET {d \in Deliveries : queue[d].place = "queue" /\ queue[d].visible},
           dead \in SUBSET Deliveries :
        /\ dead \subseteq batch
        /\ queue' = [d \in Deliveries |->
             IF d \in dead THEN [queue[d] EXCEPT !.place = "dead", !.visible = FALSE]
             ELSE IF d \in batch THEN [queue[d] EXCEPT !.visible = FALSE, !.receives = @ + 1]
             ELSE queue[d]]
        /\ work' = [work EXCEPT ![s] = [d \in Deliveries |->
             IF d \in batch \ dead THEN "check" ELSE "none"]]
  <2>1. PICK batch \in SUBSET {d \in Deliveries : queue[d].place = "queue" /\ queue[d].visible} :
          LET dead == {d \in batch : queue[d].receives = MaxReceives} IN
            /\ queue' = [d \in Deliveries |->
                 IF d \in dead THEN [queue[d] EXCEPT !.place = "dead", !.visible = FALSE]
                 ELSE IF d \in batch THEN [queue[d] EXCEPT !.visible = FALSE, !.receives = @ + 1]
                 ELSE queue[d]]
            /\ work' = [work EXCEPT ![s] = [d \in Deliveries |->
                 IF d \in batch \ dead THEN "check" ELSE "none"]]
    BY DEF Poll
  <2> QED
    BY <2>1
<1>3. /\ \A d \in batch : queue'[d].place \in {"queue", "dead"} /\ ~queue'[d].visible
      /\ \A d \in Deliveries \ batch : queue'[d] = queue[d]
      /\ \A d \in batch : queue[d].place = "queue" /\ queue[d].visible
  BY <1>2 DEF IInv, DeliveryInv, IsMessage
<1>4. /\ \A t \in Servers \ {s}, d \in Deliveries : work'[t][d] = work[t][d]
      /\ \A d \in Deliveries : work[s][d] = "none"
      /\ \A d \in batch : work'[s][d] \in {"check", "none"}
      /\ \A d \in Deliveries \ batch : work'[s][d] = "none"
  BY <1>1, <1>2 DEF IInv, DeliveryInv, Working
<1>5. PublishOnce'
  <2>1. \A d \in Deliveries : queue[d].place = "none" => queue'[d].place = "none"
    BY <1>3
  <2> QED
    BY <1>1, <2>1, PublishStill DEF Untold
<1>6. \A d \in Deliveries : (d \in Pending(d[1]))' => d \in Pending(d[1])
  BY <1>1 DEF Pending
<1>7. ASSUME NEW d \in Deliveries, d \notin repeated
      PROVE  Once(d)'
  <2>1. Once(d)
    BY <1>7 DEF OnceInv
  <2>2. CASE d \in batch
    <3>1. saved[d] = 0 /\ \A t \in Servers : work[t][d] = "none"
      BY <1>3, <2>1, <2>2 DEF Once
    <3>2. d \notin Pending(d[1])
      BY <1>3, <2>1, <2>2 DEF Once, Untold
    <3>3. \A t \in Servers : work'[t][d] = "none" \/ (t = s /\ work'[t][d] = "check")
      BY <1>4, <2>2, <3>1
    <3> QED
      BY <1>1, <1>3, <1>6, <2>2, <3>1, <3>2, <3>3 DEF Once
  <2>3. CASE d \notin batch
    <3>1. queue'[d] = queue[d] /\ \A t \in Servers : work'[t][d] = work[t][d]
      BY <1>3, <1>4, <2>3
    <3> QED
      BY <1>1, <1>6, <2>1, <3>1 DEF Once, Untold
  <2> QED
    BY <2>2, <2>3
<1> QED
  BY <1>1, <1>5, <1>7 DEF OnceInv

(* A consumer saves what is not saved, and then deletes it. *)
LEMMA ConsumerOnce ==
  ASSUME IInv, OnceInv, NEW s \in Servers, NEW d \in Deliveries,
         CheckCircuit(s, d) \/ SaveQueued(s, d) \/ DeleteMessage(s, d)
  PROVE  OnceInv'
<1>1. UNCHANGED <<commentVars, handler>> /\ work[s][d] # "none" /\ queue[d].place # "none"
  BY DEF CheckCircuit, SaveQueued, DeleteMessage, IInv, DeliveryInv
<1>2. PICK step \in {"none", "save", "delete"} : work' = [work EXCEPT ![s][d] = step]
  BY DEF CheckCircuit, SaveQueued, DeleteMessage, Proceed
<1>3. /\ work'[s][d] = step
      /\ \A t \in Servers, e \in Deliveries : t # s \/ e # d => work'[t][e] = work[t][e]
  BY <1>2 DEF IInv, DeliveryInv
<1>4. /\ \A e \in Deliveries \ {d} : queue'[e] = queue[e] /\ saved'[e] = saved[e]
      /\ queue'[d].place # "none"
  BY <1>1 DEF CheckCircuit, SaveQueued, DeleteMessage, Save, IInv, DeliveryInv, IsMessage
<1>5. PublishOnce'
  BY <1>1, <1>4, PublishStill DEF Untold
<1>6. repeated \subseteq repeated'
  BY DEF CheckCircuit, SaveQueued, DeleteMessage
<1>7. \A e \in Deliveries : (e \in Pending(e[1]))' => e \in Pending(e[1])
  BY <1>1 DEF Pending
<1>8. ASSUME NEW e \in Deliveries, e \notin repeated'
      PROVE  Once(e)'
  <2>1. Once(e)
    BY <1>6, <1>8 DEF OnceInv
  <2>2. CASE e = d
    <3>1. /\ d \notin Pending(d[1]) /\ ~(queue[d].place = "queue" /\ queue[d].visible)
          /\ \A t \in Servers \ {s} : work[t][d] = "none" /\ work'[t][d] = "none"
      BY <1>1, <1>3, <2>1, <2>2 DEF Once, Untold
    <3>2. CASE CheckCircuit(s, d)
      <4>1. saved[d] = 0 /\ UNCHANGED <<saved, queue>> /\ work'[s][d] \in {"none", "save"}
        BY <1>3, <2>1, <2>2, <3>2 DEF CheckCircuit, Once, Proceed, IInv, DeliveryInv
      <4> QED
        BY <1>7, <2>2, <3>1, <4>1 DEF Once
    <3>3. CASE SaveQueued(s, d)
      <4>1. saved[d] = 0 /\ UNCHANGED queue
        BY <2>1, <2>2, <3>3 DEF SaveQueued, Once
      <4>2. \/ saved'[d] = 1 /\ work'[s][d] = "delete"
            \/ saved'[d] = 0 /\ work'[s][d] = "none"
        BY <1>8, <2>2, <3>3, <4>1 DEF SaveQueued, Save, Proceed, IInv, DeliveryInv
      <4> QED
        BY <1>7, <2>2, <3>1, <4>1, <4>2 DEF Once
    <3>4. CASE DeleteMessage(s, d)
      <4>1. queue'[d].place = "gone" /\ UNCHANGED saved /\ work'[s][d] = "none"
        BY <1>8, <2>2, <3>4 DEF DeleteMessage, Proceed, IInv, DeliveryInv, IsMessage
      <4> QED
        BY <1>7, <2>1, <2>2, <3>1, <4>1 DEF Once
    <3> QED
      BY <3>2, <3>3, <3>4
  <2>3. CASE e # d
    BY <1>3, <1>4, <1>7, <2>1, <2>3 DEF Once, Untold
  <2> QED
    BY <2>2, <2>3
<1> QED
  BY <1>5, <1>8 DEF OnceInv

(* A message nobody works on is there again: its row is not saved. *)
LEMMA VisibilityOnce ==
  ASSUME IInv, OnceInv, NEW d \in Deliveries, VisibilityTimeout(d)
  PROVE  OnceInv'
<1>1. UNCHANGED <<commentVars, handler, saved, work>> /\ queue[d].place = "queue"
  BY DEF VisibilityTimeout
<1>2. /\ \A e \in Deliveries \ {d} : queue'[e] = queue[e]
      /\ queue'[d].place = "queue"
  <2>1. PICK visible : queue' = [queue EXCEPT ![d].visible = visible]
    BY DEF VisibilityTimeout
  <2> QED
    BY <1>1, <2>1 DEF IInv, DeliveryInv, IsMessage
<1>3. PublishOnce'
  BY <1>1, <1>2, PublishStill DEF Untold
<1>4. \A e \in Deliveries : (e \in Pending(e[1]))' => e \in Pending(e[1])
  BY <1>1 DEF Pending
<1>5. ASSUME NEW e \in Deliveries, e \notin repeated'
      PROVE  Once(e)'
  <2>1. e \notin repeated /\ Once(e)
    BY <1>5 DEF OnceInv, VisibilityTimeout
  <2>2. CASE e = d
    <3>1. \A s \in Servers : work[s][d] = "none"
      BY <1>5, <2>2 DEF VisibilityTimeout
    <3>2. saved[d] = 0 \/ ~(saved[d] > 0)
      BY <1>1, <2>1, <2>2, <3>1 DEF Once
    <3>3. saved[d] = 0
      BY <3>2 DEF IInv, DeliveryInv
    <3> QED
      BY <1>1, <1>2, <1>4, <2>1, <2>2, <3>1, <3>3 DEF Once, Untold
  <2>3. CASE e # d
    BY <1>1, <1>2, <1>4, <2>1, <2>3 DEF Once, Untold
  <2> QED
    BY <2>2, <2>3
<1> QED
  BY <1>3, <1>5 DEF OnceInv

(* What a server that dies was about to delete will be received again. *)
LEMMA CrashOnce ==
  ASSUME IInv, OnceInv, NEW s \in Servers, Crash(s)
  PROVE  OnceInv'
<1>1. UNCHANGED <<saved, queue>> /\ repeated' = repeated \cup {d \in Deliveries : work[s][d] = "delete"}
  BY DEF Crash
<1>2. \A r \in Requests : pc'[r] = "publish" => pc[r] = "publish" /\ job'[r] = job[r]
  BY DEF Crash, CutOff, IInv, CommentInv
<1>3. PublishOnce'
  BY <1>1, <1>2 DEF OnceInv, PublishOnce, Untold
<1>4. \A d \in Deliveries : (d \in Pending(d[1]))' => d \in Pending(d[1])
  <2>1. NoHandler.todo = <<>>
    BY DEF NoHandler, NoText
  <2>2. \A c \in Comments : handler'[c] = handler[c] \/ handler'[c] = NoHandler
    BY DEF Crash
  <2>3. \A d \in Deliveries : d[1] \in Comments
    BY DEF Deliveries
  <2> QED
    BY <2>1, <2>2, <2>3 DEF Pending
<1>5. \A d \in Deliveries : /\ work'[s][d] = "none"
                           /\ \A t \in Servers \ {s} : work'[t][d] = work[t][d]
  BY DEF Crash, IInv, DeliveryInv
<1>6. ASSUME NEW d \in Deliveries, d \notin repeated'
      PROVE  Once(d)'
  <2>1. Once(d) /\ work[s][d] # "delete"
    BY <1>1, <1>6 DEF OnceInv
  <2> QED
    BY <1>1, <1>4, <1>5, <2>1 DEF Once, Untold
<1> QED
  BY <1>3, <1>6 DEF OnceInv

LEMMA NextOnce ==
  ASSUME IInv, OnceInv, [Next]_vars
  PROVE  OnceInv'
<1>1. CASE UNCHANGED vars
  BY <1>1, OnceIdle DEF vars, notifyVars
<1>2. ASSUME NEW s, CommentStep(s), UNCHANGED notifyVars PROVE OnceInv'
  BY <1>2, CommentsOnce
<1>3. ASSUME NEW r \in Requests, Publish(r) PROVE OnceInv'
  BY <1>3, PublishKeepsOnce
<1>4. ASSUME NEW c \in Comments, Handle(c) PROVE OnceInv'
  <2>1. CASE ReadCircuit(c)
    BY <2>1, StepOnce DEF ReadCircuit
  <2>2. CASE TripCircuit(c)
    BY <2>2, StepOnce DEF TripCircuit
  <2> QED
    BY <1>4, <2>1, <2>2, SaveNotificationOnce, EnqueueOnce DEF Handle
<1>5. CASE CircuitTimeout
  BY <1>5, OnceIdle DEF CircuitTimeout
<1>6. ASSUME NEW s \in Servers, Consume(s) \/ Crash(s) \/ Restart(s) PROVE OnceInv'
  <2>1. CASE Restart(s)
    BY <2>1, OnceIdle DEF Restart
  <2> QED
    BY <1>6, <2>1, PollOnce, ConsumerOnce, CrashOnce DEF Consume
<1>7. ASSUME NEW d \in Deliveries, VisibilityTimeout(d) PROVE OnceInv'
  BY <1>7, VisibilityOnce
<1> QED
  BY <1>1, <1>2, <1>3, <1>4, <1>5, <1>6, <1>7 DEF Next

LEMMA InitOnce == Init => OnceInv
<1> SUFFICES ASSUME Init PROVE OnceInv
  OBVIOUS
<1>1. PublishOnce
  BY DEF Init, CommentsInit, PublishOnce
<1>2. ASSUME NEW d \in Deliveries PROVE Once(d)
  <2>1. d[1] \in Comments /\ Untold(d) /\ \A s \in Servers : work[s][d] = "none"
    BY DEF Init, Deliveries, Untold
  <2>2. handler[d[1]].todo = <<>>
    BY <2>1 DEF Init, NoHandler, NoText
  <2>3. d \notin Pending(d[1])
    BY <2>2 DEF Pending
  <2> QED
    BY <2>1, <2>3 DEF Once, Untold
<1> QED
  BY <1>1, <1>2 DEF OnceInv

-----------------------------------------------------------------------------
(***************************************************************************)
(* Types.  What requests and handlers hold is well-formed.  A mention is   *)
(* saved once by its handler, and once by whoever received its message:    *)
(* the rows there are and those that consumers may still add are as many   *)
(* as the receives, and one.                                               *)
(***************************************************************************)
RequestsTyped ==
  /\ comments \in [Comments -> Row] /\ pc \in [Requests -> CommentSteps]
  /\ job \in [Requests -> Job] /\ copy \in [Requests -> Row]
  /\ walk \in [Requests -> Walk] /\ overlapped \subseteq Comments

ServersTyped ==
  /\ circuit \in {"CLOSED", "OPEN"} /\ failures \in [Servers -> Nat] /\ up \subseteq Servers
  /\ handler \in [Comments -> Handler] /\ queue \in [Deliveries -> Message]
  /\ crashes \in Nat
  /\ lost \subseteq Deliveries /\ repeated \subseteq Deliveries /\ opened \in BOOLEAN

Saving(d) == {s \in Servers : work[s][d] \in {"check", "save"}}

Saves(d) ==
  /\ queue[d].place = "none" => saved[d] <= 1
  /\ queue[d].place # "none" => saved[d] + Cardinality(Saving(d)) <= 1 + queue[d].receives
  /\ d \in Pending(d[1]) => queue[d].place = "none"
  /\ d \in Pending(d[1]) /\ (d # Current(d[1]) \/ handler[d[1]].step \in {"state", "save"})
       => saved[d] = 0

TypeInv == RequestsTyped /\ ServersTyped /\ \A d \in Deliveries : Saves(d)

-----------------------------------------------------------------------------
LEMMA TextsTyped ==
  NoText \in Texts /\ \A text \in Texts : text # <<>> => Tail(text) \in Texts
<1> DEFINE most == Cardinality(Users)
<1>1. most \in Nat
  BY CommentsAssumption, FS_CardinalityType
<1>2. ASSUME NEW n \in 0..most, NEW text \in [1..n -> Users], Distinct(text) PROVE text \in Texts
  BY <1>2 DEF Texts, Distinct
<1> HIDE DEF most
<1>3. NoText \in Texts
  <2>1. 0 \in 0..most /\ NoText \in [1..0 -> Users] /\ Distinct(NoText)
    BY <1>1 DEF NoText, Distinct
  <2> QED
    BY <1>2, <2>1
<1>4. ASSUME NEW text \in Texts, text # <<>> PROVE Tail(text) \in Texts
  <2>1. PICK n \in 0..most : text \in [1..n -> Users]
    BY DEF Texts, most
  <2>2. text \in Seq(Users) /\ Distinct(text) /\ Len(text) = n /\ n \in Nat
    <3>1. text \in Seq(Users) /\ Distinct(text)
      BY TextsAreSequences
    <3>2. DOMAIN text = 1..n /\ n \in Nat
      BY <1>1, <2>1
    <3> QED
      BY <3>1, <3>2
  <2>3. /\ Tail(text) \in Seq(Users) /\ Len(Tail(text)) = n - 1 /\ n - 1 \in 0..most
        /\ \A m \in 1..(n - 1) : m + 1 \in 1..n /\ Tail(text)[m] = text[m + 1]
    <3>1. Tail(text) \in Seq(Users) /\ Len(Tail(text)) = n - 1 /\ n # 0
      BY <1>4, <2>2, HeadTailProperties, EmptySeq
    <3> QED
      BY <1>1, <2>2, <3>1
  <2>4. Tail(text) \in [1..(n - 1) -> Users]
    <3>1. PICK k \in Nat : k = n - 1
      BY <2>3
    <3>2. PICK tail \in Seq(Users) : tail = Tail(text) /\ Len(tail) = k
      BY <2>3, <3>1
    <3>3. tail \in [1..k -> Users]
      BY <3>2, LenProperties
    <3> QED
      BY <3>1, <3>2, <3>3
  <2>5. DOMAIN text = 1..n /\ DOMAIN Tail(text) = 1..(n - 1)
    BY <2>1, <2>4
  <2>6. Distinct(Tail(text))
    BY <2>2, <2>3, <2>5 DEF Distinct
  <2> QED
    BY <1>2, <2>3, <2>4, <2>6
<1> QED
  BY <1>3, <1>4

LEMMA NothingTyped == NoRow \in Row /\ NoJob \in Job /\ NoWalk \in Walk /\ NoHandler \in Handler
<1>1. /\ NoRow.issue \in Issues /\ NoRow.author \in Users /\ NoJob.at \in Servers
  BY CommentsAssumption DEF NoRow, NoJob
<1>2. NoText \in Texts
  BY TextsTyped
<1>3. NoRow \in Row
  BY <1>1, <1>2 DEF NoRow, Row
<1>4. NoJob \in Job
  BY <1>1, <1>2 DEF NoJob, Job
<1>5. NoWalk \in Walk
  BY DEF NoWalk, Walk
<1>6. NoHandler \in Handler
  BY <1>1, <1>2 DEF NoHandler, Handler
<1> QED
  BY <1>3, <1>4, <1>5, <1>6

(* A request goes on. *)
LEMMA LocalTyped ==
  ASSUME RequestsTyped, NEW r \in Requests, NEW step \in CommentSteps, NEW j \in Job, NEW k \in Row,
         pc' = [pc EXCEPT ![r] = step], job' = [job EXCEPT ![r] = j],
         copy' = [copy EXCEPT ![r] = k], comments' \in [Comments -> Row],
         walk' \in [Requests -> Walk], overlapped' \subseteq Comments
  PROVE  RequestsTyped'
BY DEF RequestsTyped

LEMMA ReplyTyped ==
  ASSUME RequestsTyped, NEW r \in Requests, Reply(r), comments' \in [Comments -> Row],
         walk' \in [Requests -> Walk], overlapped' \subseteq Comments
  PROVE  RequestsTyped'
BY LocalTyped, NothingTyped DEF Reply, Goto, CommentSteps

LEMMA GotoTyped ==
  ASSUME RequestsTyped, NEW r \in Requests, NEW step \in CommentSteps, Goto(r, step),
         UNCHANGED <<job, copy, comments, overlapped>>, walk' \in [Requests -> Walk]
  PROVE  RequestsTyped'
BY DEF RequestsTyped, Goto

LEMMA StartTyped ==
  ASSUME RequestsTyped, NEW r \in Requests, NEW j \in Job, NEW step \in CommentSteps,
         Start(r, j, step)
  PROVE  RequestsTyped'
BY DEF RequestsTyped, Start, Goto

LEMMA StartsTyped ==
  ASSUME RequestsTyped, workload \in Workload, NEW r \in Requests, NEW s \in Servers,
         \/ \E u \in Users :
              \/ \E i \in Issues, p \in Comments \cup {None}, text \in Texts :
                   CreateComment(r, s, i, u, p, text)
              \/ \E c \in Comments, text \in Texts : EditComment(r, s, c, u, text)
              \/ \E c \in Comments : DeleteComment(r, s, c, u)
         \/ \E i \in Issues : ListComments(r, s, i)
  PROVE  RequestsTyped'
<1> USE NothingTyped
<1>1. ASSUME NEW u \in Users, NEW i \in Issues, NEW p \in Comments \cup {None}, NEW text \in Texts,
             CreateComment(r, s, i, u, p, text)
      PROVE  RequestsTyped'
  <2>1. PICK j : j = [NoJob EXCEPT !.op = "create", !.at = s, !.issue = i, !.actor = u,
                                   !.parent = p, !.text = text]
    OBVIOUS
  <2>2. j \in Job
    BY <2>1 DEF Job
  <2>3. Start(r, j, IF p = None THEN "resolve" ELSE "parent")
    BY <1>1, <2>1 DEF CreateComment
  <2> QED
    BY <2>2, <2>3, StartTyped DEF CommentSteps
<1>2. ASSUME NEW u \in Users, NEW c \in Comments, NEW text \in Texts, EditComment(r, s, c, u, text)
      PROVE  RequestsTyped'
  <2>1. PICK j : j = [NoJob EXCEPT !.op = "update", !.at = s, !.comment = c, !.actor = u,
                                   !.text = text]
    OBVIOUS
  <2>2. j \in Job
    BY <2>1 DEF Job
  <2>3. Start(r, j, "find")
    BY <1>2, <2>1 DEF EditComment
  <2> QED
    BY <2>2, <2>3, StartTyped DEF CommentSteps
<1>3. ASSUME NEW u \in Users, NEW c \in Comments, DeleteComment(r, s, c, u)
      PROVE  RequestsTyped'
  <2>1. PICK j : j = [NoJob EXCEPT !.op = "delete", !.at = s, !.comment = c, !.actor = u]
    OBVIOUS
  <2>2. j \in Job
    BY <2>1 DEF Job
  <2>3. Start(r, j, "find")
    BY <1>3, <2>1 DEF DeleteComment
  <2> QED
    BY <2>2, <2>3, StartTyped DEF CommentSteps
<1>4. ASSUME NEW i \in Issues, ListComments(r, s, i)
      PROVE  RequestsTyped'
  <2>1. PICK j : j = [NoJob EXCEPT !.op = "list", !.at = s, !.issue = i]
    OBVIOUS
  <2>2. j \in Job
    BY <2>1 DEF Job
  <2>3. Start(r, j, "page")
    BY <1>4, <2>1 DEF ListComments
  <2> QED
    BY <2>2, <2>3, StartTyped DEF CommentSteps
<1> QED
  BY <1>1, <1>2, <1>3, <1>4

LEMMA DisturbTyped == ASSUME RequestsTyped, Disturb PROVE walk' \in [Requests -> Walk]
<1>1. ASSUME NEW q \in Requests
      PROVE  [walk[q] EXCEPT !.quiet = @ /\ job[q].op # "list"] \in Walk
  <2>1. walk[q] \in Walk /\ "quiet" \in DOMAIN walk[q] /\ walk[q].quiet \in BOOLEAN
    BY DEF RequestsTyped, Walk
  <2>2. (walk[q].quiet /\ job[q].op # "list") \in BOOLEAN
    OBVIOUS
  <2>3. PICK quiet \in BOOLEAN : quiet = (walk[q].quiet /\ job[q].op # "list")
    BY <2>2
  <2>4. [walk[q] EXCEPT !.quiet = quiet] \in Walk
    BY <2>1 DEF Walk
  <2> QED
    BY <2>3, <2>4
<1> QED
  BY <1>1 DEF Disturb

LEMMA PageTyped ==
  ASSUME RequestsTyped, NEW r \in Requests, ReadPage(r)
  PROVE  RequestsTyped'
<1>1. PICK rest, rows, items :
        /\ rest = After(walk[r].cursor, TopLevel(job[r].issue))
        /\ rows = Oldest(PageLimit + 1, rest) /\ items = Oldest(PageLimit, rows)
  OBVIOUS
<1>2. rest \subseteq Comments
  BY <1>1 DEF After, TopLevel
<1>3. items \subseteq Comments /\ (items # rows => items # {})
  <2>1. IsOrder(ByTime, rest) /\ IsFiniteSet(rest)
    BY <1>2, ByTimeOrders
  <2>2. rows = FirstOf(ByTime, PageLimit + 1, rest) /\ rows \subseteq Comments
    BY <1>1, <1>2, <2>1, OldestFirst, FirstFinite
  <2>3. items = FirstOf(ByTime, PageLimit, rows)
    BY <1>1, <2>2, OldestFirst
  <2>4. PageLimit \in Nat \ {0}
    BY CommentsAssumption
  <2> QED
    BY <2>1, <2>2, <2>3, <2>4, PageSplit
<1>4. PICK cursor : cursor = IF items = rows THEN None
                             ELSE [ms |-> Milli(CreatedAt[LastOf(items)]), id |-> LastOf(items)]
  OBVIOUS
<1>5. cursor \in {None} \cup [ms: Nat, id: Comments]
  <2>1. CASE items = rows
    BY <1>4, <2>1
  <2>2. CASE items # rows
    <3>1. LastOf(items) \in Comments
      BY <1>3, <2>2, LastIsLast
    <3>2. CreatedAt[LastOf(items)] \in Nat
      BY <3>1, CommentsAssumption
    <3>3. Milli(CreatedAt[LastOf(items)]) \in Nat
      BY <3>2 DEF Milli
    <3> QED
      BY <1>4, <2>2, <3>1, <3>3
  <2> QED
    BY <2>1, <2>2
<1>6. PICK more \in BOOLEAN : more = (items # rows)
  OBVIOUS
<1>7. walk' = [walk EXCEPT ![r].page = items, ![r].more = more, ![r].cursor = cursor]
  BY <1>1, <1>4, <1>6 DEF ReadPage
<1>8. walk' \in [Requests -> Walk]
  <2>1. PICK w \in Walk : w = walk[r]
    BY DEF RequestsTyped
  <2>2. [w EXCEPT !.page = items, !.more = more, !.cursor = cursor] \in Walk
    BY <1>3, <1>5 DEF Walk
  <2>3. walk' = [walk EXCEPT ![r] = [w EXCEPT !.page = items, !.more = more, !.cursor = cursor]]
    BY <1>7, <2>1
  <2> QED
    BY <2>2, <2>3 DEF RequestsTyped
<1> QED
  BY <1>8, GotoTyped DEF ReadPage, CommentSteps

LEMMA RepliesTyped ==
  ASSUME RequestsTyped, NEW r \in Requests, ReadReplies(r)
  PROVE  RequestsTyped'
<1>1. PICK shown : /\ shown = walk[r].page \cup RepliesTo(walk[r].page)
                   /\ walk' = [walk EXCEPT ![r].seen = @ \cup shown]
  BY DEF ReadReplies
<1>2. shown \subseteq Comments
  BY <1>1 DEF RepliesTo, RequestsTyped, Walk
<1>3. walk' \in [Requests -> Walk]
  BY <1>1, <1>2 DEF RequestsTyped, Walk
<1> QED
  BY <1>3, GotoTyped DEF ReadReplies, CommentSteps

LEMMA InsertTyped ==
  ASSUME RequestsTyped, workload \in Workload, NEW r \in Requests, InsertComment(r)
  PROVE  RequestsTyped'
<1>1. CASE Reply(r) /\ UNCHANGED <<comments, walk>>
  BY <1>1, ReplyTyped DEF InsertComment, RequestsTyped
<1>2. CASE ~(Reply(r) /\ UNCHANGED <<comments, walk>>)
  <2>1. PICK c \in Unwritten :
          /\ comments' = [comments EXCEPT ![c] =
               [state |-> "live", issue |-> job[r].issue, author |-> job[r].actor,
                parent |-> job[r].parent, text |-> job[r].text]]
          /\ job' = [job EXCEPT ![r].comment = c]
          /\ Goto(r, "publish") /\ Disturb /\ UNCHANGED <<copy, overlapped>>
    BY <1>2 DEF InsertComment
  <2>2. c \in Comments
    BY DEF Unwritten, Workload
  <2>3. comments' \in [Comments -> Row]
    BY <2>1, <2>2 DEF RequestsTyped, Row, Job
  <2>4. job' \in [Requests -> Job]
    BY <2>1, <2>2 DEF RequestsTyped, Job
  <2>5. walk' \in [Requests -> Walk]
    BY <2>1, DisturbTyped
  <2> QED
    BY <2>1, <2>3, <2>4, <2>5 DEF RequestsTyped, Goto, CommentSteps
<1> QED
  BY <1>1, <1>2

LEMMA CommentStepTyped ==
  ASSUME IInv, RequestsTyped, NEW s \in Servers, CommentStep(s)
  PROVE  RequestsTyped'
<1> PICK r \in Requests :
      \/ \E u \in Users :
           \/ \E i \in Issues, p \in Comments \cup {None}, text \in Texts :
                CreateComment(r, s, i, u, p, text)
           \/ \E c \in Comments, text \in Texts : EditComment(r, s, c, u, text)
           \/ \E c \in Comments : DeleteComment(r, s, c, u)
      \/ \E i \in Issues : ListComments(r, s, i)
      \/ FindParent(r) \/ ResolveHandles(r) \/ InsertComment(r)
      \/ FindComment(r) \/ SelectRow(r) \/ WriteRow(r) \/ SoftDelete(r)
      \/ ReadPage(r) \/ ReadReplies(r) \/ NextPage(r) \/ LeaveList(r)
  BY DEF CommentStep
<1>0. /\ workload \in Workload /\ comments \in [Comments -> Row] /\ walk \in [Requests -> Walk]
      /\ overlapped \subseteq Comments
  BY DEF IInv, CommentInv, RequestsTyped
<1>1. CASE FindParent(r)
  BY <1>0, <1>1, GotoTyped, ReplyTyped DEF FindParent, CommentSteps
<1>2. CASE ResolveHandles(r)
  BY <1>0, <1>2, GotoTyped, ReplyTyped DEF ResolveHandles, CommentSteps
<1>3. CASE FindComment(r)
  <2>1. CASE Reply(r)
    BY <1>0, <1>3, <2>1, ReplyTyped DEF FindComment
  <2>2. CASE ~Reply(r)
    <3>0. PICK k : k = comments[job[r].comment]
      OBVIOUS
    <3>1. PICK step \in CommentSteps :
            /\ Goto(r, step) /\ copy' = [copy EXCEPT ![r] = k]
            /\ UNCHANGED <<job, comments, walk, overlapped>>
      BY <1>3, <2>2, <3>0 DEF FindComment, CommentSteps
    <3>2. job[r].comment \in Comments
      BY <1>3 DEF FindComment, IInv, CommentInv, Knows
    <3>3. k \in Row
      BY <3>0, <3>2 DEF RequestsTyped
    <3> QED
      BY <3>1, <3>3 DEF RequestsTyped, Goto
  <2> QED
    BY <2>1, <2>2
<1>4. CASE SelectRow(r)
  <2>1. PICK state \in {"none", "live"} :
          copy' = [copy EXCEPT ![r].text = job[r].text, ![r].state = state]
    BY <1>4 DEF SelectRow
  <2>2. PICK k \in Row, text \in Texts : k = copy[r] /\ text = job[r].text
    BY DEF RequestsTyped, Job
  <2>3. [k EXCEPT !.text = text, !.state = state] \in Row
    BY <2>2 DEF Row
  <2>4. copy' = [copy EXCEPT ![r] = [k EXCEPT !.text = text, !.state = state]]
    BY <2>1, <2>2
  <2>5. copy' \in [Requests -> Row]
    BY <2>3, <2>4 DEF RequestsTyped
  <2> QED
    BY <1>4, <2>5 DEF SelectRow, RequestsTyped, Goto, CommentSteps
<1>5. CASE WriteRow(r)
  <2>1. job[r].comment \in Comments
    BY <1>5 DEF WriteRow, IInv, CommentInv, Knows
  <2>2. comments' \in [Comments -> Row]
    BY <1>5, <2>1 DEF WriteRow, RequestsTyped, Row
  <2>3. walk' \in [Requests -> Walk]
    BY <1>0, <1>5, DisturbTyped DEF WriteRow
  <2> QED
    BY <1>0, <1>5, <2>2, <2>3, ReplyTyped DEF WriteRow
<1>6. CASE SoftDelete(r)
  <2>1. job[r].comment \in Comments
    BY <1>6 DEF SoftDelete, IInv, CommentInv, Knows
  <2>2. comments' \in [Comments -> Row] /\ overlapped' \subseteq Comments
    BY <1>6, <2>1 DEF SoftDelete, RequestsTyped, Row
  <2>3. walk' \in [Requests -> Walk]
    BY <1>0, <1>6, DisturbTyped DEF SoftDelete
  <2> QED
    BY <1>6, <2>2, <2>3, ReplyTyped DEF SoftDelete
<1>7. CASE NextPage(r)
  BY <1>0, <1>7, GotoTyped DEF NextPage, CommentSteps
<1>8. CASE LeaveList(r)
  <2>1. walk' \in [Requests -> Walk]
    BY <1>0, <1>8, NothingTyped DEF LeaveList
  <2> QED
    BY <1>0, <1>8, <2>1, ReplyTyped DEF LeaveList
<1> QED
  BY <1>0, <1>1, <1>2, <1>3, <1>4, <1>5, <1>6, <1>7, <1>8, StartsTyped, InsertTyped, PageTyped,
     RepliesTyped

-----------------------------------------------------------------------------
LEMMA ServersKnown ==
  ASSUME DeliveryInv, NEW d
  PROVE  IsFiniteSet(Saving(d)) /\ Cardinality(Saving(d)) \in Nat
<1>1. Saving(d) \subseteq Servers
  BY DEF Saving
<1> QED
  BY <1>1, CommentsAssumption, FS_Subset, FS_CardinalityType

(* Fewer consumers, or as many, are about to save. *)
LEMMA FewerSave ==
  ASSUME DeliveryInv, NEW d, Saving(d)' \subseteq Saving(d)
  PROVE  Cardinality(Saving(d)') <= Cardinality(Saving(d)) /\ Cardinality(Saving(d)') \in Nat
BY ServersKnown, FS_Subset, FS_CardinalityType

(* One more is. *)
LEMMA OneMoreSaves ==
  ASSUME DeliveryInv, NEW d, NEW s, Saving(d)' \subseteq Saving(d) \cup {s}
  PROVE  Cardinality(Saving(d)') <= Cardinality(Saving(d)) + 1 /\ Cardinality(Saving(d)') \in Nat
<1>1. IsFiniteSet(Saving(d)) /\ Cardinality(Saving(d)) \in Nat
  BY ServersKnown
<1>2. /\ IsFiniteSet(Saving(d) \cup {s})
      /\ Cardinality(Saving(d) \cup {s}) <= Cardinality(Saving(d)) + 1
      /\ Cardinality(Saving(d) \cup {s}) \in Nat
  BY <1>1, FS_AddElement, FS_CardinalityType
<1>3. /\ IsFiniteSet(Saving(d)')
      /\ Cardinality(Saving(d)') <= Cardinality(Saving(d) \cup {s})
  BY <1>2, FS_Subset
<1>4. Cardinality(Saving(d)') \in Nat
  BY <1>3, FS_CardinalityType
<1> QED
  BY <1>1, <1>2, <1>3, <1>4

(* One less is. *)
LEMMA OneLessSaves ==
  ASSUME DeliveryInv, NEW d, NEW s \in Saving(d), Saving(d)' \subseteq Saving(d) \ {s}
  PROVE  Cardinality(Saving(d)') + 1 <= Cardinality(Saving(d)) /\ Cardinality(Saving(d)') \in Nat
<1>1. IsFiniteSet(Saving(d)) /\ Cardinality(Saving(d)) \in Nat
  BY ServersKnown
<1>2. /\ IsFiniteSet(Saving(d) \ {s}) /\ Cardinality(Saving(d) \ {s}) = Cardinality(Saving(d)) - 1
  BY <1>1, FS_RemoveElement
<1>3. /\ IsFiniteSet(Saving(d)')
      /\ Cardinality(Saving(d)') <= Cardinality(Saving(d) \ {s})
  BY <1>2, FS_Subset
<1>4. Cardinality(Saving(d)') \in Nat
  BY <1>3, FS_CardinalityType
<1> QED
  BY <1>1, <1>2, <1>3, <1>4

LEMMA NobodySaves ==
  ASSUME DeliveryInv, NEW d \in Deliveries, queue[d].place = "none"
  PROVE  Saving(d) = {}
BY DEF DeliveryInv, Saving

(* A handler goes on with the same mention, or with no row to add. *)
LEMMA StepSaves ==
  ASSUME IInv, \A d \in Deliveries : Saves(d), NEW c \in Comments, NEW step,
         Step(c, step), step \in {"state", "save"} => handler[c].step \in {"state", "save"},
         UNCHANGED <<saved, queue, work>>
  PROVE  \A d \in Deliveries : Saves(d)'
<1>1. /\ handler'[c].todo = handler[c].todo /\ handler'[c].step = step
      /\ \A e \in Comments \ {c} : handler'[e] = handler[e]
  BY DEF IInv, HandlerInv, IsHandler, Step
<1>2. \A e \in Comments : handler'[e].todo = handler[e].todo
  BY <1>1
<1>3. \A d \in Deliveries : d[1] \in Comments
  BY DEF Deliveries
<1>4. ASSUME NEW d \in Deliveries PROVE Saves(d)'
  <2>1. Saves(d) /\ d[1] \in Comments
    BY <1>3
  <2>2. Pending(d[1])' = Pending(d[1]) /\ Current(d[1])' = Current(d[1])
    BY <1>2, <2>1 DEF Pending, Current
  <2>3. handler'[d[1]].step \in {"state", "save"} => handler[d[1]].step \in {"state", "save"}
    BY <1>1, <2>1
  <2>4. Saving(d)' = Saving(d)
    BY DEF Saving
  <2> QED
    BY <2>1, <2>2, <2>3, <2>4 DEF Saves
<1> QED
  BY <1>4

(* A handler is done with a mention: it was not saved but by this handler. *)
LEMMA NextSaves ==
  ASSUME IInv, IInv', \A d \in Deliveries : Saves(d), NEW c \in Comments,
         handler[c].step # "none", NextMention(c), UNCHANGED work,
         \A d \in Deliveries : d # Current(c) => saved'[d] = saved[d] /\ queue'[d] = queue[d],
         \/ saved'[Current(c)] <= 1 /\ queue'[Current(c)].place = "none"
         \/ /\ saved'[Current(c)] <= 1 /\ queue'[Current(c)].place # "none"
            /\ queue'[Current(c)].receives = 0
  PROVE  \A d \in Deliveries : Saves(d)'
<1>1. PICK e \in Deliveries : /\ e = Current(c) /\ e[1] = c /\ e \in Pending(c)
                              /\ handler[c].todo # <<>>
  BY CurrentFacts DEF IInv
<1>2. \A d \in Deliveries : (d \in Pending(d[1]))' => d \in Pending(d[1]) /\ d # e
  BY <1>1, NextMentionFacts DEF IInv
<1>3. \A d \in Comments \ {c} : handler'[d] = handler[d]
  BY DEF NextMention, IInv, HandlerInv
<1>4. ASSUME NEW d \in Deliveries PROVE Saves(d)'
  <2>1. Saving(d)' = Saving(d) /\ d[1] \in Comments /\ Saves(d)
    BY DEF Saving, Deliveries
  <2>2. CASE d = e
    <3>1. queue[e].place = "none"
      BY <1>1 DEF Saves
    <3>2. Saving(e)' = {} /\ Cardinality({}) = 0
      BY <2>1, <2>2, <3>1, NobodySaves, FS_EmptySet DEF IInv
    <3>3. saved'[e] <= 1 /\ saved'[e] \in Nat
          /\ (queue'[e].receives = 0 \/ queue'[e].place = "none")
      BY <1>1 DEF IInv, DeliveryInv
    <3>4. ~(e \in Pending(e[1]))'
      BY <1>2
    <3> QED
      BY <1>1, <2>2, <3>2, <3>3, <3>4 DEF Saves
  <2>3. CASE d # e
    <3>1. saved'[d] = saved[d] /\ queue'[d] = queue[d]
      BY <1>1, <2>3
    <3>2. CASE d[1] = c
      <4>1. (d \in Pending(d[1]))' => saved[d] = 0 /\ queue[d].place = "none"
        BY <1>1, <1>2, <2>1, <2>3, <3>2 DEF Saves
      <4> QED
        BY <2>1, <3>1, <4>1 DEF Saves
    <3>3. CASE d[1] # c
      <4>1. Pending(d[1])' = Pending(d[1]) /\ Current(d[1])' = Current(d[1])
        BY <1>3, <2>1, <3>3 DEF Pending, Current
      <4>2. handler'[d[1]] = handler[d[1]]
        BY <1>3, <2>1, <3>3
      <4> QED
        BY <2>1, <3>1, <4>1, <4>2 DEF Saves
    <3> QED
      BY <3>2, <3>3
  <2> QED
    BY <2>2, <2>3
<1> QED
  BY <1>4

LEMMA SaveNotificationSaves ==
  ASSUME IInv, IInv', \A d \in Deliveries : Saves(d), NEW c \in Comments, SaveNotification(c)
  PROVE  \A d \in Deliveries : Saves(d)'
<1>1. handler[c].step = "save" /\ UNCHANGED <<queue, work>>
  BY DEF SaveNotification, Handles
<1>2. PICK e \in Deliveries : /\ e = Current(c) /\ e[1] = c /\ e \in Pending(c)
                              /\ handler[c].todo # <<>>
  BY <1>1, CurrentFacts DEF IInv
<1>3. saved[e] = 0 /\ queue[e].place = "none"
  BY <1>1, <1>2 DEF Saves
<1>4. Save(e) => saved'[e] = 1 /\ \A d \in Deliveries \ {e} : saved'[d] = saved[d]
  BY <1>3 DEF Save, IInv, DeliveryInv
<1>5. CASE Save(e) /\ NextMention(c)
  BY <1>1, <1>2, <1>3, <1>4, <1>5, NextSaves
<1>6. CASE SaveFails(c) /\ UNCHANGED saved
  BY <1>1, <1>6, StepSaves DEF SaveFails
<1>7. CASE SaveFails(c) /\ Save(e)
  <2>1. /\ handler'[c].todo = handler[c].todo /\ handler'[c].step \in {"trip", "send"}
        /\ \A f \in Comments \ {c} : handler'[f] = handler[f]
    BY <1>7 DEF SaveFails, Step, IInv, HandlerInv, IsHandler
  <2>2. ASSUME NEW d \in Deliveries PROVE Saves(d)'
    <3>1. Saving(d)' = Saving(d) /\ d[1] \in Comments /\ Saves(d)
      BY <1>1 DEF Saving, Deliveries
    <3>2. Pending(d[1])' = Pending(d[1]) /\ Current(d[1])' = Current(d[1])
      BY <2>1, <3>1 DEF Pending, Current
    <3>3. handler'[d[1]].step \in {"state", "save"} => handler[d[1]].step \in {"state", "save"}
      BY <1>1, <2>1, <3>1
    <3>4. CASE d = e
      BY <1>1, <1>2, <1>3, <1>4, <1>7, <2>1, <3>1, <3>2, <3>4 DEF Saves
    <3>5. CASE d # e
      BY <1>1, <1>4, <1>7, <3>1, <3>2, <3>3, <3>5 DEF Saves
    <3> QED
      BY <3>4, <3>5
  <2> QED
    BY <2>2
<1> QED
  BY <1>2, <1>5, <1>6, <1>7 DEF SaveNotification

LEMMA EnqueueSaves ==
  ASSUME IInv, IInv', \A d \in Deliveries : Saves(d), NEW c \in Comments, EnqueueNotification(c)
  PROVE  \A d \in Deliveries : Saves(d)'
<1>1. handler[c].step # "none" /\ UNCHANGED <<saved, work>> /\ NextMention(c)
  BY DEF EnqueueNotification, Handles
<1>2. PICK e \in Deliveries : /\ e = Current(c) /\ e[1] = c /\ e \in Pending(c)
                              /\ handler[c].todo # <<>>
  BY <1>1, CurrentFacts DEF IInv
<1>3. saved[e] <= 1 /\ queue[e].place = "none"
  BY <1>2 DEF Saves
<1>4. /\ \A d \in Deliveries \ {e} : queue'[d] = queue[d]
      /\ \/ queue'[e] = queue[e]
         \/ queue'[e].place = "queue" /\ queue'[e].receives = 0
  BY <1>2 DEF EnqueueNotification, Put, IInv, DeliveryInv
<1> QED
  BY <1>1, <1>2, <1>3, <1>4, NextSaves

-----------------------------------------------------------------------------
(* Handlers stay as they are, and of pending mentions so do rows and messages. *)
LEMMA CountsKept ==
  ASSUME \A d \in Deliveries : Saves(d), UNCHANGED handler, NEW d \in Deliveries,
         queue[d].place = "none" => saved'[d] = saved[d] /\ queue'[d].place = "none",
         queue[d].place # "none" =>
           /\ queue'[d].place # "none"
           /\ saved'[d] + Cardinality(Saving(d)') <= 1 + queue'[d].receives
  PROVE  Saves(d)'
<1>1. Saves(d) /\ Pending(d[1])' = Pending(d[1]) /\ Current(d[1])' = Current(d[1])
  BY DEF Pending, Current
<1> QED
  BY <1>1 DEF Saves

LEMMA PollSaves ==
  ASSUME IInv, TypeInv, NEW s \in Servers, Poll(s)
  PROVE  /\ \A d \in Deliveries : Saves(d)'
         /\ queue' \in [Deliveries -> Message]
<1>1. UNCHANGED <<handler, saved>> /\ Working(s) = {}
  BY DEF Poll
<1>2. PICK batch \in SUBSET {d \in Deliveries : queue[d].place = "queue" /\ queue[d].visible} :
        LET dead == {d \in batch : queue[d].receives = MaxReceives} IN
          /\ queue' = [d \in Deliveries |->
               IF d \in dead THEN [queue[d] EXCEPT !.place = "dead", !.visible = FALSE]
               ELSE IF d \in batch THEN [queue[d] EXCEPT !.visible = FALSE, !.receives = @ + 1]
               ELSE queue[d]]
          /\ work' = [work EXCEPT ![s] = [d \in Deliveries |->
               IF d \in batch \ dead THEN "check" ELSE "none"]]
  BY DEF Poll
<1>3. PICK dead : dead = {d \in batch : queue[d].receives = MaxReceives}
  OBVIOUS
<1>4. queue \in [Deliveries -> Message] /\ MaxReceives \in Nat
  BY NotificationsAssumption DEF TypeInv, ServersTyped
<1>5. \A t \in Servers, d \in Deliveries :
        /\ t # s => work'[t][d] = work[t][d]
        /\ t = s => work'[t][d] = IF d \in batch \ dead THEN "check" ELSE "none"
  BY <1>2, <1>3 DEF IInv, DeliveryInv
<1>6. ASSUME NEW d \in Deliveries PROVE queue'[d] \in Message /\ Saves(d)'
  <2>1. queue[d] \in Message /\ queue[d].receives \in 0..MaxReceives /\ Saves(d)
        /\ saved[d] \in Nat /\ Cardinality(Saving(d)) \in Nat
    BY <1>4, ServersKnown DEF Message, TypeInv, IInv, DeliveryInv
  <2>2. CASE d \in dead
    <3>1. queue'[d] = [queue[d] EXCEPT !.place = "dead", !.visible = FALSE] /\ queue[d].place = "queue"
      BY <1>2, <1>3, <2>2
    <3>2. /\ queue'[d] \in Message /\ queue'[d].place = "dead"
          /\ queue'[d].receives = queue[d].receives
      BY <2>1, <3>1 DEF Message
    <3>3. Saving(d)' \subseteq Saving(d)
      BY <1>5, <2>2 DEF Saving
    <3>4. saved[d] + Cardinality(Saving(d)') <= 1 + queue'[d].receives
      BY <2>1, <3>1, <3>2, <3>3, FewerSave DEF Saves, IInv
    <3> QED
      BY <1>1, <3>1, <3>2, <3>4, CountsKept DEF TypeInv
  <2>3. CASE d \in batch \ dead
    <3>1. /\ queue'[d] = [queue[d] EXCEPT !.visible = FALSE, !.receives = @ + 1]
          /\ queue[d].place = "queue" /\ queue[d].receives # MaxReceives
      BY <1>2, <1>3, <2>3
    <3>2. queue[d].receives + 1 \in 0..MaxReceives
      BY <1>4, <2>1, <3>1
    <3>3. /\ queue'[d] \in Message /\ queue'[d].place = "queue"
          /\ queue'[d].receives = queue[d].receives + 1
      BY <2>1, <3>1, <3>2 DEF Message
    <3>4. Saving(d)' \subseteq Saving(d) \cup {s}
      BY <1>5, <2>3 DEF Saving
    <3>5. saved[d] + Cardinality(Saving(d)') <= 1 + queue'[d].receives
      BY <2>1, <3>1, <3>3, <3>4, OneMoreSaves DEF Saves, IInv
    <3> QED
      BY <1>1, <3>1, <3>3, <3>5, CountsKept DEF TypeInv
  <2>4. CASE d \notin batch
    <3>1. queue'[d] = queue[d]
      BY <1>2, <1>3, <2>4
    <3>2. Saving(d)' \subseteq Saving(d)
      BY <1>5, <2>4 DEF Saving
    <3>3. queue[d].place # "none" => saved[d] + Cardinality(Saving(d)') <= 1 + queue'[d].receives
      BY <2>1, <3>1, <3>2, FewerSave DEF Saves, IInv
    <3> QED
      BY <1>1, <2>1, <3>1, <3>3, CountsKept DEF TypeInv
  <2> QED
    BY <2>2, <2>3, <2>4
<1>7. queue' = [d \in Deliveries |-> queue'[d]]
  BY <1>2
<1> QED
  BY <1>6, <1>7

LEMMA ConsumerSaves ==
  ASSUME IInv, TypeInv, IInv', NEW s \in Servers, NEW d \in Deliveries,
         CheckCircuit(s, d) \/ SaveQueued(s, d) \/ DeleteMessage(s, d)
  PROVE  /\ \A e \in Deliveries : Saves(e)'
         /\ queue' \in [Deliveries -> Message]
<1>1. /\ UNCHANGED handler /\ work[s][d] # "none" /\ queue[d].place # "none"
  BY DEF CheckCircuit, SaveQueued, DeleteMessage, IInv, DeliveryInv
<1>2. PICK step \in {"none", "save", "delete"} : work' = [work EXCEPT ![s][d] = step]
  BY DEF CheckCircuit, SaveQueued, DeleteMessage, Proceed
<1>3. /\ work'[s][d] = step
      /\ \A t \in Servers, e \in Deliveries : t # s \/ e # d => work'[t][e] = work[t][e]
  BY <1>2 DEF IInv, DeliveryInv
<1>4. queue \in [Deliveries -> Message]
  BY DEF TypeInv, ServersTyped
<1>5. /\ queue' \in [Deliveries -> Message] /\ queue'[d].place # "none"
      /\ \A e \in Deliveries : queue'[e].receives = queue[e].receives
      /\ \A e \in Deliveries \ {d} : queue'[e] = queue[e] /\ saved'[e] = saved[e]
  <2>1. CASE UNCHANGED queue
    BY <1>1, <1>4, <2>1 DEF CheckCircuit, SaveQueued, DeleteMessage, Save, IInv, DeliveryInv
  <2>2. CASE DeleteMessage(s, d) /\ queue' = [queue EXCEPT ![d].place = "gone", ![d].visible = FALSE]
    <3>1. UNCHANGED saved
      BY <2>2 DEF DeleteMessage
    <3>2. [queue[d] EXCEPT !.place = "gone", !.visible = FALSE] \in Message
      BY <1>4 DEF Message
    <3>3. queue' = [queue EXCEPT ![d] = [queue[d] EXCEPT !.place = "gone", !.visible = FALSE]]
      BY <1>4, <2>2
    <3> QED
      BY <1>4, <3>1, <3>2, <3>3 DEF Message
  <2> QED
    BY <2>1, <2>2 DEF CheckCircuit, SaveQueued, DeleteMessage
<1>6. \A e \in Deliveries : /\ saved[e] \in Nat /\ saved'[e] \in Nat /\ queue[e].receives \in Nat
                           /\ Cardinality(Saving(e)) \in Nat /\ Saves(e)
  BY <1>4, ServersKnown, NotificationsAssumption DEF IInv, DeliveryInv, Message, TypeInv
<1>7. saved'[d] + Cardinality(Saving(d)') <= 1 + queue'[d].receives
  <2>1. saved[d] + Cardinality(Saving(d)) <= 1 + queue[d].receives
    BY <1>1, <1>6 DEF Saves
  <2>2. CASE Save(d)
    <3>1. saved'[d] = saved[d] + 1
      BY <2>2 DEF Save, IInv, DeliveryInv
    <3>2. work[s][d] = "save" /\ step # "save"
      BY <1>3, <1>6, <2>2, <3>1 DEF CheckCircuit, SaveQueued, DeleteMessage, Proceed, IInv, DeliveryInv
    <3>3. s \in Saving(d) /\ Saving(d)' \subseteq Saving(d) \ {s}
      BY <1>3, <3>2 DEF Saving
    <3> QED
      BY <1>5, <1>6, <2>1, <3>1, <3>3, OneLessSaves DEF IInv
  <2>3. CASE UNCHANGED saved
    <3>1. step # "save" \/ s \in Saving(d)
      BY <1>3 DEF CheckCircuit, SaveQueued, DeleteMessage, Proceed, Saving, IInv, DeliveryInv
    <3>2. Saving(d)' \subseteq Saving(d)
      BY <1>3, <3>1 DEF Saving
    <3> QED
      BY <1>5, <1>6, <2>1, <2>3, <3>2, FewerSave DEF IInv
  <2> QED
    BY <2>2, <2>3 DEF CheckCircuit, SaveQueued, DeleteMessage
<1>8. ASSUME NEW e \in Deliveries, e # d PROVE Saves(e)'
  <2>1. Saving(e)' = Saving(e)
    BY <1>3, <1>8 DEF Saving
  <2>2. queue[e].place # "none" => saved'[e] + Cardinality(Saving(e)') <= 1 + queue'[e].receives
    BY <1>5, <1>6, <1>8, <2>1 DEF Saves
  <2> QED
    BY <1>1, <1>5, <1>6, <1>8, <2>2, CountsKept
<1>9. Saves(d)'
  BY <1>1, <1>5, <1>6, <1>7, CountsKept
<1> QED
  BY <1>5, <1>8, <1>9

LEMMA VisibilitySaves ==
  ASSUME IInv, TypeInv, NEW d \in Deliveries, VisibilityTimeout(d)
  PROVE  /\ \A e \in Deliveries : Saves(e)'
         /\ queue' \in [Deliveries -> Message]
<1>1. UNCHANGED <<handler, saved, work>> /\ queue' = [queue EXCEPT ![d].visible = TRUE]
  BY DEF VisibilityTimeout
<1>2. queue \in [Deliveries -> Message]
  BY DEF TypeInv, ServersTyped
<1>3. [queue[d] EXCEPT !.visible = TRUE] \in Message
  BY <1>2 DEF Message
<1>4. queue' = [queue EXCEPT ![d] = [queue[d] EXCEPT !.visible = TRUE]]
  BY <1>1, <1>2
<1>5. /\ queue' \in [Deliveries -> Message]
      /\ \A e \in Deliveries : queue'[e].place = queue[e].place /\ queue'[e].receives = queue[e].receives
  BY <1>2, <1>3, <1>4 DEF Message
<1>6. ASSUME NEW e \in Deliveries PROVE Saves(e)'
  <2>1. Saves(e) /\ Saving(e)' = Saving(e)
    BY <1>1 DEF TypeInv, Saving
  <2>2. queue[e].place # "none" => saved'[e] + Cardinality(Saving(e)') <= 1 + queue'[e].receives
    BY <1>1, <1>5, <2>1 DEF Saves
  <2> QED
    BY <1>1, <1>5, <2>1, <2>2, CountsKept DEF TypeInv
<1> QED
  BY <1>5, <1>6

LEMMA CrashSaves ==
  ASSUME IInv, TypeInv, NEW s \in Servers, Crash(s)
  PROVE  \A d \in Deliveries : Saves(d)'
<1>1. UNCHANGED <<saved, queue>>
  BY DEF Crash
<1>2. /\ \A c \in Comments : handler'[c] = handler[c] \/ handler'[c] = NoHandler
      /\ NoHandler.todo = <<>>
  BY DEF Crash, NoHandler, NoText
<1>3. ASSUME NEW d \in Deliveries PROVE Saves(d)'
  <2>1. Saves(d) /\ d[1] \in Comments /\ saved[d] \in Nat /\ queue[d].receives \in Nat
    BY NotificationsAssumption
       DEF TypeInv, Deliveries, IInv, DeliveryInv, ServersTyped, Message
  <2>2. Saving(d)' \subseteq Saving(d)
    BY DEF Saving, Crash, IInv, DeliveryInv
  <2>3. queue[d].place # "none" => saved[d] + Cardinality(Saving(d)') <= 1 + queue[d].receives
    BY <2>1, <2>2, FewerSave, ServersKnown DEF Saves, IInv
  <2>4. CASE handler'[d[1]] = handler[d[1]]
    <3>1. Pending(d[1])' = Pending(d[1]) /\ Current(d[1])' = Current(d[1])
      BY <2>4 DEF Pending, Current
    <3> QED
      BY <1>1, <2>1, <2>3, <2>4, <3>1 DEF Saves
  <2>5. CASE handler'[d[1]] = NoHandler
    <3>1. ~(d \in Pending(d[1]))'
      BY <1>2, <2>5 DEF Pending
    <3> QED
      BY <1>1, <2>1, <2>3, <3>1 DEF Saves
  <2> QED
    BY <1>2, <2>1, <2>4, <2>5
<1> QED
  BY <1>3

LEMMA PublishSaves ==
  ASSUME IInv, OnceInv, TypeInv, NEW r \in Requests, Publish(r)
  PROVE  \A d \in Deliveries : Saves(d)'
<1>1. PICK c : c = job[r].comment
  OBVIOUS
<1>2. pc[r] = "publish" /\ c \in Comments /\ UNCHANGED <<saved, queue, work>>
  BY <1>1 DEF Publish, PublishComment, IInv, CommentInv, Knows
<1>3. \A e \in Comments \ {c} : handler'[e] = handler[e]
  BY <1>1, <1>2 DEF Publish, IInv, HandlerInv
<1>4. ASSUME NEW d \in Deliveries PROVE Saves(d)'
  <2>1. Saves(d) /\ d[1] \in Comments /\ Saving(d)' = Saving(d)
    BY <1>2 DEF TypeInv, Deliveries, Saving
  <2>2. CASE d[1] = c
    <3>1. PICK u \in Users : d = <<c, u>>
      BY <2>2 DEF Deliveries
    <3>2. Untold(d)
      BY <1>1, <1>2, <3>1 DEF OnceInv, PublishOnce
    <3> QED
      BY <1>2, <3>2 DEF Saves, Untold
  <2>3. CASE d[1] # c
    <3>1. handler'[d[1]] = handler[d[1]]
      BY <1>3, <2>1, <2>3
    <3>2. Pending(d[1])' = Pending(d[1]) /\ Current(d[1])' = Current(d[1])
      BY <3>1 DEF Pending, Current
    <3> QED
      BY <1>2, <2>1, <3>1, <3>2 DEF Saves
  <2> QED
    BY <2>2, <2>3
<1> QED
  BY <1>4

-----------------------------------------------------------------------------
LEMMA StepTyped ==
  ASSUME handler \in [Comments -> Handler], NEW c \in Comments, NEW step, Step(c, step),
         step \in {"state", "save", "trip", "send"}
  PROVE  handler' \in [Comments -> Handler]
<1>1. [handler[c] EXCEPT !.step = step] \in Handler
  BY DEF Handler
<1>2. handler' = [handler EXCEPT ![c] = [handler[c] EXCEPT !.step = step]]
  BY DEF Step
<1> QED
  BY <1>1, <1>2

LEMMA NextMentionTyped ==
  ASSUME HandlerInv, handler \in [Comments -> Handler], NEW c \in Comments,
         handler[c].step # "none", NextMention(c)
  PROVE  handler' \in [Comments -> Handler]
<1>1. handler[c] \in Handler /\ handler[c].todo \in Texts /\ handler[c].todo # <<>>
  BY DEF HandlerInv, IsHandler, Handler
<1>2. PICK next : next = [step |-> "state", at |-> handler[c].at, todo |-> Tail(handler[c].todo)]
  OBVIOUS
<1>3. next \in Handler
  BY <1>1, <1>2, TextsTyped DEF Handler
<1>4. handler' = [handler EXCEPT ![c] = IF Len(handler[c].todo) = 1 THEN NoHandler ELSE next]
  BY <1>2 DEF NextMention
<1> QED
  BY <1>3, <1>4, NothingTyped

LEMMA HandleTyped ==
  ASSUME IInv, IInv', TypeInv, NEW c \in Comments, Handle(c)
  PROVE  TypeInv'
<1>1. /\ RequestsTyped /\ ServersTyped /\ \A d \in Deliveries : Saves(d)
      /\ handler[c].step # "none"
  BY DEF TypeInv, Handle, ReadCircuit, SaveNotification, TripCircuit, EnqueueNotification, Handles
<1>2. RequestsTyped'
  BY <1>1 DEF Handle, ReadCircuit, SaveNotification, TripCircuit, EnqueueNotification,
              RequestsTyped, commentVars, requestVars
<1>3. handler \in [Comments -> Handler] /\ handler[c].at \in Servers
  BY <1>1 DEF ServersTyped, Handler
<1>4. Current(c) \in Deliveries
  BY <1>1, CurrentFacts DEF IInv
<1>5. CASE ReadCircuit(c)
  <2>1. handler' \in [Comments -> Handler]
    BY <1>3, <1>5, StepTyped DEF ReadCircuit
  <2>2. \A d \in Deliveries : Saves(d)'
    BY <1>1, <1>5, StepSaves DEF ReadCircuit, Handles
  <2> QED
    BY <1>1, <1>2, <1>5, <2>1, <2>2 DEF ReadCircuit, TypeInv, ServersTyped
<1>6. CASE TripCircuit(c)
  <2>1. handler' \in [Comments -> Handler]
    BY <1>3, <1>6, StepTyped DEF TripCircuit
  <2>2. \A d \in Deliveries : Saves(d)'
    BY <1>1, <1>6, StepSaves DEF TripCircuit
  <2> QED
    BY <1>1, <1>2, <1>6, <2>1, <2>2 DEF TripCircuit, TypeInv, ServersTyped
<1>7. CASE SaveNotification(c)
  <2>1. handler' \in [Comments -> Handler] /\ failures' \in [Servers -> Nat]
    <3>1. CASE NextMention(c) /\ UNCHANGED failures
      BY <1>1, <1>3, <3>1, NextMentionTyped DEF IInv, ServersTyped
    <3>2. CASE SaveFails(c)
      BY <1>1, <1>3, <3>2, StepTyped DEF SaveFails, ServersTyped
    <3> QED
      BY <1>7, <3>1, <3>2 DEF SaveNotification
  <2>2. repeated' \subseteq Deliveries
    BY <1>1, <1>4, <1>7 DEF SaveNotification, ServersTyped
  <2>3. \A d \in Deliveries : Saves(d)'
    BY <1>1, <1>7, SaveNotificationSaves
  <2> QED
    BY <1>1, <1>2, <1>7, <2>1, <2>2, <2>3 DEF SaveNotification, TypeInv, ServersTyped
<1>8. CASE EnqueueNotification(c)
  <2>1. handler' \in [Comments -> Handler]
    BY <1>1, <1>3, <1>8, NextMentionTyped DEF EnqueueNotification, IInv
  <2>2. queue' \in [Deliveries -> Message] /\ lost' \subseteq Deliveries
    <3>1. [place |-> "queue", visible |-> TRUE, receives |-> 0] \in Message
      BY NotificationsAssumption DEF Message
    <3> QED
      BY <1>1, <1>4, <1>8, <3>1 DEF EnqueueNotification, Put, ServersTyped
  <2>3. \A d \in Deliveries : Saves(d)'
    BY <1>1, <1>8, EnqueueSaves
  <2> QED
    BY <1>1, <1>2, <1>8, <2>1, <2>2, <2>3 DEF EnqueueNotification, TypeInv, ServersTyped
<1> QED
  BY <1>5, <1>6, <1>7, <1>8 DEF Handle

LEMMA ConsumeTyped ==
  ASSUME IInv, IInv', TypeInv, NEW s \in Servers, Consume(s)
  PROVE  TypeInv'
<1>1. RequestsTyped'
  BY DEF Consume, Poll, CheckCircuit, SaveQueued, DeleteMessage, TypeInv, RequestsTyped,
         commentVars, requestVars
<1>2. /\ queue' \in [Deliveries -> Message] /\ \A d \in Deliveries : Saves(d)'
  BY PollSaves, ConsumerSaves DEF Consume
<1>3. /\ UNCHANGED <<circuit, failures, up, handler, crashes, lost, opened>>
      /\ repeated' \subseteq Deliveries
  BY DEF Consume, Poll, CheckCircuit, SaveQueued, DeleteMessage, TypeInv, ServersTyped
<1> QED
  BY <1>1, <1>2, <1>3 DEF TypeInv, ServersTyped

LEMMA CrashTyped ==
  ASSUME IInv, TypeInv, NEW s \in Servers, Crash(s)
  PROVE  TypeInv'
<1>1. RequestsTyped'
  BY NothingTyped DEF Crash, CutOff, TypeInv, RequestsTyped, CommentSteps
<1>2. handler' \in [Comments -> Handler]
  BY NothingTyped DEF Crash, TypeInv, ServersTyped
<1>3. \A c \in Comments : Pending(c) \subseteq Deliveries
  <2> SUFFICES ASSUME NEW c \in Comments, NEW n \in DOMAIN handler[c].todo
               PROVE  <<c, handler[c].todo[n]>> \in Deliveries
    BY DEF Pending
  <2>1. handler[c].todo \in Seq(Users)
    BY DEF IInv, HandlerInv, IsHandler
  <2>2. handler[c].todo[n] \in Users
    BY <2>1
  <2> QED
    BY <2>2 DEF Deliveries
<1>4. lost' \subseteq Deliveries /\ repeated' \subseteq Deliveries
  BY <1>3 DEF Crash, TypeInv, ServersTyped
<1>5. UNCHANGED <<circuit, queue, opened>> /\ up' \subseteq Servers /\ crashes' \in Nat
      /\ failures' \in [Servers -> Nat]
  BY DEF Crash, TypeInv, ServersTyped
<1>6. \A d \in Deliveries : Saves(d)'
  BY CrashSaves
<1> QED
  BY <1>1, <1>2, <1>4, <1>5, <1>6 DEF TypeInv, ServersTyped

LEMMA PublishTyped ==
  ASSUME IInv, OnceInv, TypeInv, NEW r \in Requests, Publish(r)
  PROVE  TypeInv'
<1>1. RequestsTyped'
  BY ReplyTyped DEF Publish, PublishComment, TypeInv, RequestsTyped
<1>2. job[r].comment \in Comments /\ job[r].at \in Servers /\ job[r].text \in Texts
  <2>1. pc[r] = "publish" /\ job[r] \in Job
    BY DEF Publish, PublishComment, TypeInv, RequestsTyped
  <2> QED
    BY <2>1 DEF Job, IInv, CommentInv, Knows
<1>3. [step |-> "state", at |-> job[r].at, todo |-> job[r].text] \in Handler
  BY <1>2 DEF Handler
<1>4. handler' \in [Comments -> Handler]
  BY <1>2, <1>3 DEF Publish, TypeInv, ServersTyped
<1>5. \A d \in Deliveries : Saves(d)'
  BY PublishSaves
<1> QED
  BY <1>1, <1>4, <1>5 DEF Publish, TypeInv, ServersTyped

LEMMA StillTyped ==
  ASSUME TypeInv, RequestsTyped', UNCHANGED <<saved, handler, queue, work>>, ServersTyped'
  PROVE  TypeInv'
<1>1. ASSUME NEW d \in Deliveries PROVE Saves(d)'
  BY DEF TypeInv, Saves, Saving, Pending, Current
<1> QED
  BY <1>1 DEF TypeInv

LEMMA NextTyped ==
  ASSUME IInv, OnceInv, IInv', TypeInv, [Next]_vars
  PROVE  TypeInv'
<1>0. RequestsTyped /\ ServersTyped
  BY DEF TypeInv
<1>1. CASE UNCHANGED vars
  <2>1. RequestsTyped' /\ ServersTyped'
    BY <1>0, <1>1 DEF vars, commentVars, requestVars, notifyVars, RequestsTyped, ServersTyped
  <2> QED
    BY <1>1, <2>1, StillTyped DEF vars, notifyVars
<1>2. ASSUME NEW s \in up, CommentStep(s), UNCHANGED notifyVars PROVE TypeInv'
  <2>1. RequestsTyped' /\ ServersTyped'
    BY <1>0, <1>2, CommentStepTyped DEF notifyVars, ServersTyped
  <2> QED
    BY <1>2, <2>1, StillTyped DEF notifyVars
<1>3. ASSUME NEW r \in Requests, Publish(r) PROVE TypeInv'
  BY <1>3, PublishTyped
<1>4. ASSUME NEW c \in Comments, Handle(c) PROVE TypeInv'
  BY <1>4, HandleTyped
<1>5. CASE CircuitTimeout
  <2>1. RequestsTyped' /\ ServersTyped'
    BY <1>0, <1>5 DEF CircuitTimeout, commentVars, requestVars, RequestsTyped, ServersTyped
  <2> QED
    BY <1>5, <2>1, StillTyped DEF CircuitTimeout
<1>6. ASSUME NEW s \in Servers, Restart(s) PROVE TypeInv'
  <2>1. RequestsTyped' /\ ServersTyped'
    BY <1>0, <1>6 DEF Restart, commentVars, requestVars, RequestsTyped, ServersTyped
  <2> QED
    BY <1>6, <2>1, StillTyped DEF Restart
<1>7. ASSUME NEW s \in Servers, Consume(s) \/ Crash(s) PROVE TypeInv'
  BY <1>7, ConsumeTyped, CrashTyped
<1>8. ASSUME NEW d \in Deliveries, VisibilityTimeout(d) PROVE TypeInv'
  <2>1. /\ \A e \in Deliveries : Saves(e)'
        /\ queue' \in [Deliveries -> Message]
    BY <1>8, VisibilitySaves
  <2>2. RequestsTyped' /\ repeated' \subseteq Deliveries
    BY <1>0, <1>8 DEF VisibilityTimeout, commentVars, requestVars, RequestsTyped, ServersTyped
  <2> QED
    BY <1>0, <1>8, <2>1, <2>2 DEF VisibilityTimeout, TypeInv, ServersTyped
<1> QED
  BY <1>1, <1>2, <1>3, <1>4, <1>5, <1>6, <1>7, <1>8 DEF Next

LEMMA InitTyped == Init => TypeInv
<1> SUFFICES ASSUME Init PROVE TypeInv
  OBVIOUS
<1>1. workload \in Workload
  BY InitIInv DEF IInv, CommentInv
<1>2. PICK thread \in [workload.existing -> {None} \cup workload.existing] :
        comments = [c \in Comments |->
          IF c \in workload.existing THEN [NoRow EXCEPT !.state = "live", !.parent = thread[c]]
                                     ELSE NoRow]
  BY DEF Init, CommentsInit
<1>3. \A p \in Comments \cup {None} : [NoRow EXCEPT !.state = "live", !.parent = p] \in Row
  BY NothingTyped DEF Row
<1>4. \A c \in workload.existing : thread[c] \in Comments \cup {None}
  BY <1>1 DEF Workload
<1>5. comments \in [Comments -> Row]
  BY <1>2, <1>3, <1>4, NothingTyped
<1>6. RequestsTyped
  BY <1>5, NothingTyped DEF Init, CommentsInit, RequestsTyped, CommentSteps
<1>7. [place |-> "none", visible |-> FALSE, receives |-> 0] \in Message
  BY NotificationsAssumption DEF Message
<1>8. ServersTyped
  BY <1>1, <1>7, NothingTyped DEF Init, ServersTyped, Workload
<1>9. ASSUME NEW d \in Deliveries PROVE Saves(d)
  BY DEF Init, Saves
<1> QED
  BY <1>6, <1>8, <1>9 DEF TypeInv

LEMMA TypeInvTyped == ASSUME IInv, TypeInv PROVE TypeOK
<1>1. ASSUME NEW d \in Deliveries PROVE saved[d] \in 0..(1 + MaxReceives)
  <2>1. /\ saved[d] \in Nat /\ Cardinality(Saving(d)) \in Nat /\ MaxReceives \in Nat
        /\ queue[d].receives \in 0..MaxReceives /\ Saves(d)
    BY ServersKnown, NotificationsAssumption
       DEF IInv, DeliveryInv, TypeInv, ServersTyped, Message
  <2>2. saved[d] <= 1 + MaxReceives
    BY <2>1 DEF Saves
  <2> QED
    BY <2>1, <2>2
<1>2. saved \in [Deliveries -> 0..(1 + MaxReceives)]
  BY <1>1 DEF IInv, DeliveryInv
<1> QED
  BY <1>2 DEF IInv, DeliveryInv, TypeInv, RequestsTyped, ServersTyped, TypeOK

-----------------------------------------------------------------------------
(***************************************************************************)
(* Sums.  MapThenSumSet takes a recursive function by CHOOSE: that there is *)
(* one is seen from the number of units of which a sum consists, and what  *)
(* it computes from the smallest set for which it would not.               *)
(***************************************************************************)
SumStep(f, g, s) ==
  IF s = {} THEN 0 ELSE LET x == CHOOSE x \in s : TRUE IN f[x] + g[s \ {x}]

Sums(f, S) == CHOOSE g : g = [s \in SUBSET S |-> SumStep(f, g, s)]

Units(f, s) == {p \in s \X Nat : 1 <= p[2] /\ p[2] <= f[p[1]]}

LEMMA UnitsAdd ==
  ASSUME NEW S, IsFiniteSet(S), NEW k \in Nat, NEW f, \A x \in S : f[x] \in 0..k, NEW x \in S
  PROVE  Cardinality(Units(f, S)) = f[x] + Cardinality(Units(f, S \ {x}))
<1>1. IsFiniteSet(S \X (1..k))
  <2>1. IsFiniteSet(1..k)
    BY FS_Interval
  <2> QED
    BY <2>1, FS_Product
<1>2. Units(f, S \ {x}) \subseteq S \X (1..k)
  <2> SUFFICES ASSUME NEW p \in (S \ {x}) \X Nat, 1 <= p[2], p[2] <= f[p[1]]
               PROVE  p \in S \X (1..k)
    BY DEF Units
  <2>1. p[1] \in S /\ p[2] \in Nat /\ p = <<p[1], p[2]>> /\ f[p[1]] \in 0..k
    OBVIOUS
  <2>2. p[2] \in 1..k
    BY <2>1
  <2> QED
    BY <2>1, <2>2
<1>3. IsFiniteSet(Units(f, S \ {x})) /\ Cardinality(Units(f, S \ {x})) \in Nat
  BY <1>1, <1>2, FS_Subset, FS_CardinalityType
<1>4. PICK n \in Nat : n = f[x]
  OBVIOUS
<1>5. /\ IsFiniteSet({x} \X (1..n)) /\ Cardinality({x} \X (1..n)) = n
  <2>1. IsFiniteSet(1..n) /\ Cardinality(1..n) = n
    BY FS_Interval
  <2>2. IsFiniteSet({x}) /\ Cardinality({x}) = 1
    BY FS_Singleton
  <2>3. /\ IsFiniteSet({x} \X (1..n))
        /\ Cardinality({x} \X (1..n)) = Cardinality({x}) * Cardinality(1..n)
    BY <2>1, <2>2, FS_Product
  <2> QED
    BY <2>1, <2>2, <2>3
<1>6. Units(f, S) = Units(f, S \ {x}) \cup ({x} \X (1..n))
  <2>1. ASSUME NEW p \in Units(f, S) PROVE p \in Units(f, S \ {x}) \cup ({x} \X (1..n))
    <3>1. /\ p[1] \in S /\ p[2] \in Nat /\ p = <<p[1], p[2]>>
          /\ 1 <= p[2] /\ p[2] <= f[p[1]]
      BY DEF Units
    <3>2. CASE p[1] = x
      <4>1. p[2] \in 1..n
        BY <1>4, <3>1, <3>2
      <4> QED
        BY <3>1, <3>2, <4>1
    <3>3. CASE p[1] # x
      BY <3>1, <3>3 DEF Units
    <3> QED
      BY <3>2, <3>3
  <2>2. ASSUME NEW p \in Units(f, S \ {x}) PROVE p \in Units(f, S)
    BY DEF Units
  <2>3. ASSUME NEW p \in {x} \X (1..n) PROVE p \in Units(f, S)
    <3>1. p[1] = x /\ p[2] \in 1..n /\ p = <<p[1], p[2]>>
      OBVIOUS
    <3>2. p[2] \in Nat /\ 1 <= p[2] /\ p[2] <= f[p[1]]
      BY <1>4, <3>1
    <3> QED
      BY <3>1, <3>2 DEF Units
  <2> QED
    BY <2>1, <2>2, <2>3
<1>7. Units(f, S \ {x}) \cap ({x} \X (1..n)) = {}
  BY DEF Units
<1>8. Cardinality(Units(f, S)) = Cardinality(Units(f, S \ {x})) + n - Cardinality({})
  BY <1>3, <1>5, <1>6, <1>7, FS_Union
<1> QED
  BY <1>3, <1>4, <1>8, FS_EmptySet

LEMMA SumsExist ==
  ASSUME NEW S, IsFiniteSet(S), NEW k \in Nat, NEW f, \A x \in S : f[x] \in 0..k
  PROVE  \A s \in SUBSET S : Sums(f, S)[s] = SumStep(f, Sums(f, S), s)
<1>1. PICK g : g = [s \in SUBSET S |-> Cardinality(Units(f, s))]
  OBVIOUS
<1>2. ASSUME NEW s \in SUBSET S PROVE Cardinality(Units(f, s)) = SumStep(f, g, s)
  <2>1. CASE s = {}
    <3>1. Units(f, s) = {}
      BY <2>1 DEF Units
    <3> QED
      BY <2>1, <3>1, FS_EmptySet DEF SumStep
  <2>2. CASE s # {}
    <3>1. PICK x \in s : x = CHOOSE y \in s : TRUE
      BY <2>2
    <3>2. SumStep(f, g, s) = f[x] + g[s \ {x}]
      BY <2>2, <3>1 DEF SumStep
    <3>3. g[s \ {x}] = Cardinality(Units(f, s \ {x}))
      BY <1>1
    <3>4. IsFiniteSet(s)
      BY FS_Subset
    <3>5. Cardinality(Units(f, s)) = f[x] + Cardinality(Units(f, s \ {x}))
      BY <3>4, UnitsAdd
    <3> QED
      BY <3>2, <3>3, <3>5
  <2> QED
    BY <2>1, <2>2
<1>3. g = [s \in SUBSET S |-> SumStep(f, g, s)]
  BY <1>1, <1>2
<1>4. PICK h : h = Sums(f, S) /\ h = [s \in SUBSET S |-> SumStep(f, h, s)]
  BY <1>3 DEF Sums
<1>5. \A s \in SUBSET S : h[s] = SumStep(f, h, s)
  BY <1>4
<1> QED
  BY <1>4, <1>5

(* A sum of numbers that are at most k. *)
LEMMA SumBounded ==
  ASSUME NEW S, IsFiniteSet(S), NEW k \in Nat, NEW f, \A x \in S : f[x] \in 0..k
  PROVE  Sums(f, S)[S] \in Nat /\ Sums(f, S)[S] <= Cardinality(S) * k
<1>1. PICK g : g = Sums(f, S)
  OBVIOUS
<1>2. \A s \in SUBSET S : g[s] = SumStep(f, g, s)
  BY <1>1, SumsExist
<1> DEFINE Bounded(s) == g[s] \in Nat /\ g[s] <= Cardinality(s) * k
<1> DEFINE sizes == {n \in Nat : \E s \in SUBSET S : n = Cardinality(s) /\ ~Bounded(s)}
<1>3. ASSUME NEW s \in SUBSET S PROVE IsFiniteSet(s) /\ Cardinality(s) \in Nat
  BY FS_Subset, FS_CardinalityType
<1>4. sizes = {}
  <2> SUFFICES ASSUME sizes # {} PROVE FALSE
    OBVIOUS
  <2>1. PICK n \in sizes : \A m \in sizes : n <= m
    BY Smallest
  <2>2. PICK s \in SUBSET S : n = Cardinality(s) /\ ~Bounded(s) /\ n \in Nat
    BY <2>1
  <2>3. CASE s = {}
    <3>1. g[s] = 0 /\ Cardinality(s) = 0
      BY <1>2, <2>3, FS_EmptySet DEF SumStep
    <3> QED
      BY <2>2, <3>1
  <2>4. CASE s # {}
    <3>1. PICK x \in s : x = CHOOSE y \in s : TRUE
      BY <2>4
    <3>2. PICK t : t = s \ {x}
      OBVIOUS
    <3>3. g[s] = f[x] + g[t]
      BY <1>2, <2>4, <3>1, <3>2 DEF SumStep
    <3>4. t \in SUBSET S /\ Cardinality(t) = n - 1 /\ Cardinality(t) \in Nat
      BY <1>3, <2>2, <3>2, FS_RemoveElement
    <3>5. Bounded(t)
      <4>1. ~(n <= n - 1)
        BY <2>2
      <4>2. Cardinality(t) \notin sizes
        BY <2>1, <3>4, <4>1
      <4> QED
        BY <3>4, <4>2
    <3>6. f[x] \in Nat /\ f[x] <= k
      <4>1. f[x] \in 0..k
        BY <2>2
      <4> QED
        BY <4>1
    <3>7. PICK m \in Nat : m = n - 1
      BY <3>4
    <3>8. g[t] \in Nat /\ g[t] <= m * k /\ n = m + 1
      BY <2>2, <3>4, <3>5, <3>7
    <3>9. (m + 1) * k = m * k + k /\ m * k \in Nat
      OBVIOUS
    <3>10. g[s] \in Nat /\ g[s] <= m * k + k
      BY <3>3, <3>6, <3>8, <3>9
    <3> QED
      BY <2>2, <3>8, <3>9, <3>10
  <2> QED
    BY <2>3, <2>4
<1>5. Bounded(S)
  BY <1>3, <1>4
<1> QED
  BY <1>1, <1>5

-----------------------------------------------------------------------------
(* A server whose failures have reached the threshold is about to open the circuit, or did. *)
TripInv ==
  /\ failures \in [Servers -> Nat]
  /\ \A s \in Servers : failures[s] >= Threshold =>
       opened \/ \E c \in Comments : handler[c].step = "trip" /\ handler[c].at = s

LEMMA TripsKept ==
  ASSUME TripInv, UNCHANGED failures, opened => opened',
         \A c \in Comments : handler[c].step = "trip"
           => handler'[c].step = "trip" /\ handler'[c].at = handler[c].at
  PROVE  TripInv'
BY DEF TripInv

LEMMA NextTrips ==
  ASSUME IInv, TripInv, [Next]_vars
  PROVE  TripInv'
<1>1. CASE UNCHANGED <<failures, opened, handler>>
  BY <1>1, TripsKept
<1>2. ASSUME NEW r \in Requests, Publish(r) PROVE TripInv'
  <2>1. PICK c : c = job[r].comment
    OBVIOUS
  <2>2. c \in Comments /\ handler[c].todo = <<>> /\ UNCHANGED <<failures, opened>>
    BY <1>2, <2>1 DEF Publish, PublishComment, IInv, CommentInv, Knows, PublishInv
  <2>3. handler[c].step = "none"
    BY <2>2 DEF IInv, HandlerInv, IsHandler
  <2>4. \A e \in Comments \ {c} : handler'[e] = handler[e]
    BY <1>2, <2>1, <2>2 DEF Publish, IInv, HandlerInv
  <2> QED
    BY <2>2, <2>3, <2>4, TripsKept
<1>3. ASSUME NEW c \in Comments, ReadCircuit(c) \/ EnqueueNotification(c) PROVE TripInv'
  <2>1. /\ UNCHANGED <<failures, opened>> /\ handler[c].step \in {"state", "send"}
        /\ \A e \in Comments \ {c} : handler'[e] = handler[e]
    BY <1>3 DEF ReadCircuit, EnqueueNotification, Step, NextMention, Handles, IInv, HandlerInv
  <2> QED
    BY <2>1, TripsKept
<1>4. ASSUME NEW c \in Comments, TripCircuit(c) PROVE TripInv'
  BY <1>4 DEF TripCircuit, TripInv
<1>5. ASSUME NEW c \in Comments, SaveNotification(c) PROVE TripInv'
  <2>1. /\ UNCHANGED opened /\ handler[c].step = "save"
        /\ \A e \in Comments \ {c} : handler'[e] = handler[e]
    BY <1>5 DEF SaveNotification, SaveFails, Step, NextMention, Handles, IInv, HandlerInv
  <2>2. CASE UNCHANGED failures
    BY <2>1, <2>2, TripsKept
  <2>3. CASE SaveFails(c)
    <3>1. PICK s : s = handler[c].at
      OBVIOUS
    <3>2. /\ failures' = [failures EXCEPT ![s] = @ + 1]
          /\ handler' = [handler EXCEPT ![c].step =
               IF failures[s] + 1 >= Threshold THEN "trip" ELSE "send"]
      BY <2>3, <3>1 DEF SaveFails, Step
    <3>3. handler'[c].at = s /\ (failures[s] + 1 >= Threshold => handler'[c].step = "trip")
      BY <3>1, <3>2 DEF IInv, HandlerInv, IsHandler
    <3>4. failures' \in [Servers -> Nat]
      <4>1. \A t \in Servers : failures'[t] = failures[t] \/ failures'[t] = failures[t] + 1
        BY <3>2 DEF TripInv
      <4>2. failures' = [t \in Servers |-> failures'[t]]
        BY <3>2 DEF TripInv
      <4> QED
        BY <4>1, <4>2 DEF TripInv
    <3>5. ASSUME NEW t \in Servers, failures'[t] >= Threshold
          PROVE  opened \/ \E e \in Comments : handler'[e].step = "trip" /\ handler'[e].at = t
      <4>1. CASE t = s
        BY <3>2, <3>3, <3>5, <4>1 DEF TripInv
      <4>2. CASE t # s
        BY <2>1, <3>2, <3>5, <4>2 DEF TripInv
      <4> QED
        BY <4>1, <4>2
    <3> QED
      BY <2>1, <3>4, <3>5 DEF TripInv
  <2> QED
    BY <1>5, <2>2, <2>3 DEF SaveNotification
<1>6. ASSUME NEW s \in Servers, Crash(s) PROVE TripInv'
  <2>1. /\ failures' = [failures EXCEPT ![s] = 0] /\ UNCHANGED opened
        /\ \A c \in Comments : handler[c].at # s => handler'[c] = handler[c]
    BY <1>6 DEF Crash
  <2>2. failures' \in [Servers -> Nat]
    BY <2>1 DEF TripInv
  <2>3. Threshold \in Nat \ {0}
    BY NotificationsAssumption
  <2>4. ASSUME NEW t \in Servers, failures'[t] >= Threshold
        PROVE  t # s /\ failures[t] >= Threshold
    BY <2>1, <2>3, <2>4 DEF TripInv
  <2> QED
    BY <2>1, <2>2, <2>4 DEF TripInv
<1>7. ASSUME NEW s \in Servers, Consume(s) \/ Restart(s) PROVE TripInv'
  BY <1>1, <1>7 DEF Consume, Poll, CheckCircuit, SaveQueued, DeleteMessage, Restart
<1>8. CASE \/ CircuitTimeout \/ UNCHANGED vars \/ \E d \in Deliveries : VisibilityTimeout(d)
           \/ \E s \in up : CommentStep(s) /\ UNCHANGED notifyVars
  BY <1>1, <1>8 DEF CircuitTimeout, VisibilityTimeout, vars, notifyVars
<1> QED
  BY <1>2, <1>3, <1>4, <1>5, <1>6, <1>7, <1>8 DEF Next, Handle

LEMMA InitTrips == Init => TripInv
BY NotificationsAssumption DEF Init, TripInv

LEMMA TripsInTime == TripInv => CircuitOpensInTime
<1> SUFFICES ASSUME TripInv,
                    Sums(failures, Servers)[Servers] > Cardinality(Servers) * (Threshold - 1)
             PROVE  opened \/ \E c \in Comments : handler[c].step = "trip"
  BY DEF CircuitOpensInTime, MapThenSumSet, MapThenFoldSet, Sums, SumStep, Handles
<1>1. PICK k \in Nat : k = Threshold - 1 /\ Threshold \in Nat
  BY NotificationsAssumption
<1>2. IsFiniteSet(Servers) /\ Cardinality(Servers) \in Nat
  BY CommentsAssumption, FS_CardinalityType
<1>3. CASE \A s \in Servers : failures[s] < Threshold
  <2>1. \A s \in Servers : failures[s] \in 0..k
    BY <1>1, <1>3 DEF TripInv
  <2>2. PICK f : f = failures
    OBVIOUS
  <2>3. /\ Sums(f, Servers)[Servers] \in Nat
        /\ Sums(f, Servers)[Servers] <= Cardinality(Servers) * k
    BY <1>2, <2>1, <2>2, SumBounded
  <2>4. PICK n \in Nat : n = Cardinality(Servers) * k
    BY <1>2
  <2> QED
    BY <1>1, <2>2, <2>3, <2>4
<1>4. CASE \E s \in Servers : ~(failures[s] < Threshold)
  <2>1. PICK s \in Servers : failures[s] >= Threshold
    BY <1>1, <1>4 DEF TripInv
  <2> QED
    BY <2>1 DEF TripInv
<1> QED
  BY <1>3, <1>4

(* For any number of requests, servers, comments and users, with any failure of the    *)
(* database, the queue and Redis and any number of crashes: whoever is notified, or     *)
(* will be from the queue, was mentioned in a comment that was inserted                 *)
(* (src/src/modules/comments/CommentService.ts, CommentAdded after save).               *)
THEOREM NobodyToldOfNothing == Spec => []NotifiedCommentExists
<1>1. IInv /\ [Next]_vars => IInv'
  BY NextGoes DEF Goes
<1>2. IInv => NotifiedCommentExists
  BY DEF IInv
<1> QED
  BY <1>1, <1>2, InitIInv, PTL DEF Spec

(* A deleted comment comes back only if an update had read it before the deletion       *)
(* (CommentService.update saves the entity it read).                                    *)
THEOREM OnlyEditedComeBack == Spec => DeletedStaysDeleted
<1>1. IInv /\ [Next]_vars => IInv'
  BY NextGoes DEF Goes
<1>2. IInv /\ [Next]_vars =>
        [\A c \in Comments : comments[c].state = "deleted" /\ comments'[c].state # "deleted"
                               => c \in overlapped]_commentVars
  BY NextGoes DEF Goes, Undeleted
<1> QED
  BY <1>1, <1>2, InitIInv, PTL DEF Spec, DeletedStaysDeleted

(* A mention whose handler has begun is pending, saved, queued, dead-lettered, or lost   *)
(* with its server or for want of a queue: NotificationService.notify and SqsConsumer    *)
(* drop none between database and queue.                                                *)
THEOREM MentionsAccounted == Spec => MentionsNotLost
<1>1. IInv /\ [Next]_vars => IInv'
  BY NextGoes DEF Goes
<1>2. IInv /\ [Next]_vars => [\A d \in Deliveries : Accounted(d) => Accounted(d)']_vars
  BY NextGoes DEF Goes, StaysAccounted
<1> QED
  BY <1>1, <1>2, InitIInv, PTL DEF Spec, MentionsNotLost

(* Whoever is notified twice of a mention was notified by a save or a deletion that     *)
(* failed or came late: without such a failure, handlers, queue and consumers of any    *)
(* number of servers save each mention once (NotificationService.notify, SqsConsumer).  *)
THEOREM ToldOnce == Spec => []NotifiedOnce
<1>1. IInv /\ OnceInv /\ [Next]_vars => IInv' /\ OnceInv'
  BY NextGoes, NextOnce DEF Goes
<1>2. OnceInv => NotifiedOnce
  BY DEF OnceInv, Once, NotifiedOnce
<1> QED
  BY <1>1, <1>2, InitIInv, InitOnce, PTL DEF Spec

(* For any number of requests and comments, any size of the pages and any clock: a       *)
(* client that pages through a thread while nobody writes has seen just the comments and *)
(* replies there are once the last page says there are no more, though the cursor is cut *)
(* to milliseconds (CommentRepository.listByIssue).                                      *)
THEOREM ThreadsReadWhole == Spec => []ThreadPagesComplete
<1>1. IInv /\ WalkInv /\ [Next]_vars => IInv' /\ WalkInv'
  BY NextGoes, NextWalks DEF Goes
<1> QED
  BY <1>1, InitIInv, InitWalks, WalkedComplete, PTL DEF Spec

(* Whatever fails and however often: the table, the requests, handlers and messages are  *)
(* well-formed, no message is handed out more than MaxReceives times, and no mention has  *)
(* more than a row for each time it was received and one of its handler (SqsConsumer.poll *)
(* saves before it deletes).                                                             *)
THEOREM TypesKept == Spec => []TypeOK
<1>1. IInv /\ OnceInv /\ TypeInv /\ [Next]_vars => IInv' /\ OnceInv' /\ TypeInv'
  BY NextGoes, NextOnce, NextTyped DEF Goes
<1>2. Init => IInv /\ OnceInv /\ TypeInv
  BY InitIInv, InitOnce, InitTyped
<1>3. IInv /\ TypeInv => TypeOK
  BY TypeInvTyped
<1> QED
  BY <1>1, <1>2, <1>3, PTL DEF Spec

(* For any number of servers, comments and failures: once the servers together have seen *)
(* more failing saves than fit below their thresholds, one of them opens the circuit, or  *)
(* is about to (CircuitBreaker.onFailure counts in the memory of each server).            *)
THEOREM CircuitOpens == Spec => []CircuitOpensInTime
<1>1. IInv /\ TripInv /\ [Next]_vars => IInv' /\ TripInv'
  BY NextGoes, NextTrips DEF Goes
<1> QED
  BY <1>1, InitIInv, InitTrips, TripsInTime, PTL DEF Spec
=============================================================================
