------------------------ MODULE SprintLifecycleProofs ------------------------
(***************************************************************************)
(* Proofs about SprintLifecycle for every number of requests, sprints and  *)
(* projects: type correctness, and that a project in which no two starts   *)
(* have overlapped has at most one ACTIVE sprint and stores velocities     *)
(* exactly for its COMPLETED sprints (IInv, IInv2); and that a completion  *)
(* splits its sprint (SplitInv).                                           *)
(***************************************************************************)
EXTENDS SprintLifecycle, TLAPS

(* The steps at which the request holds the answer of FindById. *)
Found == {"active", "velocity", "select", "update", "incomplete", "carry",
          "release", "commit"}
Saving == {"update", "incomplete", "carry", "release", "commit"}

(* A request in a transaction is a start or a completion of a sprint, and its *)
(* step and its target are those of its endpoint.                            *)
JobInv ==
  \A r \in Requests :
    /\ job[r].op \in {"start", "complete"} => job[r].sprint \in Sprints
                                            /\ job[r].project = ProjectOf[job[r].sprint]
    /\ pc[r] \in InTx => job[r].op \in {"start", "complete"}
    /\ pc[r] \in {"query", "fill", "del"} => job[r].project \in Projects
    /\ pc[r] = "active" => job[r].op = "start"
    /\ pc[r] \in {"velocity", "incomplete", "carry"} => job[r].op = "complete"
    /\ pc[r] \in Found => local[r].target.status =
                            (IF job[r].op = "start" THEN "ACTIVE" ELSE "COMPLETED")
    /\ pc[r] \in Found \ {"velocity"} /\ job[r].op = "complete" =>
         local[r].target.velocity # NoVelocity

(* The first part of the argument: a project with no overlap has one start     *)
(* under way at most, and from FindActive on that start has no ACTIVE rival.  *)
StartInv ==
  \A p \in Projects \ overlapped :
    /\ \A q, r \in Requests : StartUnderWay(q, p) /\ StartUnderWay(r, p) => q = r
    /\ \A r \in Requests : StartUnderWay(r, p) /\ pc[r] \in Found =>
         /\ sprints[job[r].sprint].status = "PLANNING"
         /\ pc[r] # "active" => ActiveSprints(p) = {}

(* The second part: what a completion has found stays found. *)
CompleteInv ==
  \A r \in Requests :
    job[r].op = "complete" /\ pc[r] \in Found /\ job[r].project \notin overlapped =>
      sprints[job[r].sprint].status \in {"ACTIVE", "COMPLETED"}

(* The third part: a column that a save leaves out is right already. *)
Columnar(r) ==
  /\ pc[r] \in Saving \ {"update"} => local[r].wrote = (local[r].cols # {})
  /\ pc[r] \in Saving /\ job[r].project \notin overlapped =>
       /\ job[r].op = "start" => local[r].target.velocity = NoVelocity
       /\ job[r].op = "complete" /\ "status" \notin local[r].cols =>
            sprints[job[r].sprint].status = "COMPLETED"
       /\ job[r].op = "complete" /\ "velocity" \notin local[r].cols =>
            sprints[job[r].sprint].velocity # NoVelocity
  /\ pc[r] \in Found /\ job[r].op = "start" /\ job[r].project \notin overlapped =>
       local[r].target.velocity = NoVelocity

ColumnInv == \A r \in Requests : Columnar(r)

IInv == /\ TypeOK /\ JobInv /\ StartInv /\ CompleteInv
        /\ OneActiveUnlessOverlap

IInv2 == /\ IInv /\ ColumnInv /\ VelocityIffCompleted

-----------------------------------------------------------------------------
(* The shape of a step: which request takes it, and which action it is. *)
LEMMA StepCases ==
  ASSUME Next
  PROVE  \/ \E r \in Requests, p \in Projects : ListSprints(r, p)
         \/ \E r \in Requests, s \in Sprints : CreateSprint(r, s) \/ StartSprint(r, s)
         \/ \E r \in Requests, s \in Sprints, carry \in SUBSET Issues,
              next \in Sprints \cup {NoSprint} : CompleteSprint(r, s, carry, next)
         \/ \E r \in Requests : Work(r)
         \/ \E p \in Projects : ExpireList(p)
         \/ \E i \in Issues, row \in IssueRow : WriteIssue(i, row)
  BY DEF Next, Ask

(* What TypeOK says of one request. *)
LEMMA FreshType == Fresh \in Local /\ NoJob \in Job
  BY DEF Fresh, Local, SprintRow, Status, Pages, NoJob, Job, Endpoints, Columns

(* Assigning one field of a request's local state keeps its type. *)
LEMMA FieldType ==
  ASSUME NEW l \in Local
  PROVE  /\ \A x \in SprintRow : [l EXCEPT !.target = x] \in Local
         /\ \A x \in SUBSET Columns : [l EXCEPT !.cols = x] \in Local
         /\ \A x \in BOOLEAN : [l EXCEPT !.wrote = x] \in Local
         /\ \A x \in SUBSET Issues : [l EXCEPT !.todo = x] \in Local
         /\ \A x, y \in SUBSET Issues : [l EXCEPT !.todo = x, !.moved = y] \in Local
  BY DEF Local

LEMMA AbandonType ==
  ASSUME TypeOK, NEW r \in Requests, Abandon(r)
  PROVE  /\ pc' \in [Requests -> Steps] /\ local' \in [Requests -> Local]
         /\ touched' \in [Requests -> SUBSET Issues]
  <1>1. [Fresh EXCEPT !.wrote = local[r].wrote, !.moved = local[r].moved] \in Local
    BY FreshType DEF TypeOK, Local, Fresh
  <1> QED
    BY <1>1 DEF Abandon, Goto, TypeOK, Steps, InTx

LEMMA ReplyType ==
  ASSUME TypeOK, NEW r \in Requests, Reply(r)
  PROVE  /\ pc' \in [Requests -> Steps] /\ local' \in [Requests -> Local]
         /\ touched' \in [Requests -> SUBSET Issues]
         /\ job' \in [Requests -> Job] /\ announced' \subseteq Requests
  BY FreshType DEF Reply, Goto, TypeOK, Steps

LEMMA TypeWork ==
  ASSUME SprintAssumption, TypeOK, JobInv, NEW r \in Requests, Work(r)
  PROVE  TypeOK'
  <1> USE DEF Goto, Proceed, database, cache, history
  <1>1. CASE QueryList(r)
    <2>1. ListOf(job[r].project) \in Pages
      <3>1. job[r].project \in Projects
        BY <1>1 DEF QueryList, JobInv
      <3>2. ListOf(job[r].project) \in [SprintsOf(job[r].project) -> Status]
        BY DEF ListOf, SprintsOf, TypeOK, SprintRow
      <3> QED
        BY <3>1, <3>2 DEF Pages
    <2>3. \A x \in Pages : [local[r] EXCEPT !.page = x] \in Local
      BY DEF TypeOK, Local
    <2>2. local' \in [Requests -> Local]
      BY <1>1, <2>1, <2>3 DEF QueryList, TypeOK
    <2> QED
      BY <1>1, <2>2 DEF QueryList, TypeOK, Steps
  <1>2. CASE FillList(r)
    <2>1. lists' \in [Projects -> Pages]
      BY <1>2 DEF FillList, TypeOK, Local
    <2>2. staled' \subseteq Projects
      BY <1>2 DEF FillList, TypeOK, JobInv
    <2> QED
      BY <1>2, <2>1, <2>2, ReplyType DEF FillList, TypeOK
  <1>3. CASE InvalidateList(r)
    <2>1. lists' \in [Projects -> Pages]
      BY <1>3 DEF InvalidateList, TypeOK, Pages
    <2>2. staled' \subseteq Projects
      BY <1>3 DEF InvalidateList, TypeOK, JobInv
    <2> QED
      BY <1>3, <2>1, <2>2, ReplyType DEF InvalidateList, TypeOK
  <1>4. CASE GetLock(r)
    BY <1>4 DEF GetLock, TypeOK, Steps, InTx, TxBody, LockNames
  <1>0. local[r] \in Local /\ local \in [Requests -> Local]
    BY DEF TypeOK
  <1>5. CASE FindById(r)
    <2> DEFINE row == sprints[job[r].sprint]
    <2>1. row \in SprintRow
      BY <1>5 DEF FindById, JobInv, InTx, TxBody, TypeOK
    <2>2. /\ [row EXCEPT !.status = "ACTIVE"] \in SprintRow
          /\ [row EXCEPT !.status = "COMPLETED"] \in SprintRow
      BY <2>1 DEF SprintRow, Status
    <2>3. \A x \in SprintRow : [local EXCEPT ![r].target = x] \in [Requests -> Local]
      BY <1>0, FieldType
    <2>4. \/ local' = [local EXCEPT ![r].target = [row EXCEPT !.status = "ACTIVE"]]
          \/ local' = [local EXCEPT ![r].target = [row EXCEPT !.status = "COMPLETED"]]
          \/ Abandon(r)
      BY <1>5 DEF FindById
    <2>5. local' \in [Requests -> Local]
      BY <2>2, <2>3, <2>4, AbandonType
    <2> QED
      BY <1>5, <2>5, AbandonType DEF FindById, TypeOK, Steps, InTx, TxBody
  <1>6. CASE FindActive(r)
    BY <1>6, AbandonType DEF FindActive, TypeOK, Steps, InTx, TxBody
  <1>7. CASE GetVelocity(r)
    <2>1. IssuesIn(job[r].sprint, "done") \in SUBSET Issues
      BY DEF IssuesIn
    <2>2. [local[r].target EXCEPT !.velocity = IssuesIn(job[r].sprint, "done")] \in SprintRow
      BY <1>0, <2>1 DEF Local, SprintRow
    <2>3. local' \in [Requests -> Local]
      BY <1>7, <1>0, <2>2, FieldType DEF GetVelocity
    <2> QED
      BY <1>7, <2>3 DEF GetVelocity, TypeOK, Steps, InTx, TxBody
  <1>8. CASE SaveSelect(r)
    <2>1. local' \in [Requests -> Local]
      BY <1>8, <1>0, FieldType DEF SaveSelect
    <2> QED
      BY <1>8, <2>1 DEF SaveSelect, TypeOK, Steps, InTx, TxBody
  <1>9. CASE SaveUpdate(r)
    <2>1. local' \in [Requests -> Local]
      BY <1>9, <1>0, FieldType DEF SaveUpdate
    <2> QED
      BY <1>9, <2>1 DEF SaveUpdate, TypeOK, Steps, InTx, TxBody
  <1>10. CASE GetIncompleteIssues(r)
    <2>1. IssuesIn(job[r].sprint, "open") \in SUBSET Issues
      BY DEF IssuesIn
    <2>2. local' \in [Requests -> Local]
      BY <1>10, <1>0, <2>1, FieldType DEF GetIncompleteIssues
    <2> QED
      BY <1>10, <2>2 DEF GetIncompleteIssues, TypeOK, Steps, InTx, TxBody
  <1>11. CASE CarryOver(r)
    <2>1. /\ local[r].todo \in SUBSET Issues /\ local[r].moved \in SUBSET Issues
      BY <1>0 DEF Local
    <2>2. \A i \in local[r].todo :
            [local[r] EXCEPT !.todo = @ \ {i}, !.moved = @ \cup {i}] \in Local
      <3> TAKE i \in local[r].todo
      <3>1. /\ local[r].todo \ {i} \in SUBSET Issues
            /\ local[r].moved \cup {i} \in SUBSET Issues
        BY <2>1
      <3> QED
        BY <1>0, <3>1, FieldType
    <2>3. local' \in [Requests -> Local]
      BY <1>11, <1>0, <2>2, AbandonType DEF CarryOver
    <2> QED
      BY <1>11, <2>3, AbandonType DEF CarryOver, TypeOK, Steps, InTx, TxBody
  <1>12. CASE ReleaseLock(r)
    BY <1>12 DEF ReleaseLock, TypeOK, Steps, InTx, TxBody
  <1>13. CASE Commit(r)
    <2>1. sprints' \in [Sprints -> SprintRow]
      BY <1>13 DEF Commit, Saved, TypeOK, SprintRow, Local, JobInv, InTx
    <2>2. issues' \in [Issues -> IssueRow]
      BY <1>13 DEF Commit, Dest, TypeOK, IssueRow, Job
    <2>3. touched' \in [Requests -> SUBSET Issues]
      BY <1>13 DEF Commit, Touch, TypeOK, Local
    <2> QED
      BY <1>13, <2>1, <2>2, <2>3, FreshType DEF Commit, TypeOK, Steps
  <1>14. CASE Rollback(r)
    BY <1>14, ReplyType DEF Rollback, TypeOK
  <1>15. CASE Fail(r)
    BY <1>15, AbandonType DEF Fail, TypeOK, Steps, InTx
  <1> QED
    BY <1>1, <1>2, <1>3, <1>4, <1>5, <1>6, <1>7, <1>8, <1>9, <1>10, <1>11, <1>12, <1>13,
       <1>14, <1>15 DEF Work, Progress

LEMMA TypeStep ==
  ASSUME SprintAssumption, TypeOK, JobInv, [Next]_vars
  PROVE  TypeOK'
  <1> USE DEF Goto, database, cache, history
  <1>1. ASSUME NEW r \in Requests, NEW p \in Projects, ListSprints(r, p)
        PROVE  TypeOK'
    BY <1>1, FreshType DEF ListSprints, TypeOK, Steps, NoJob, Job, Endpoints
  <1>2. ASSUME NEW r \in Requests, NEW s \in Sprints, CreateSprint(r, s)
        PROVE  TypeOK'
    <2>1. sprints' \in [Sprints -> SprintRow]
      BY <1>2 DEF CreateSprint, TypeOK, SprintRow, Status
    <2>2. [NoJob EXCEPT !.op = "create", !.sprint = s, !.project = ProjectOf[s]] \in Job
      BY FreshType DEF NoJob, Job, Endpoints, SprintAssumption
    <2> QED
      BY <1>2, <2>1, <2>2 DEF CreateSprint, TypeOK, Steps
  <1>3. ASSUME NEW r \in Requests, NEW s \in Sprints, StartSprint(r, s)
        PROVE  TypeOK'
    <2>1. [NoJob EXCEPT !.op = "start", !.sprint = s, !.project = ProjectOf[s]] \in Job
      BY FreshType DEF NoJob, Job, Endpoints, SprintAssumption
    <2> QED
      BY <1>3, <2>1 DEF StartSprint, OpenTransaction, TypeOK, Steps, InTx
  <1>4. ASSUME NEW r \in Requests, NEW s \in Sprints, NEW carry \in SUBSET Issues,
               NEW next \in Sprints \cup {NoSprint}, CompleteSprint(r, s, carry, next)
        PROVE  TypeOK'
    <2>1. [op |-> "complete", sprint |-> s, project |-> ProjectOf[s],
           carry |-> carry, next |-> next] \in Job
      BY DEF Job, Endpoints, SprintAssumption
    <2> QED
      BY <1>4, <2>1 DEF CompleteSprint, OpenTransaction, TypeOK, Steps, InTx
  <1>5. ASSUME NEW p \in Projects, ExpireList(p)
        PROVE  TypeOK'
    BY <1>5 DEF ExpireList, TypeOK, Pages
  <1>6. ASSUME NEW i \in Issues, NEW row \in IssueRow, WriteIssue(i, row)
        PROVE  TypeOK'
    BY <1>6 DEF WriteIssue, Touch, TypeOK
  <1>7. CASE UNCHANGED vars
    BY <1>7 DEF vars, TypeOK
  <1> QED
    BY <1>1, <1>2, <1>3, <1>4, <1>5, <1>6, <1>7, TypeWork, StepCases

-----------------------------------------------------------------------------
(* JobInv is inductive given the types. *)
LEMMA JobWork ==
  ASSUME SprintAssumption, TypeOK, JobInv, NEW r \in Requests, Work(r)
  PROVE  JobInv'
  <1> USE DEF Goto, Proceed, database, cache, history, JobInv, Found, InTx, TxBody
  <1>0. local \in [Requests -> Local] /\ pc \in [Requests -> Steps] /\ job \in [Requests -> Job]
    BY DEF TypeOK
  <1>1. CASE QueryList(r)
    BY <1>0, <1>1 DEF QueryList
  <1>2. CASE FillList(r) \/ InvalidateList(r) \/ Rollback(r)
    BY <1>0, <1>2 DEF FillList, InvalidateList, Rollback, Reply, NoJob
  <1>3. CASE GetLock(r)
    BY <1>0, <1>3 DEF GetLock
  <1>4. CASE FindById(r)
    <2>1. CASE Abandon(r) /\ UNCHANGED job
      BY <1>0, <1>4, <2>1 DEF FindById, Abandon
    <2>2. CASE /\ job[r].op = "start"
               /\ local' = [local EXCEPT ![r].target =
                              [sprints[job[r].sprint] EXCEPT !.status = "ACTIVE"]]
               /\ Goto(r, "active")
      <3>1. local'[r].target.status = "ACTIVE"
        BY <1>0, <1>4, <2>2 DEF FindById, TypeOK, SprintRow, Local
      <3> QED
        BY <1>0, <1>4, <2>2, <3>1 DEF FindById
    <2>3. CASE /\ job[r].op = "complete"
               /\ local' = [local EXCEPT ![r].target =
                              [sprints[job[r].sprint] EXCEPT !.status = "COMPLETED"]]
               /\ Goto(r, "velocity")
      <3>1. local'[r].target.status = "COMPLETED"
        BY <1>0, <1>4, <2>3 DEF FindById, TypeOK, SprintRow, Local
      <3> QED
        BY <1>0, <1>4, <2>3, <3>1 DEF FindById
    <2> QED
      BY <1>4, <2>1, <2>2, <2>3 DEF FindById
  <1>5. CASE FindActive(r)
    BY <1>0, <1>5 DEF FindActive, Abandon
  <1>6. CASE GetVelocity(r)
    BY <1>0, <1>6 DEF GetVelocity, SprintAssumption, IssuesIn, Local, SprintRow
  <1>7. CASE SaveSelect(r) \/ SaveUpdate(r) \/ GetIncompleteIssues(r)
    BY <1>0, <1>7 DEF SaveSelect, SaveUpdate, GetIncompleteIssues, Local
  <1>8. CASE CarryOver(r)
    <2>1. CASE Abandon(r)
      BY <1>0, <1>8, <2>1 DEF CarryOver, Abandon
    <2>2. CASE Goto(r, "release") /\ UNCHANGED local
      BY <1>0, <1>8, <2>2 DEF CarryOver
    <2>3. ASSUME NEW i \in local[r].todo, UNCHANGED pc,
                 local' = [local EXCEPT ![r].todo = @ \ {i}, ![r].moved = @ \cup {i}]
          PROVE  JobInv'
      <3>1. \A q \in Requests : local'[q].target = local[q].target
        BY <1>0, <2>3 DEF Local
      <3>2. UNCHANGED <<pc, job, sprints>>
        BY <1>8, <2>3 DEF CarryOver
      <3> QED
        BY <3>1, <3>2
    <2> QED
      BY <1>8, <2>1, <2>2, <2>3 DEF CarryOver
  <1>9. CASE ReleaseLock(r)
    BY <1>0, <1>9 DEF ReleaseLock
  <1>10. CASE Commit(r)
    BY <1>0, <1>10 DEF Commit
  <1>11. CASE Fail(r)
    BY <1>0, <1>11 DEF Fail, Abandon
  <1> QED
    BY <1>1, <1>2, <1>3, <1>4, <1>5, <1>6, <1>7, <1>8, <1>9, <1>10, <1>11 DEF Work, Progress

LEMMA JobStep ==
  ASSUME SprintAssumption, TypeOK, JobInv, [Next]_vars
  PROVE  JobInv'
  <1> USE DEF Goto, database, cache, history, JobInv, Found, InTx, TxBody, NoJob, TypeOK
  <1>1. ASSUME NEW r \in Requests, NEW p \in Projects, ListSprints(r, p)
        PROVE  JobInv'
    BY <1>1 DEF ListSprints
  <1>2. ASSUME NEW r \in Requests, NEW s \in Sprints, CreateSprint(r, s) \/ StartSprint(r, s)
        PROVE  JobInv'
    <2>1. CASE CreateSprint(r, s)
      BY <2>1 DEF CreateSprint
    <2>2. CASE StartSprint(r, s)
      <3>1. /\ job'[r].op = "start" /\ job'[r].sprint = s /\ job'[r].project = ProjectOf[s]
            /\ \A q \in Requests \ {r} : job'[q] = job[q]
        BY <2>2 DEF StartSprint, OpenTransaction
      <3>2. pc'[r] = "lock" /\ local' = local /\ \A q \in Requests \ {r} : pc'[q] = pc[q]
        BY <2>2 DEF StartSprint, OpenTransaction
      <3> QED
        BY <3>1, <3>2
    <2> QED
      BY <1>2, <2>1, <2>2
  <1>3. ASSUME NEW r \in Requests, NEW s \in Sprints, NEW carry \in SUBSET Issues,
               NEW next \in Sprints \cup {NoSprint}, CompleteSprint(r, s, carry, next)
        PROVE  JobInv'
    BY <1>3 DEF CompleteSprint, OpenTransaction
  <1>4. ASSUME NEW p \in Projects, ExpireList(p)
        PROVE  JobInv'
    BY <1>4 DEF ExpireList
  <1>5. ASSUME NEW i \in Issues, NEW row \in IssueRow, WriteIssue(i, row)
        PROVE  JobInv'
    BY <1>5 DEF WriteIssue
  <1>6. CASE UNCHANGED vars
    BY <1>6 DEF vars
  <1> QED
    BY <1>1, <1>2, <1>3, <1>4, <1>5, <1>6, JobWork, StepCases

-----------------------------------------------------------------------------
(* How a request that does not commit moves on: the guard it has just passed  *)
(* is all that the invariants need to know.                                  *)
Move(r) ==
  \/ pc'[r] \notin Found \cup {"find"}
  \/ /\ pc[r] = "lock" /\ pc'[r] = "find" /\ job'[r] = job[r]
     /\ \A p \in Projects \ overlapped' : job[r].op = "start" /\ job[r].project = p =>
          \A q \in Requests : ~StartUnderWay(q, p)
  \/ /\ pc[r] = "find" /\ pc'[r] = "active" /\ job'[r] = job[r]
     /\ sprints[job[r].sprint].status = "PLANNING"
  \/ /\ pc[r] = "find" /\ pc'[r] = "velocity" /\ job'[r] = job[r]
     /\ sprints[job[r].sprint].status = "ACTIVE"
  \/ /\ pc[r] = "active" /\ pc'[r] = "select" /\ job'[r] = job[r]
     /\ ActiveSprints(job[r].project) = {}
  \/ /\ pc[r] \in Found \ {"active"} /\ pc'[r] \in Found \ {"active"} /\ job'[r] = job[r]

LEMMA WorkMoves ==
  ASSUME SprintAssumption, TypeOK, JobInv, NEW r \in Requests, Work(r), ~Commit(r)
  PROVE  /\ sprints' = sprints /\ overlapped \subseteq overlapped'
         /\ \A q \in Requests \ {r} : pc'[q] = pc[q] /\ job'[q] = job[q]
         /\ Move(r)
  <1> USE DEF Goto, Proceed, database, cache, history, Found, InTx, TxBody, Move
  <1>0. local \in [Requests -> Local] /\ pc \in [Requests -> Steps] /\ job \in [Requests -> Job]
    BY DEF TypeOK
  <1>1. CASE QueryList(r)
    BY <1>0, <1>1 DEF QueryList
  <1>2. CASE FillList(r) \/ InvalidateList(r) \/ Rollback(r)
    BY <1>0, <1>2 DEF FillList, InvalidateList, Rollback, Reply
  <1>3. CASE GetLock(r)
    BY <1>0, <1>3 DEF GetLock
  <1>4. CASE FindById(r)
    BY <1>0, <1>4 DEF FindById, Abandon
  <1>5. CASE FindActive(r)
    BY <1>0, <1>5 DEF FindActive, Abandon, ActiveSprints
  <1>6. CASE GetVelocity(r)
    BY <1>0, <1>6 DEF GetVelocity
  <1>7. CASE SaveSelect(r) \/ SaveUpdate(r) \/ GetIncompleteIssues(r)
    BY <1>0, <1>7 DEF SaveSelect, SaveUpdate, GetIncompleteIssues
  <1>8. CASE CarryOver(r)
    BY <1>0, <1>8 DEF CarryOver, Abandon
  <1>9. CASE ReleaseLock(r)
    BY <1>0, <1>9 DEF ReleaseLock
  <1>10. CASE Fail(r)
    BY <1>0, <1>10 DEF Fail, Abandon
  <1> QED
    BY <1>1, <1>2, <1>3, <1>4, <1>5, <1>6, <1>7, <1>8, <1>9, <1>10 DEF Work, Progress

LEMMA CommitEffect ==
  ASSUME SprintAssumption, TypeOK, JobInv, NEW r \in Requests, Commit(r)
  PROVE  /\ job[r].sprint \in Sprints /\ job[r].project = ProjectOf[job[r].sprint]
         /\ \A s \in Sprints \ {job[r].sprint} : sprints'[s] = sprints[s]
         /\ sprints'[job[r].sprint] = Saved(r)
         /\ job[r].op \in {"start", "complete"}
         /\ job[r].op = "start" =>
              Saved(r).status \in {"ACTIVE", sprints[job[r].sprint].status}
         /\ job[r].op = "complete" =>
              Saved(r).status \in {"COMPLETED", sprints[job[r].sprint].status}
         /\ \A q \in Requests \ {r} : pc'[q] = pc[q]
         /\ pc[r] = "commit" /\ pc'[r] = "del"
         /\ UNCHANGED <<job, overlapped>>
  BY DEF Commit, Goto, TypeOK, JobInv, InTx, Found, Saved

(* The three invariants on committed sprints, together: Core. *)
Core == StartInv /\ CompleteInv /\ OneActiveUnlessOverlap

LEMMA CoreWork ==
  ASSUME SprintAssumption, TypeOK, JobInv, Core, NEW r \in Requests, Work(r), ~Commit(r)
  PROVE  Core'
  <1>0. /\ sprints' = sprints /\ overlapped \subseteq overlapped'
        /\ \A q \in Requests \ {r} : pc'[q] = pc[q] /\ job'[q] = job[q]
        /\ Move(r)
    BY WorkMoves
  <1>1. OneActiveUnlessOverlap'
    BY <1>0 DEF Core, OneActiveUnlessOverlap, ActiveSprints
  <1>a. JobInv'
    BY JobWork
  <1>b. /\ pc'[r] = "active" => job'[r].op = "start"
        /\ pc'[r] = "velocity" => job'[r].op = "complete"
        /\ pc[r] = "active" => job[r].op = "start"
    BY <1>a DEF JobInv
  <1>2. ASSUME NEW q \in Requests, job'[q].op = "complete", pc'[q] \in Found,
               job'[q].project \notin overlapped'
        PROVE  sprints'[job'[q].sprint].status \in {"ACTIVE", "COMPLETED"}
    <2>1. CASE q # r
      BY <1>0, <1>2, <2>1 DEF Core, CompleteInv
    <2>2. CASE q = r
      BY <1>0, <1>b, <1>2, <2>2 DEF Core, CompleteInv, Move, Found
    <2> QED
      BY <2>1, <2>2
  <1>3. ASSUME NEW p \in Projects \ overlapped',
               NEW q \in Requests, NEW z \in Requests,
               StartUnderWay(q, p)', StartUnderWay(z, p)'
        PROVE  q = z
    BY <1>0, <1>3 DEF Core, StartInv, Move, Found, StartUnderWay, TxBody
  <1>4. ASSUME NEW p \in Projects \ overlapped', NEW q \in Requests,
               StartUnderWay(q, p)', pc'[q] \in Found
        PROVE  /\ sprints'[job'[q].sprint].status = "PLANNING"
               /\ pc'[q] # "active" => ActiveSprints(p)' = {}
    <2>0. ActiveSprints(p)' = ActiveSprints(p) /\ p \in Projects \ overlapped
      BY <1>0 DEF ActiveSprints
    <2>1. CASE q # r
      <3>1. StartUnderWay(q, p) /\ pc[q] \in Found
        BY <1>0, <1>4, <2>1 DEF StartUnderWay
      <3> QED
        BY <1>0, <2>0, <2>1, <3>1 DEF Core, StartInv
    <2>2. CASE q = r
      <3>1. job'[r].op = "start" /\ job'[r].project = p
        BY <1>4, <2>2 DEF StartUnderWay
      <3>2. CASE pc[r] = "find" /\ pc'[r] = "active"
        BY <1>0, <2>2, <3>2, <1>4 DEF Move, Found
      <3>3. CASE pc[r] \in Found /\ job'[r] = job[r]
        <4>1. StartUnderWay(r, p)
          BY <3>1, <3>3 DEF StartUnderWay, Found, TxBody
        <4>2. sprints[job[r].sprint].status = "PLANNING"
          BY <2>0, <3>3, <4>1 DEF Core, StartInv
        <4>3. pc'[r] # "active" => ActiveSprints(p) = {}
          BY <1>0, <1>4, <2>0, <2>2, <3>1, <3>3, <4>1 DEF Core, StartInv, Move, Found
        <4> QED
          BY <1>0, <2>0, <2>2, <3>3, <4>2, <4>3
      <3> QED
        BY <1>0, <1>b, <1>4, <2>2, <3>1, <3>2, <3>3 DEF Move, Found
    <2> QED
      BY <2>1, <2>2
  <1>5. StartInv'
    BY <1>3, <1>4 DEF StartInv
  <1>6. CompleteInv'
    BY <1>2 DEF CompleteInv
  <1> QED
    BY <1>1, <1>5, <1>6 DEF Core

(* A commit: the project of r is the only one whose rows change.            *)
LEMMA CoreCommit ==
  ASSUME SprintAssumption, TypeOK, JobInv, Core, NEW r \in Requests, Commit(r)
  PROVE  Core'
  <1> DEFINE mine == job[r].project
             target == job[r].sprint
  <1>0. /\ target \in Sprints /\ mine = ProjectOf[target] /\ mine \in Projects
        /\ \A s \in Sprints \ {target} : sprints'[s] = sprints[s]
        /\ job[r].op \in {"start", "complete"}
        /\ job[r].op = "start" =>
             sprints'[target].status \in {"ACTIVE", sprints[target].status}
        /\ job[r].op = "complete" =>
             sprints'[target].status \in {"COMPLETED", sprints[target].status}
        /\ \A q \in Requests \ {r} : pc'[q] = pc[q]
        /\ pc[r] = "commit" /\ pc'[r] = "del"
        /\ job' = job /\ overlapped' = overlapped
    BY CommitEffect DEF SprintAssumption
  <1>1. \A p \in Projects, q \in Requests :
          StartUnderWay(q, p)' => StartUnderWay(q, p) /\ q # r
    BY <1>0 DEF StartUnderWay, TxBody
  <1>2. \A p \in Projects \ {mine} : ActiveSprints(p)' = ActiveSprints(p)
    BY <1>0 DEF ActiveSprints, SprintsOf
  <1>3. CASE mine \in overlapped
    <2>1. \A q \in Requests : job[q].op \in {"start", "complete"}
                                /\ job[q].project \notin overlapped =>
            sprints'[job[q].sprint] = sprints[job[q].sprint]
      BY <1>0, <1>3 DEF JobInv
    <2>2. CompleteInv'
      BY <1>0, <2>1 DEF Core, CompleteInv, Found
    <2>3. OneActiveUnlessOverlap'
      BY <1>0, <1>2, <1>3 DEF Core, OneActiveUnlessOverlap
    <2>4. StartInv'
      BY <1>0, <1>1, <1>2, <1>3, <2>1 DEF Core, StartInv, StartUnderWay
    <2> QED
      BY <2>2, <2>3, <2>4 DEF Core
  <1>4. CASE mine \notin overlapped /\ job[r].op = "start"
    <2>1. /\ StartUnderWay(r, mine)
          /\ sprints[target].status = "PLANNING" /\ ActiveSprints(mine) = {}
      BY <1>0, <1>4 DEF Core, StartInv, StartUnderWay, Found
    <2>2. \A q \in Requests : ~StartUnderWay(q, mine)'
      BY <1>0, <1>1, <1>4, <2>1 DEF Core, StartInv
    <2>3. ActiveSprints(mine)' \subseteq {target}
      BY <1>0, <2>1 DEF ActiveSprints, SprintsOf
    <2>4. OneActiveUnlessOverlap'
      BY <1>0, <1>2, <2>3 DEF Core, OneActiveUnlessOverlap
    <2>5. \A q \in Requests : job[q].op = "complete" /\ pc[q] \in Found
                                /\ job[q].project \notin overlapped =>
            job[q].sprint # target
      BY <2>1 DEF Core, CompleteInv
    <2>6. CompleteInv'
      BY <1>0, <2>5 DEF Core, CompleteInv, Found, JobInv
    <2>7. \A q \in Requests, p \in Projects : StartUnderWay(q, p)' =>
            job[q].sprint \in Sprints \ {target} /\ p # mine
      BY <1>0, <1>1, <2>2 DEF JobInv, StartUnderWay
    <2>8. StartInv'
      BY <1>0, <1>1, <1>2, <2>7 DEF Core, StartInv
    <2> QED
      BY <2>4, <2>6, <2>8 DEF Core
  <1>5. CASE mine \notin overlapped /\ job[r].op = "complete"
    <2>1. sprints[target].status \in {"ACTIVE", "COMPLETED"}
      BY <1>0, <1>5 DEF Core, CompleteInv, Found
    <2>2. sprints'[target].status \in {"ACTIVE", "COMPLETED"}
      BY <1>0, <1>5, <2>1
    <2>3. \A p \in Projects : ActiveSprints(p)' \subseteq ActiveSprints(p)
      <3>1. \A s \in Sprints : sprints'[s].status = "ACTIVE" => sprints[s].status = "ACTIVE"
        <4> TAKE s \in Sprints
        <4>1. CASE s = target
          BY <1>0, <1>5, <2>1, <4>1
        <4>2. CASE s # target
          BY <1>0, <4>2
        <4> QED
          BY <4>1, <4>2
      <3> QED
        BY <3>1 DEF ActiveSprints, SprintsOf
    <2>4. OneActiveUnlessOverlap'
      BY <1>0, <2>3 DEF Core, OneActiveUnlessOverlap
    <2>5. CompleteInv'
      BY <1>0, <2>2 DEF Core, CompleteInv, Found, JobInv
    <2>6. \A p \in Projects \ overlapped, q \in Requests :
            StartUnderWay(q, p) /\ pc[q] \in Found => job[q].sprint \in Sprints \ {target}
      <3> SUFFICES ASSUME NEW p \in Projects \ overlapped, NEW q \in Requests,
                          StartUnderWay(q, p), pc[q] \in Found
                   PROVE  job[q].sprint \in Sprints \ {target}
        OBVIOUS
      <3>1. sprints[job[q].sprint].status = "PLANNING"
        BY DEF Core, StartInv
      <3>2. job[q].sprint \in Sprints
        BY DEF JobInv, StartUnderWay
      <3> QED
        BY <2>1, <3>1, <3>2
    <2>7. \A p \in Projects : ActiveSprints(p) = {} => ActiveSprints(p)' = {}
      BY <2>3
    <2>8. StartInv'
      <3>1. ASSUME NEW p \in Projects \ overlapped', NEW q \in Requests,
                   NEW z \in Requests, StartUnderWay(q, p)', StartUnderWay(z, p)'
            PROVE  q = z
        BY <1>0, <1>1, <3>1 DEF Core, StartInv
      <3>2. ASSUME NEW p \in Projects \ overlapped', NEW q \in Requests,
                   StartUnderWay(q, p)', pc'[q] \in Found
            PROVE  /\ sprints'[job'[q].sprint].status = "PLANNING"
                   /\ pc'[q] # "active" => ActiveSprints(p)' = {}
        <4>1. StartUnderWay(q, p) /\ q # r /\ pc[q] = pc'[q] /\ pc[q] \in Found
          BY <1>0, <1>1, <3>2
        <4>2. /\ sprints[job[q].sprint].status = "PLANNING"
              /\ pc[q] # "active" => ActiveSprints(p) = {}
          BY <1>0, <4>1 DEF Core, StartInv
        <4> QED
          BY <1>0, <2>6, <2>7, <4>1, <4>2
      <3> QED
        BY <3>1, <3>2 DEF StartInv
    <2> QED
      BY <2>4, <2>5, <2>8 DEF Core
  <1> QED
    BY <1>0, <1>3, <1>4, <1>5

(* A step that gets no request past GET_LOCK and changes no status but that of *)
(* a sprint just created leaves the three invariants alone.                    *)
LEMMA CoreAside ==
  ASSUME JobInv, Core, overlapped' = overlapped,
         \A q \in Requests : \/ pc'[q] = pc[q] /\ job'[q] = job[q]
                             \/ pc'[q] \notin Found \cup {"find"},
         \A s \in Sprints :
           \/ sprints'[s].status = sprints[s].status
           \/ (sprints[s].status = "NONE" /\ sprints'[s].status = "PLANNING")
  PROVE  Core'
  <1>1. \A p \in Projects : ActiveSprints(p)' = ActiveSprints(p)
    BY DEF ActiveSprints, SprintsOf
  <1>2. OneActiveUnlessOverlap'
    BY <1>1 DEF Core, OneActiveUnlessOverlap
  <1>3. \A q \in Requests, p \in Projects :
          StartUnderWay(q, p)' => StartUnderWay(q, p) /\ pc'[q] = pc[q] /\ job'[q] = job[q]
    BY DEF StartUnderWay, TxBody, Found
  <1>4. ASSUME NEW p \in Projects \ overlapped', NEW q \in Requests,
               StartUnderWay(q, p)', pc'[q] \in Found
        PROVE  /\ sprints'[job'[q].sprint].status = "PLANNING"
               /\ pc'[q] # "active" => ActiveSprints(p)' = {}
    <2>1. /\ StartUnderWay(q, p) /\ pc[q] \in Found /\ p \in Projects \ overlapped
          /\ job'[q] = job[q] /\ pc'[q] = pc[q]
      BY <1>3, <1>4
    <2>2. /\ sprints[job[q].sprint].status = "PLANNING"
          /\ pc[q] # "active" => ActiveSprints(p) = {}
      BY <2>1 DEF Core, StartInv
    <2>3. job[q].sprint \in Sprints
      BY <2>1 DEF JobInv, StartUnderWay
    <2>4. sprints'[job[q].sprint].status = sprints[job[q].sprint].status
      BY <2>2, <2>3
    <2> QED
      BY <1>1, <2>1, <2>2, <2>4
  <1>5. StartInv'
    <2>1. \A p \in Projects \ overlapped', q, r \in Requests :
            StartUnderWay(q, p)' /\ StartUnderWay(r, p)' => q = r
      BY <1>3 DEF Core, StartInv
    <2> QED
      BY <1>4, <2>1 DEF StartInv
  <1>6. ASSUME NEW q \in Requests, job'[q].op = "complete", pc'[q] \in Found,
               job'[q].project \notin overlapped'
        PROVE  sprints'[job'[q].sprint].status \in {"ACTIVE", "COMPLETED"}
    <2>1. job'[q] = job[q] /\ pc'[q] = pc[q]
      BY <1>6
    <2>2. job[q].sprint \in Sprints
      BY <1>6, <2>1 DEF JobInv
    <2>3. sprints[job[q].sprint].status \in {"ACTIVE", "COMPLETED"}
      BY <1>6, <2>1 DEF Core, CompleteInv
    <2> QED
      BY <2>1, <2>2, <2>3
  <1>7. CompleteInv'
    BY <1>6 DEF CompleteInv
  <1> QED
    BY <1>2, <1>5, <1>7 DEF Core

LEMMA CoreStep ==
  ASSUME SprintAssumption, TypeOK, JobInv, Core, [Next]_vars
  PROVE  Core'
  <1> USE DEF Goto, database, cache, history, Found, TypeOK
  <1>1. ASSUME NEW r \in Requests, NEW p \in Projects, ListSprints(r, p)
        PROVE  Core'
    BY <1>1, CoreAside DEF ListSprints
  <1>2. ASSUME NEW r \in Requests, NEW s \in Sprints, CreateSprint(r, s)
        PROVE  Core'
    BY <1>2, CoreAside DEF CreateSprint
  <1>3. ASSUME NEW r \in Requests, NEW s \in Sprints, StartSprint(r, s)
        PROVE  Core'
    BY <1>3, CoreAside DEF StartSprint, OpenTransaction
  <1>4. ASSUME NEW r \in Requests, NEW s \in Sprints, NEW carry \in SUBSET Issues,
               NEW next \in Sprints \cup {NoSprint}, CompleteSprint(r, s, carry, next)
        PROVE  Core'
    BY <1>4, CoreAside DEF CompleteSprint, OpenTransaction
  <1>5. ASSUME NEW r \in Requests, Work(r)
        PROVE  Core'
    BY <1>5, CoreWork, CoreCommit
  <1>6. ASSUME NEW p \in Projects, ExpireList(p)
        PROVE  Core'
    BY <1>6, CoreAside DEF ExpireList
  <1>7. ASSUME NEW i \in Issues, NEW row \in IssueRow, WriteIssue(i, row)
        PROVE  Core'
    BY <1>7, CoreAside DEF WriteIssue
  <1>8. CASE UNCHANGED vars
    BY <1>8, CoreAside DEF vars
  <1> QED
    BY <1>1, <1>2, <1>3, <1>4, <1>5, <1>6, <1>7, <1>8, StepCases

-----------------------------------------------------------------------------
LEMMA InitIInv ==
  ASSUME SprintAssumption, Init
  PROVE  IInv
  <1>1. TypeOK
    BY FreshType DEF Init, TypeOK, SprintRow, Status, IssueRow, Pages, LockNames,
                     Steps, SprintAssumption
  <1>2. JobInv
    BY DEF Init, JobInv, NoJob, InTx, TxBody, Found
  <1>3. StartInv /\ CompleteInv
    BY DEF Init, StartInv, CompleteInv, StartUnderWay, NoJob
  <1>4. OneActiveUnlessOverlap
    BY DEF Init, OneActiveUnlessOverlap, ActiveSprints, SprintsOf
  <1> QED
    BY <1>1, <1>2, <1>3, <1>4 DEF IInv

LEMMA NextIInv ==
  ASSUME SprintAssumption, IInv, [Next]_vars
  PROVE  IInv'
  BY TypeStep, JobStep, CoreStep DEF IInv, Core

(* The invariant the theorems rest on: a request's step determines its endpoint *)
(* and target, and in a project without overlap what start and complete have    *)
(* checked stays true until they commit.                                        *)
THEOREM Invariant == Spec => []IInv
  <1>1. Init => IInv
    BY InitIInv, SprintAssumption
  <1>2. IInv /\ [Next]_vars => IInv'
    BY NextIInv, SprintAssumption
  <1> QED
    BY <1>1, <1>2, PTL DEF Spec

(* Every reachable state is well typed, whatever the number of requests, sprints, *)
(* projects, issues and connections of the sprint service.                        *)
THEOREM TypeCorrect == Spec => []TypeOK
  <1>1. IInv => TypeOK
    BY DEF IInv
  <1> QED
    BY <1>1, Invariant, PTL

(* SprintService.start and complete keep at most one ACTIVE sprint in every project *)
(* in which no two starts were ever past GET_LOCK together, on whichever connections *)
(* they read and however completions overlap, fail or repeat.                        *)
THEOREM OneActive == Spec => []OneActiveUnlessOverlap
  <1>1. IInv => OneActiveUnlessOverlap
    BY DEF IInv
  <1> QED
    BY <1>1, Invariant, PTL

-----------------------------------------------------------------------------
(* A step of the service is, for a project without overlap, a step of its board. *)
LEMMA BoardStep ==
  ASSUME SprintAssumption, IInv, [Next]_vars, NEW p \in Projects \ overlapped'
  PROVE  Board!ProjectStep(p)
  <1> USE DEF Goto, database, cache, history
  <1>1. ASSUME \A s \in SprintsOf(p) : sprints'[s].status = sprints[s].status
        PROVE  Board!ProjectStep(p)
    BY <1>1 DEF Board!ProjectStep, Board!SprintsOf, SprintsOf
  <1>2. ASSUME NEW s \in SprintsOf(p), NEW from, NEW to,
               sprints[s].status = from, sprints'[s].status = to,
               \A z \in Sprints \ {s} : sprints'[z] = sprints[z]
        PROVE  Board!Moves(s, from, to)
    BY <1>2 DEF Board!Moves, SprintsOf
  <1>3. ASSUME NEW r \in Requests, NEW s \in Sprints, CreateSprint(r, s)
        PROVE  Board!ProjectStep(p)
    <2>1. /\ sprints[s].status = "NONE" /\ sprints'[s].status = "PLANNING"
          /\ \A z \in Sprints \ {s} : sprints'[z] = sprints[z]
      BY <1>3 DEF CreateSprint, IInv, TypeOK, SprintRow
    <2>2. CASE s \in SprintsOf(p)
      BY <1>2, <2>1, <2>2 DEF Board!ProjectStep, Board!Create, Board!SprintsOf, SprintsOf
    <2>3. CASE s \notin SprintsOf(p)
      BY <1>1, <2>1, <2>3 DEF SprintsOf
    <2> QED
      BY <2>2, <2>3
  <1>4. ASSUME NEW r \in Requests, Commit(r)
        PROVE  Board!ProjectStep(p)
    <2> DEFINE s == job[r].sprint
    <2>1. /\ s \in Sprints /\ job[r].project = ProjectOf[s]
          /\ \A z \in Sprints \ {s} : sprints'[z] = sprints[z]
          /\ job[r].op \in {"start", "complete"}
          /\ job[r].op = "start" => sprints'[s].status \in {"ACTIVE", sprints[s].status}
          /\ job[r].op = "complete" => sprints'[s].status \in {"COMPLETED", sprints[s].status}
          /\ pc[r] = "commit" /\ overlapped' = overlapped
      BY <1>4, CommitEffect DEF IInv
    <2>2. CASE s \notin SprintsOf(p) \/ sprints'[s].status = sprints[s].status
      BY <1>1, <2>1, <2>2 DEF SprintsOf
    <2>3. CASE /\ s \in SprintsOf(p) /\ job[r].op = "start"
               /\ sprints'[s].status # sprints[s].status
      <3>1. StartUnderWay(r, p)
        BY <2>1, <2>3 DEF StartUnderWay, SprintsOf
      <3>2. sprints[s].status = "PLANNING" /\ ActiveSprints(p) = {}
        BY <2>1, <3>1 DEF IInv, StartInv, Found
      <3>3. Board!ActiveSprints(ProjectOf[s]) = {}
        BY <2>3, <3>2 DEF Board!ActiveSprints, Board!SprintsOf, ActiveSprints, SprintsOf
      <3>4. Board!Moves(s, "PLANNING", "ACTIVE")
        BY <1>2, <2>1, <2>3, <3>2
      <3> QED
        BY <2>3, <3>3, <3>4 DEF Board!ProjectStep, Board!Start, Board!SprintsOf, SprintsOf
    <2>4. CASE /\ s \in SprintsOf(p) /\ job[r].op = "complete"
               /\ sprints'[s].status # sprints[s].status
      <3>1. sprints[s].status \in {"ACTIVE", "COMPLETED"}
        BY <2>1, <2>4 DEF IInv, CompleteInv, Found, SprintsOf
      <3>2. Board!Moves(s, "ACTIVE", "COMPLETED")
        BY <1>2, <2>1, <2>4, <3>1
      <3> QED
        BY <2>4, <3>2 DEF Board!ProjectStep, Board!Complete, Board!SprintsOf, SprintsOf
    <2> QED
      BY <2>1, <2>2, <2>3, <2>4
  <1>5. CASE sprints' = sprints
    BY <1>1, <1>5
  <1>6. \A r \in Requests : Work(r) => sprints' = sprints \/ Commit(r)
    BY WorkMoves DEF IInv
  <1> QED
    BY <1>3, <1>4, <1>5, <1>6, StepCases
    DEF ListSprints, StartSprint, CompleteSprint, OpenTransaction, ExpireList, WriteIssue, vars

(* The sprint service implements SprintBoard, project by project, for as long as  *)
(* no two starts of the project have overlapped: no sprint is created, started or *)
(* completed but by the board's own steps, so COMPLETED is final.                 *)
THEOREM ImplementsBoard == Spec => FollowsBoard
  <1>1. IInv /\ [Next]_vars => [\A p \in Projects \ overlapped' : Board!ProjectStep(p)]_vars
    BY BoardStep, SprintAssumption
  <1> QED
    BY <1>1, Invariant, PTL DEF Spec, FollowsBoard

-----------------------------------------------------------------------------
(* No advisory lock outlives the transaction body that took it: the finally block *)
(* of start and complete runs on every path and frees a lock its request holds.   *)
THEOREM LocksFreed == Spec => []NoLeakedLock
  <1> USE DEF NoLeakedLock, LockOf, TxBody
  <1>1. Init => NoLeakedLock
    BY DEF Init
  <1>2. IInv /\ NoLeakedLock /\ [Next]_vars => NoLeakedLock'
    <2> SUFFICES ASSUME IInv, NoLeakedLock, [Next]_vars
                 PROVE  NoLeakedLock'
      OBVIOUS
    <2> USE DEF Goto, Proceed, database, cache, history, IInv, TypeOK
    <2>1. ASSUME NEW r \in Requests, NEW p \in Projects, ListSprints(r, p)
          PROVE  NoLeakedLock'
      BY <2>1 DEF ListSprints
    <2>2. ASSUME NEW r \in Requests, NEW s \in Sprints, CreateSprint(r, s)
          PROVE  NoLeakedLock'
      BY <2>2 DEF CreateSprint
    <2>3. ASSUME NEW r \in Requests, NEW s \in Sprints, StartSprint(r, s)
          PROVE  NoLeakedLock'
      BY <2>3 DEF StartSprint, OpenTransaction
    <2>4. ASSUME NEW r \in Requests, NEW s \in Sprints, NEW carry \in SUBSET Issues,
                 NEW next \in Sprints \cup {NoSprint}, CompleteSprint(r, s, carry, next)
          PROVE  NoLeakedLock'
      BY <2>4 DEF CompleteSprint, OpenTransaction
    <2>5. ASSUME NEW r \in Requests, GetLock(r)
          PROVE  NoLeakedLock'
      <3>1. LockOf(r) \in LockNames
        BY <2>5 DEF GetLock, JobInv, InTx, LockNames
      <3> QED
        BY <2>5, <3>1 DEF GetLock
    <2>6. ASSUME NEW r \in Requests, ReleaseLock(r)
          PROVE  NoLeakedLock'
      <3>1. ASSUME NEW n \in LockNames, locks'[n] # NoRequest
            PROVE  locks'[n] = locks[n] /\ locks[n] # r
        BY <2>6, <3>1 DEF ReleaseLock
      <3> QED
        BY <2>6, <3>1 DEF ReleaseLock
    <2>7. ASSUME NEW r \in Requests, Work(r), ~GetLock(r), ~ReleaseLock(r)
          PROVE  NoLeakedLock'
      <3>1. locks' = locks /\ \A q \in Requests \ {r} : pc'[q] = pc[q] /\ job'[q] = job[q]
        BY <2>7 DEF Work, Progress, QueryList, FillList, InvalidateList, Rollback, FindById, FindActive,
                    GetVelocity, SaveSelect, SaveUpdate, GetIncompleteIssues, CarryOver,
                    Commit, Fail, Reply, Abandon
      <3>2. \/ pc[r] \notin TxBody \cup {"release", "giveUp"}
            \/ job'[r] = job[r] /\ pc'[r] \in TxBody \cup {"release", "giveUp"}
        BY <2>7 DEF Work, Progress, QueryList, FillList, InvalidateList, Rollback, FindById, FindActive,
                    GetVelocity, SaveSelect, SaveUpdate, GetIncompleteIssues, CarryOver,
                    Commit, Fail, Reply, Abandon
      <3> QED
        BY <3>1, <3>2
    <2>8. ASSUME UNCHANGED <<locks, pc, job>>
          PROVE  NoLeakedLock'
      BY <2>8
    <2> QED
      BY <2>1, <2>2, <2>3, <2>4, <2>5, <2>6, <2>7, <2>8, StepCases
      DEF ExpireList, WriteIssue, vars
  <1> QED
    BY <1>1, <1>2, Invariant, PTL DEF Spec

-----------------------------------------------------------------------------
LEMMA ColumnWork ==
  ASSUME SprintAssumption, IInv2, NEW r \in Requests, Work(r), ~Commit(r)
  PROVE  Columnar(r)'
  <1> USE DEF Goto, Proceed, database, cache, history, Saving, Found, InTx, TxBody
  <1>0. /\ local \in [Requests -> Local] /\ pc \in [Requests -> Steps]
        /\ job \in [Requests -> Job] /\ JobInv /\ Columnar(r)
    BY DEF IInv2, IInv, TypeOK, ColumnInv, Columnar
  <1> USE <1>0 DEF Columnar
  <1>1. CASE QueryList(r)
    BY <1>1 DEF QueryList
  <1>2. CASE FillList(r) \/ InvalidateList(r) \/ Rollback(r)
    BY <1>2 DEF FillList, InvalidateList, Rollback, Reply
  <1>3. CASE GetLock(r)
    BY <1>3 DEF GetLock
  <1>4. CASE FindById(r)
    <2>1. CASE Abandon(r)
      BY <1>4, <2>1 DEF Abandon, FindById
    <2>2. CASE /\ job[r].op = "start" /\ sprints[job[r].sprint].status = "PLANNING"
               /\ local' = [local EXCEPT ![r].target =
                              [sprints[job[r].sprint] EXCEPT !.status = "ACTIVE"]]
               /\ Goto(r, "active")
      <3>1. job[r].sprint \in Sprints /\ ProjectOf[job[r].sprint] = job[r].project
        BY <2>2 DEF JobInv
      <3>2. job[r].project \notin overlapped =>
              sprints[job[r].sprint].velocity = NoVelocity
        BY <2>2, <3>1 DEF IInv2, VelocityIffCompleted
      <3>3. local'[r].target.velocity = sprints[job[r].sprint].velocity
        BY <2>2, <3>1 DEF IInv2, IInv, TypeOK, SprintRow, Local
      <3> QED
        BY <1>4, <2>2, <3>2, <3>3 DEF FindById
    <2>3. CASE job[r].op = "complete" /\ Goto(r, "velocity")
      BY <1>4, <2>3 DEF FindById
    <2> QED
      BY <1>4, <2>1, <2>2, <2>3 DEF FindById
  <1>5. CASE FindActive(r)
    BY <1>5 DEF FindActive, Abandon, JobInv
  <1>6. CASE GetVelocity(r)
    BY <1>6 DEF GetVelocity, JobInv
  <1>7. CASE SaveSelect(r)
    <2>1. /\ local'[r].target = local[r].target /\ pc'[r] = "update" /\ pc[r] = "select"
          /\ local'[r].cols = {c \in Columns : sprints[job[r].sprint][c] # local[r].target[c]}
          /\ sprints' = sprints /\ job' = job /\ overlapped' = overlapped
      BY <1>7 DEF SaveSelect, Local
    <2>2. /\ "status" \notin local'[r].cols =>
               sprints[job[r].sprint].status = local[r].target.status
          /\ "velocity" \notin local'[r].cols =>
               sprints[job[r].sprint].velocity = local[r].target.velocity
      BY <2>1 DEF Columns
    <2> QED
      BY <2>1, <2>2 DEF JobInv
  <1>8. CASE SaveUpdate(r)
    BY <1>8 DEF SaveUpdate, Local
  <1>9. CASE GetIncompleteIssues(r)
    BY <1>9 DEF GetIncompleteIssues, Local
  <1>10. CASE CarryOver(r)
    <2>1. \/ Abandon(r)
          \/ /\ local'[r].target = local[r].target /\ local'[r].cols = local[r].cols
             /\ local'[r].wrote = local[r].wrote /\ pc'[r] \in {"carry", "release"}
      <3>1. CASE Proceed(r, "release") /\ UNCHANGED local
        BY <1>10, <3>1 DEF CarryOver
      <3>2. ASSUME NEW i \in local[r].todo, UNCHANGED pc,
                   local' = [local EXCEPT ![r].todo = @ \ {i}, ![r].moved = @ \cup {i}]
            PROVE  /\ local'[r].target = local[r].target /\ local'[r].cols = local[r].cols
                   /\ local'[r].wrote = local[r].wrote /\ pc'[r] = pc[r]
        <4>1. local[r] \in Local
          OBVIOUS
        <4>2. local'[r] = [local[r] EXCEPT !.todo = @ \ {i}, !.moved = @ \cup {i}]
          BY <3>2
        <4> QED
          BY <3>2, <4>1, <4>2 DEF Local
      <3> QED
        BY <1>10, <3>1, <3>2 DEF CarryOver
    <2> QED
      BY <1>10, <2>1 DEF CarryOver, Abandon
  <1>11. CASE ReleaseLock(r)
    BY <1>11 DEF ReleaseLock
  <1>12. CASE Fail(r)
    BY <1>12 DEF Fail, Abandon
  <1> QED
    BY <1>1, <1>2, <1>3, <1>4, <1>5, <1>6, <1>7, <1>8, <1>9, <1>10, <1>11, <1>12 DEF Work, Progress

(* A commit of r in a project without overlap leaves the sprint as it should be. *)
LEMMA CommitVelocity ==
  ASSUME SprintAssumption, IInv2, NEW r \in Requests, Commit(r),
         job[r].project \notin overlapped
  PROVE  /\ Saved(r).velocity # NoVelocity <=> Saved(r).status = "COMPLETED"
         /\ sprints[job[r].sprint].status = "COMPLETED" => Saved(r).status = "COMPLETED"
         /\ sprints[job[r].sprint].velocity # NoVelocity =>
              Saved(r).velocity # NoVelocity
  <1>0. /\ pc[r] = "commit" /\ job[r].op \in {"start", "complete"}
        /\ job[r].sprint \in Sprints /\ ProjectOf[job[r].sprint] = job[r].project
        /\ job[r].project \in Projects
        /\ local[r].wrote = (local[r].cols # {})
    BY CommitEffect DEF IInv2, IInv, ColumnInv, Columnar, Saving, SprintAssumption
  <1>1. local[r].cols \subseteq Columns /\ Dirty(r) = local[r].cols
    BY <1>0 DEF IInv2, IInv, TypeOK, Local, Dirty
  <1>2. CASE job[r].op = "start"
    <2>1. StartUnderWay(r, job[r].project)
      BY <1>0, <1>2 DEF StartUnderWay
    <2>2. sprints[job[r].sprint].status = "PLANNING"
      BY <1>0, <2>1 DEF IInv2, IInv, StartInv, Found
    <2>3. sprints[job[r].sprint].velocity = NoVelocity
      BY <1>0, <2>2 DEF IInv2, VelocityIffCompleted
    <2>4. local[r].target.velocity = NoVelocity /\ local[r].target.status = "ACTIVE"
      BY <1>0, <1>2 DEF IInv2, IInv, ColumnInv, Columnar, JobInv, Found
    <2> QED
      BY <2>2, <2>3, <2>4 DEF Saved
  <1>3. CASE job[r].op = "complete"
    <2>1. local[r].target.velocity # NoVelocity /\ local[r].target.status = "COMPLETED"
      BY <1>0, <1>3 DEF IInv2, IInv, JobInv, Found
    <2>2. /\ "status" \notin local[r].cols => sprints[job[r].sprint].status = "COMPLETED"
          /\ "velocity" \notin local[r].cols => sprints[job[r].sprint].velocity # NoVelocity
      BY <1>0, <1>3 DEF IInv2, ColumnInv, Columnar, Saving
    <2> QED
      BY <1>1, <2>1, <2>2 DEF Saved
  <1> QED
    BY <1>0, <1>2, <1>3

LEMMA NextIInv2 ==
  ASSUME SprintAssumption, IInv2, [Next]_vars
  PROVE  IInv2'
  <1> USE DEF Goto, database, cache, history
  <1>a. IInv /\ IInv' /\ ColumnInv /\ VelocityIffCompleted /\ TypeOK /\ JobInv
    BY NextIInv DEF IInv2, IInv
  (* Other requests: nothing of theirs changes, and their sprint only improves. *)
  <1>b. ASSUME NEW q \in Requests, pc'[q] = pc[q], job'[q] = job[q], local'[q] = local[q],
               overlapped \subseteq overlapped',
               job[q].project \notin overlapped' /\ job[q].op = "complete"
                 /\ pc[q] \in Saving =>
                 /\ sprints[job[q].sprint].status = "COMPLETED" =>
                      sprints'[job[q].sprint].status = "COMPLETED"
                 /\ sprints[job[q].sprint].velocity # NoVelocity =>
                      sprints'[job[q].sprint].velocity # NoVelocity
        PROVE  Columnar(q)'
    BY <1>a, <1>b DEF ColumnInv, Columnar, Saving
  <1>c. (\A q \in Requests : Columnar(q)') => ColumnInv'
    BY DEF ColumnInv, Columnar
  <1>1. ASSUME NEW r \in Requests, Work(r), ~Commit(r)
        PROVE  ColumnInv' /\ VelocityIffCompleted'
    <2>1. /\ sprints' = sprints /\ overlapped \subseteq overlapped'
          /\ \A q \in Requests \ {r} : pc'[q] = pc[q] /\ job'[q] = job[q]
      BY <1>a, <1>1, WorkMoves
    <2>2. \A q \in Requests \ {r} : local'[q] = local[q]
      BY <1>a, <1>1
      DEF Work, Progress, QueryList, FillList, InvalidateList, Rollback, GetLock, FindById, FindActive,
          GetVelocity, SaveSelect, SaveUpdate, GetIncompleteIssues, CarryOver, ReleaseLock,
          Commit, Fail, Reply, Abandon, TypeOK
    <2>3. \A q \in Requests : Columnar(q)'
      BY <1>b, <1>1, <2>1, <2>2, ColumnWork
    <2> QED
      BY <1>a, <1>c, <2>1, <2>3 DEF VelocityIffCompleted
  <1>2. ASSUME NEW r \in Requests, Commit(r)
        PROVE  ColumnInv' /\ VelocityIffCompleted'
    <2>1. /\ job[r].sprint \in Sprints /\ job[r].project = ProjectOf[job[r].sprint]
          /\ \A s \in Sprints \ {job[r].sprint} : sprints'[s] = sprints[s]
          /\ sprints'[job[r].sprint] = Saved(r)
          /\ \A q \in Requests \ {r} : pc'[q] = pc[q]
          /\ pc'[r] = "del" /\ job' = job /\ overlapped' = overlapped
      BY <1>a, <1>2, CommitEffect
    <2>2. \A q \in Requests \ {r} : local'[q] = local[q]
      BY <1>a, <1>2 DEF Commit, TypeOK
    <2>3. job[r].project \notin overlapped =>
            /\ Saved(r).velocity # NoVelocity <=> Saved(r).status = "COMPLETED"
            /\ sprints[job[r].sprint].status = "COMPLETED" => Saved(r).status = "COMPLETED"
            /\ sprints[job[r].sprint].velocity # NoVelocity => Saved(r).velocity # NoVelocity
      BY <1>2, CommitVelocity
    <2>4. ASSUME NEW q \in Requests \ {r}
          PROVE  Columnar(q)'
      <3>1. job[q].op = "complete" =>
              job[q].sprint \in Sprints /\ job[q].project = ProjectOf[job[q].sprint]
        BY <1>a DEF JobInv
      <3> QED
        BY <1>b, <2>1, <2>2, <2>3, <3>1
    <2>5. Columnar(r)'
      BY <2>1 DEF Columnar, Saving, Found
    <2>6. VelocityIffCompleted'
      BY <1>a, <2>1, <2>3 DEF VelocityIffCompleted
    <2> QED
      BY <1>c, <2>4, <2>5, <2>6
  <1>3. ASSUME NEW r \in Requests, NEW s \in Sprints, CreateSprint(r, s)
        PROVE  ColumnInv' /\ VelocityIffCompleted'
    <2>1. /\ sprints[s].status = "NONE" /\ sprints'[s].status = "PLANNING"
          /\ \A z \in Sprints : sprints'[z].velocity = sprints[z].velocity
          /\ \A z \in Sprints \ {s} : sprints'[z] = sprints[z]
          /\ overlapped' = overlapped /\ local' = local /\ pc'[r] = "del"
          /\ \A q \in Requests \ {r} : pc'[q] = pc[q] /\ job'[q] = job[q]
      BY <1>a, <1>3 DEF CreateSprint, TypeOK, SprintRow
    <2>2. VelocityIffCompleted'
      BY <1>a, <2>1 DEF VelocityIffCompleted
    <2>3. ASSUME NEW q \in Requests \ {r}
          PROVE  Columnar(q)'
      <3>1. job[q].op = "complete" => job[q].sprint \in Sprints
        BY <1>a DEF JobInv
      <3> QED
        BY <1>b, <2>1, <3>1
    <2>4. Columnar(r)'
      BY <2>1 DEF Columnar, Saving, Found
    <2> QED
      BY <1>c, <2>2, <2>3, <2>4
  <1>4. ASSUME UNCHANGED <<sprints, overlapped, local>>,
               \A q \in Requests : \/ pc'[q] = pc[q] /\ job'[q] = job[q]
                                   \/ pc'[q] \notin Found
        PROVE  ColumnInv' /\ VelocityIffCompleted'
    <2>1. VelocityIffCompleted'
      BY <1>a, <1>4 DEF VelocityIffCompleted
    <2>2. ASSUME NEW q \in Requests
          PROVE  Columnar(q)'
      <3>1. CASE pc'[q] = pc[q] /\ job'[q] = job[q]
        BY <1>b, <1>4, <3>1
      <3>2. CASE pc'[q] \notin Found
        BY <3>2 DEF Columnar, Saving, Found
      <3> QED
        BY <1>4, <3>1, <3>2
    <2> QED
      BY <1>c, <2>1, <2>2
  <1>5. ASSUME NEW r \in Requests, NEW p \in Projects, ListSprints(r, p)
        PROVE  ColumnInv' /\ VelocityIffCompleted'
    BY <1>a, <1>4, <1>5 DEF ListSprints, Found, TypeOK
  <1>6. ASSUME NEW r \in Requests, NEW s \in Sprints, StartSprint(r, s)
        PROVE  ColumnInv' /\ VelocityIffCompleted'
    BY <1>a, <1>4, <1>6 DEF StartSprint, OpenTransaction, Found, TypeOK
  <1>7. ASSUME NEW r \in Requests, NEW s \in Sprints, NEW carry \in SUBSET Issues,
               NEW next \in Sprints \cup {NoSprint}, CompleteSprint(r, s, carry, next)
        PROVE  ColumnInv' /\ VelocityIffCompleted'
    BY <1>a, <1>4, <1>7 DEF CompleteSprint, OpenTransaction, Found, TypeOK
  <1>8. ASSUME UNCHANGED <<sprints, overlapped, local, pc, job>>
        PROVE  ColumnInv' /\ VelocityIffCompleted'
    BY <1>4, <1>8
  <1>9. ColumnInv' /\ VelocityIffCompleted'
    BY <1>1, <1>2, <1>3, <1>5, <1>6, <1>7, <1>8, StepCases DEF ExpireList, WriteIssue, vars
  <1> QED
    BY <1>a, <1>9 DEF IInv2

(* A sprint of a project without overlapping starts stores a velocity exactly when *)
(* it is COMPLETED, although save writes only the columns that differed from a row *)
(* it read before: what it leaves out was put there by another completion.         *)
THEOREM VelocityStored == Spec => []VelocityIffCompleted
  <1>1. Init => IInv2
    BY InitIInv, SprintAssumption
    DEF Init, IInv2, ColumnInv, Columnar, VelocityIffCompleted, Saving, Found
  <1>2. IInv2 /\ [Next]_vars => IInv2'
    BY NextIInv2, SprintAssumption
  <1>3. IInv2 => VelocityIffCompleted
    BY DEF IInv2
  <1> QED
    BY <1>1, <1>2, <1>3, PTL DEF Spec

-----------------------------------------------------------------------------
(***************************************************************************)
(* What a completion has read of the issues nobody wrote since is so still. *)
(***************************************************************************)
Carrying == {"carry", "release", "commit"}
Splitting == {"select", "update", "incomplete"} \cup Carrying

(* The issues r counts are done, those it moves are open; while it carries them over, *)
(* some are yet to be moved.                                                           *)
Splits(step, j, l, i) ==
  /\ i \in l.target.velocity <=> i \in IssuesIn(j.sprint, "done")
  /\ step \in Carrying =>
       ((i \in l.moved \/ (step = "carry" /\ i \in l.todo)) <=> i \in IssuesIn(j.sprint, "open"))

Split(step, j, l, others) ==
  /\ step \notin Carrying \cup {"giveUp", "rollback"} => l.moved = {}
  /\ j.op = "complete" /\ step \in Splitting =>
       \A i \in Issues \ others : Splits(step, j, l, i)

SplitInv == \A r \in Requests : Split(pc[r], job[r], local[r], touched[r])

(* The issues stay as they are, and one request goes on. *)
LEMMA SplitLocal ==
  ASSUME TypeOK, SplitInv, issues' = issues, NEW r \in Requests, NEW step, NEW j, NEW l, NEW others,
         Split(step, j, l, others), pc'[r] = step, job'[r] = j, local'[r] = l, touched'[r] = others,
         \A q \in Requests \ {r} : /\ pc'[q] = pc[q] /\ job'[q] = job[q]
                                   /\ local'[q] = local[q] /\ touched'[q] = touched[q]
  PROVE  SplitInv'
  <1>1. ASSUME NEW p, NEW k, NEW m, NEW o, Split(p, k, m, o)
        PROVE  Split(p, k, m, o)'
    BY <1>1 DEF Split, Splits, IssuesIn
  <1>2. ASSUME NEW q \in Requests PROVE Split(pc[q], job[q], local[q], touched[q])'
    BY <1>1 DEF SplitInv
  <1> QED
    BY <1>2 DEF SplitInv

(* Reads change nobody's issues, and what a request reads of them is so. *)
LEMMA SplitWork ==
  ASSUME TypeOK, JobInv, SplitInv, NEW r \in Requests, Work(r), ~Commit(r)
  PROVE  SplitInv'
  <1> USE DEF Goto, Proceed, database, cache, history
  <1>0. /\ local \in [Requests -> Local] /\ pc \in [Requests -> Steps]
        /\ job \in [Requests -> Job] /\ touched \in [Requests -> SUBSET Issues]
    BY DEF TypeOK
  <1>1. /\ issues' = issues
        /\ \A q \in Requests \ {r} : /\ pc'[q] = pc[q] /\ job'[q] = job[q]
                                     /\ local'[q] = local[q] /\ touched'[q] = touched[q]
    BY <1>0 DEF Work, Progress, QueryList, FillList, InvalidateList, Rollback, GetLock, FindById,
         FindActive, GetVelocity, SaveSelect, SaveUpdate, GetIncompleteIssues, CarryOver,
         ReleaseLock, Fail, Reply, Abandon
  <1>2. PICK step, j, l, others : /\ step = pc[r] /\ j = job[r] /\ others = touched[r] /\ l = local[r]
    OBVIOUS
  <1>3. l \in Local /\ Split(step, j, l, others)
    BY <1>0, <1>2 DEF SplitInv
  <1>4. ASSUME NEW p, NEW k, NEW m, NEW o, pc'[r] = p, job'[r] = k, local'[r] = m, touched'[r] = o,
               Split(p, k, m, o)
        PROVE  SplitInv'
    BY <1>1, <1>4, SplitLocal
  <1>5. ASSUME NEW p, p \notin Splitting \cup {"giveUp", "rollback"}, pc'[r] = p
        PROVE  local'[r].moved = {} => SplitInv'
    <2>1. PICK m, o, i : m = local'[r] /\ o = touched'[r] /\ i = job'[r]
      OBVIOUS
    <2> QED
      BY <1>4, <1>5, <2>1 DEF Split, Splitting
  <1>6. CASE Reply(r)
    <2>1. pc'[r] = "idle" /\ local'[r] = Fresh /\ Fresh.moved = {}
      BY <1>0, <1>6 DEF Reply, Fresh
    <2> QED
      BY <1>5, <2>1 DEF Splitting, Carrying
  <1>7. ASSUME pc'[r] \in {"giveUp", "rollback"}
        PROVE  SplitInv'
    <2>1. PICK p, m, o, i : p = pc'[r] /\ m = local'[r] /\ o = touched'[r] /\ i = job'[r]
      OBVIOUS
    <2> QED
      BY <1>4, <1>7, <2>1 DEF Split, Splitting, Carrying
  <1>8. CASE Abandon(r)
    BY <1>0, <1>7, <1>8 DEF Abandon
  <1>9. CASE QueryList(r)
    <2>1. pc[r] = "query" /\ pc'[r] = "fill" /\ local'[r].moved = l.moved
      BY <1>0, <1>2, <1>3, <1>9 DEF QueryList, Local
    <2> QED
      BY <1>2, <1>3, <1>5, <2>1 DEF Split, Splitting, Carrying
  <1>10. CASE GetLock(r) \/ (FindActive(r) /\ ~Abandon(r))
    <2>1. /\ pc[r] \in {"lock", "active"} /\ local'[r] = l /\ job'[r] = j /\ touched'[r] = others
          /\ pc'[r] \in {"find", "select"}
          /\ pc'[r] = "select" => pc[r] = "active"
      BY <1>0, <1>2, <1>10 DEF GetLock, FindActive
    <2>2. pc'[r] = "select" => j.op = "start"
      BY <1>2, <2>1 DEF JobInv
    <2>3. Split(pc[r], j, l, others)
      BY <1>2, <1>3
    <2>4. PICK p : p = pc'[r]
      OBVIOUS
    <2>5. Split(p, j, l, others)
      BY <2>1, <2>2, <2>3, <2>4 DEF Split, Splitting, Carrying
    <2> QED
      BY <1>4, <2>1, <2>4, <2>5
  <1>11. CASE FindById(r) /\ ~Abandon(r)
    <2>1. pc[r] = "find" /\ pc'[r] \in {"active", "velocity"} /\ local'[r].moved = l.moved
      BY <1>0, <1>2, <1>3, <1>11 DEF FindById, Local
    <2>2. l.moved = {}
      BY <1>2, <1>3, <2>1 DEF Split, Carrying
    <2> QED
      BY <1>5, <2>1, <2>2 DEF Splitting, Carrying
  <1>12. CASE GetVelocity(r)
    <2>1. PICK v, m : v = IssuesIn(j.sprint, "done") /\ m = local'[r]
      OBVIOUS
    <2>2. m = [l EXCEPT !.target.velocity = v]
      BY <1>0, <1>2, <1>12, <2>1 DEF GetVelocity
    <2>3. m.moved = l.moved /\ m.target.velocity = IssuesIn(j.sprint, "done")
      BY <1>3, <2>1, <2>2 DEF Local, SprintRow
    <2>4. pc[r] = "velocity" /\ pc'[r] = "select" /\ job'[r] = j /\ touched'[r] = others
      BY <1>0, <1>2, <1>12 DEF GetVelocity
    <2>5. Split("select", j, m, others)
      BY <1>2, <1>3, <2>3, <2>4 DEF Split, Splits, Carrying
    <2> QED
      BY <1>4, <2>1, <2>4, <2>5
  <1>13. CASE SaveSelect(r) \/ SaveUpdate(r)
    <2>1. PICK m : m = local'[r]
      OBVIOUS
    <2>2. ASSUME SaveSelect(r) PROVE m.moved = l.moved /\ m.target = l.target
      BY <1>0, <1>2, <1>3, <2>1, <2>2 DEF SaveSelect, Local
    <2>3. ASSUME SaveUpdate(r) PROVE m.moved = l.moved /\ m.target = l.target
      <3>1. PICK wrote : wrote = (l.cols # {})
        OBVIOUS
      <3>2. m = [l EXCEPT !.wrote = wrote]
        BY <1>0, <1>2, <2>1, <2>3, <3>1 DEF SaveUpdate
      <3> QED
        BY <1>3, <3>2 DEF Local
    <2>4. m = local'[r] /\ m.moved = l.moved /\ m.target = l.target
      BY <1>13, <2>1, <2>2, <2>3
    <2>5. /\ job'[r] = j /\ touched'[r] = others
          /\ \/ pc[r] = "select" /\ pc'[r] = "update"
             \/ pc[r] = "update" /\ pc'[r] = "incomplete"
             \/ pc[r] = "update" /\ pc'[r] = "release" /\ j.op = "start"
      BY <1>0, <1>2, <1>13 DEF SaveSelect, SaveUpdate
    <2>6. PICK p : p = pc'[r]
      OBVIOUS
    <2>7. Split(p, j, m, others)
      BY <1>2, <1>3, <2>4, <2>5, <2>6 DEF Split, Splits, Splitting, Carrying
    <2> QED
      BY <1>4, <2>4, <2>5, <2>6, <2>7
  <1>14. CASE GetIncompleteIssues(r)
    <2>1. PICK m \in Local : /\ m = local'[r] /\ m.moved = l.moved /\ m.target = l.target
                             /\ m.todo = IssuesIn(j.sprint, "open")
      BY <1>0, <1>2, <1>3, <1>14 DEF GetIncompleteIssues, Local, IssuesIn
    <2>2. pc[r] = "incomplete" /\ pc'[r] = "carry" /\ job'[r] = j /\ touched'[r] = others
      BY <1>0, <1>2, <1>14 DEF GetIncompleteIssues
    <2>3. Split("carry", j, m, others)
      BY <1>2, <1>3, <2>1, <2>2 DEF Split, Splits, Splitting, Carrying
    <2> QED
      BY <1>4, <2>1, <2>2, <2>3
  <1>15. CASE CarryOver(r) /\ ~Abandon(r)
    <2>1. pc[r] = "carry" /\ job'[r] = j /\ touched'[r] = others
      BY <1>0, <1>2, <1>15 DEF CarryOver
    <2>2. CASE l.todo = {} /\ pc'[r] = "release" /\ local'[r] = l
      <3>1. Split("release", j, l, others)
        BY <1>2, <1>3, <2>1, <2>2 DEF Split, Splits, Splitting, Carrying
      <3> QED
        BY <1>4, <2>1, <2>2, <3>1
    <2>3. ASSUME NEW i \in l.todo, pc'[r] = "carry",
                 local' = [local EXCEPT ![r].todo = @ \ {i}, ![r].moved = @ \cup {i}]
          PROVE  SplitInv'
      <3>1. PICK m : m = local'[r]
        OBVIOUS
      <3>2. m.target = l.target /\ m.todo = l.todo \ {i} /\ m.moved = l.moved \cup {i}
        BY <1>0, <1>2, <1>3, <2>3, <3>1 DEF Local
      <3>3. Split("carry", j, m, others)
        BY <1>2, <1>3, <2>1, <3>2 DEF Split, Splits, Splitting, Carrying
      <3> QED
        BY <1>4, <2>1, <2>3, <3>1, <3>3
    <2> QED
      BY <1>0, <1>2, <1>15, <2>1, <2>2, <2>3 DEF CarryOver
  <1>16. CASE ReleaseLock(r)
    <2>1. /\ job'[r] = j /\ touched'[r] = others /\ local'[r] = l
          /\ (pc[r] = "release" /\ pc'[r] = "commit") \/ pc'[r] = "rollback"
      BY <1>0, <1>2, <1>16 DEF ReleaseLock
    <2>2. CASE pc[r] = "release" /\ pc'[r] = "commit"
      <3>1. Split("commit", j, l, others)
        BY <1>2, <1>3, <2>2 DEF Split, Splits, Splitting, Carrying
      <3> QED
        BY <1>4, <2>1, <2>2, <3>1
    <2> QED
      BY <1>7, <2>1, <2>2
  <1>17. CASE Fail(r)
    BY <1>0, <1>7, <1>8, <1>17 DEF Fail
  <1> QED
    BY <1>6, <1>8, <1>9, <1>10, <1>11, <1>12, <1>13, <1>14, <1>15, <1>16, <1>17
    DEF Work, Progress, FillList, InvalidateList, Rollback

(* Whoever writes issues leaves them to the histories of the completions. *)
LEMMA SplitTouch ==
  ASSUME TypeOK, SplitInv, NEW changed, NEW r, Touch(changed, r),
         \A i \in Issues \ changed : issues'[i] = issues[i],
         \A q \in Requests \ {r} : pc'[q] = pc[q] /\ job'[q] = job[q] /\ local'[q] = local[q],
         r \in Requests => Split(pc[r], job[r], local[r], touched[r])'
  PROVE  SplitInv'
  <1>1. ASSUME NEW q \in Requests \ {r}
        PROVE  Split(pc[q], job[q], local[q], touched[q])'
    <2>1. PICK step, j, l, others : /\ step = pc[q] /\ j = job[q] /\ l = local[q] /\ others = touched[q]
                                    /\ Split(step, j, l, others)
      BY DEF SplitInv
    <2>2. j.op = "complete" /\ step \in Splitting => touched'[q] = others \cup changed
      BY <2>1 DEF Touch, Splitting, Carrying
    <2>3. ASSUME NEW i \in Issues \ changed, Splits(step, j, l, i)
          PROVE  Splits(step, j, l, i)'
      BY <2>3 DEF Splits, IssuesIn
    <2>4. PICK now : now = touched'[q]
      OBVIOUS
    <2>5. Split(step, j, l, now)'
      BY <2>1, <2>2, <2>3, <2>4 DEF Split
    <2> QED
      BY <2>1, <2>4, <2>5
  <1> QED
    BY <1>1 DEF SplitInv

LEMMA SplitNext ==
  ASSUME SprintAssumption, TypeOK, JobInv, SplitInv, [Next]_vars
  PROVE  SplitInv'
  <1> USE DEF Goto, database, cache, history
  <1>0. local \in [Requests -> Local] /\ pc \in [Requests -> Steps] /\ job \in [Requests -> Job]
    BY DEF TypeOK
  <1>1. ASSUME NEW r \in Requests, Commit(r) PROVE SplitInv'
    <2>1. PICK moved : moved = local[r].moved
      OBVIOUS
    <2>2. Touch(moved, r) /\ \A i \in Issues \ moved : issues'[i] = issues[i]
      BY <1>1, <2>1 DEF Commit
    <2>3. \A q \in Requests \ {r} : pc'[q] = pc[q] /\ job'[q] = job[q] /\ local'[q] = local[q]
      BY <1>0, <1>1 DEF Commit
    <2>4. pc'[r] = "del" /\ local'[r] = Fresh /\ Fresh.moved = {}
      BY <1>0, <1>1 DEF Commit, Fresh
    <2>5. Split(pc[r], job[r], local[r], touched[r])'
      BY <2>4 DEF Split, Splitting, Carrying
    <2> QED
      BY <2>2, <2>3, <2>5, SplitTouch
  <1>2. ASSUME NEW i \in Issues, NEW row \in IssueRow, WriteIssue(i, row) PROVE SplitInv'
    <2>1. Touch({i}, NoRequest) /\ UNCHANGED <<pc, job, local>> /\ NoRequest \notin Requests
      BY <1>2 DEF WriteIssue, SprintAssumption
    <2>2. \A k \in Issues \ {i} : issues'[k] = issues[k]
      BY <1>2 DEF WriteIssue, TypeOK
    <2> QED
      BY <2>1, <2>2, SplitTouch
  <1>3. ASSUME NEW r \in Requests, pc[r] = "idle", pc' = [pc EXCEPT ![r] = pc'[r]],
               pc'[r] \in {"query", "del", "lock"}, UNCHANGED <<issues, local, touched>>,
               \A q \in Requests \ {r} : job'[q] = job[q]
        PROVE  SplitInv'
    <2>1. PICK step, j, l, others : /\ step = pc'[r] /\ j = job'[r] /\ l = local[r] /\ others = touched[r]
      OBVIOUS
    <2>2. Split("idle", job[r], l, others)
      BY <1>3, <2>1 DEF SplitInv
    <2>3. Split(step, j, l, others)
      BY <1>3, <2>1, <2>2 DEF Split, Splitting, Carrying
    <2> QED
      BY <1>0, <1>3, <2>1, <2>3, SplitLocal
  <1>4. ASSUME NEW r \in Requests, Ask(r) PROVE SplitInv'
    BY <1>0, <1>3, <1>4
    DEF Ask, ListSprints, CreateSprint, StartSprint, CompleteSprint, OpenTransaction
  <1>5. CASE UNCHANGED <<issues, pc, job, local, touched>>
    BY <1>5 DEF SplitInv, Split, Splits, IssuesIn
  <1> QED
    BY <1>1, <1>2, <1>4, <1>5, SplitWork DEF Next, ExpireList, vars

LEMMA SplitHolds ==
  ASSUME SprintAssumption, TypeOK, SplitInv
  PROVE  CompletionSplitsSprint
  <1> SUFFICES ASSUME NEW r \in Requests, job[r].op = "complete", pc[r] \in {"release", "commit"},
                      NEW i \in Issues \ touched[r]
               PROVE  /\ ~(i \in local[r].target.velocity /\ i \in local[r].moved)
                      /\ issues[i].sprint = job[r].sprint /\ issues[i].state # "deleted" =>
                           i \in local[r].target.velocity \cup local[r].moved
    BY DEF CompletionSplitsSprint
  <1>1. Splits(pc[r], job[r], local[r], i)
    BY DEF SplitInv, Split, Splitting, Carrying
  <1>2. PICK s : s = job[r].sprint
    OBVIOUS
  <1>3. /\ i \in local[r].target.velocity <=> issues[i] = [sprint |-> s, state |-> "done"]
        /\ i \in local[r].moved <=> issues[i] = [sprint |-> s, state |-> "open"]
    BY <1>1, <1>2 DEF Splits, Carrying, IssuesIn
  <1>4. PICK row \in IssueRow : row = issues[i]
    BY DEF TypeOK
  <1>5. row = [sprint |-> row.sprint, state |-> row.state] /\ row.state \in {"open", "done", "deleted"}
    BY <1>4 DEF IssueRow, SprintAssumption
  <1>6. ~(issues[i] = [sprint |-> s, state |-> "done"] /\ issues[i] = [sprint |-> s, state |-> "open"])
    OBVIOUS
  <1> QED
    BY <1>2, <1>3, <1>4, <1>5, <1>6

(* Whatever else is written meanwhile: an issue nobody wrote since the velocity was *)
(* read is counted or carried over by the completion, never both and never neither  *)
(* (SprintService.complete).                                                        *)
THEOREM SprintSplit == Spec => []CompletionSplitsSprint
  <1>1. Init => SplitInv
    BY DEF Init, SplitInv, Split, Splitting, Carrying, Fresh
  <1>2. IInv /\ SplitInv /\ [Next]_vars => IInv' /\ SplitInv'
    BY NextIInv, SplitNext, SprintAssumption DEF IInv
  <1>3. Init => IInv
    BY InitIInv, SprintAssumption
  <1>4. IInv /\ SplitInv => CompletionSplitsSprint
    BY SplitHolds, SprintAssumption DEF IInv
  <1> QED
    BY <1>1, <1>2, <1>3, <1>4, PTL DEF Spec
-----------------------------------------------------------------------------
(* Cached lists.  Only a write of a project's sprints, a late fill or a DEL that fails *)
(* makes its list differ; the writer goes on to its DEL.                               *)
Waits(p) == \E r \in Requests : pc[r] = "del" /\ job[r].project = p

LEMMA ListKept ==
  ASSUME ListsCurrent, NEW p \in Projects, UNCHANGED lists, staled \subseteq staled',
         NEW r \in Requests, pc[r] # "del",
         \A q \in Requests \ {r} : pc'[q] = pc[q] /\ job'[q] = job[q],
         ListOf(p)' = ListOf(p) \/ Waits(p)',
         p \notin staled'
  PROVE  lists'[p] \in {NoList, ListOf(p)'} \/ Waits(p)'
<1>1. lists[p] \in {NoList, ListOf(p)} \/ Waits(p)
  BY DEF ListsCurrent, Waits
<1>2. Waits(p) => Waits(p)'
  BY DEF Waits
<1> QED
  BY <1>1, <1>2

LEMMA ListWork ==
  ASSUME SprintAssumption, TypeOK, JobInv, ListsCurrent, NEW r \in Requests, Work(r)
  PROVE  ListsCurrent'
<1> SUFFICES ASSUME NEW p \in Projects, p \notin staled'
             PROVE  lists'[p] \in {NoList, ListOf(p)'} \/ Waits(p)'
  BY DEF ListsCurrent, Waits
<1> USE DEF Goto, Proceed, database, cache, history
<1>0. pc \in [Requests -> Steps] /\ job \in [Requests -> Job] /\ lists \in [Projects -> Pages]
  BY DEF TypeOK
<1>1. CASE FillList(r)
  <2>1. UNCHANGED sprints /\ pc[r] # "del" /\ \A q \in Requests \ {r} : pc'[q] = pc[q] /\ job'[q] = job[q]
    BY <1>0, <1>1 DEF FillList, Reply
  <2>2. ListOf(p)' = ListOf(p)
    BY <2>1 DEF ListOf
  <2>3. CASE UNCHANGED cache
    BY <2>1, <2>2, <2>3, ListKept
  <2>4. CASE p = job[r].project /\ ~UNCHANGED cache
    BY <1>0, <1>1, <2>2, <2>4 DEF FillList
  <2>5. CASE p # job[r].project /\ ~UNCHANGED cache
    <3>1. lists'[p] = lists[p] /\ p \notin staled
      BY <1>0, <1>1, <2>5 DEF FillList
    <3>2. lists[p] \in {NoList, ListOf(p)} \/ Waits(p)
      BY <3>1 DEF ListsCurrent, Waits
    <3>3. Waits(p) => Waits(p)'
      BY <2>1 DEF Waits
    <3> QED
      BY <2>2, <3>1, <3>2, <3>3
  <2> QED
    BY <2>3, <2>4, <2>5
<1>2. CASE InvalidateList(r)
  <2>1. UNCHANGED sprints /\ \A q \in Requests \ {r} : pc'[q] = pc[q] /\ job'[q] = job[q]
    BY <1>0, <1>2 DEF InvalidateList, Reply
  <2>2. ListOf(p)' = ListOf(p)
    BY <2>1 DEF ListOf
  <2>3. CASE p = job[r].project
    BY <1>0, <1>2, <2>2, <2>3 DEF InvalidateList
  <2>4. CASE p # job[r].project
    <3>1. lists'[p] = lists[p] /\ p \notin staled
      BY <1>0, <1>2, <2>4 DEF InvalidateList
    <3>2. lists[p] \in {NoList, ListOf(p)} \/ Waits(p)
      BY <3>1 DEF ListsCurrent, Waits
    <3>3. Waits(p) => Waits(p)'
      BY <2>1, <2>4 DEF Waits
    <3> QED
      BY <2>2, <3>1, <3>2, <3>3
  <2> QED
    BY <2>3, <2>4
<1>3. CASE Commit(r)
  <2>1. /\ job[r].sprint \in Sprints /\ job[r].project = ProjectOf[job[r].sprint]
        /\ \A s \in Sprints \ {job[r].sprint} : sprints'[s] = sprints[s]
        /\ \A q \in Requests \ {r} : pc'[q] = pc[q]
        /\ pc[r] = "commit" /\ pc'[r] = "del" /\ UNCHANGED job
    BY <1>3, CommitEffect
  <2>2. UNCHANGED <<lists, staled>>
    BY <1>3 DEF Commit
  <2>3. CASE p = job[r].project
    BY <2>1, <2>3 DEF Waits
  <2>4. CASE p # job[r].project
    <3>1. ListOf(p)' = ListOf(p)
      BY <2>1, <2>4 DEF ListOf, SprintsOf
    <3> QED
      BY <2>1, <2>2, <3>1, ListKept
  <2> QED
    BY <2>3, <2>4
<1>4. CASE ~FillList(r) /\ ~InvalidateList(r) /\ ~Commit(r)
  <2>1. sprints' = sprints /\ \A q \in Requests \ {r} : pc'[q] = pc[q] /\ job'[q] = job[q]
    BY <1>4, WorkMoves
  <2>2. UNCHANGED <<lists, staled>> /\ pc[r] # "del"
    BY <1>4 DEF Work, Progress, QueryList, GetLock, FindById, FindActive, GetVelocity, SaveSelect,
                SaveUpdate, GetIncompleteIssues, CarryOver, ReleaseLock, Rollback, Fail, TxBody
  <2>3. ListOf(p)' = ListOf(p)
    BY <2>1 DEF ListOf
  <2> QED
    BY <2>1, <2>2, <2>3, ListKept
<1> QED
  BY <1>1, <1>2, <1>3, <1>4

LEMMA ListStep ==
  ASSUME SprintAssumption, TypeOK, JobInv, ListsCurrent, [Next]_vars
  PROVE  ListsCurrent'
<1> USE DEF Goto, database, cache, history
<1>0. pc \in [Requests -> Steps] /\ job \in [Requests -> Job] /\ lists \in [Projects -> Pages]
      /\ sprints \in [Sprints -> SprintRow]
  BY DEF TypeOK
<1>1. ASSUME UNCHANGED <<sprints, lists, staled>>, NEW r \in Requests, pc[r] = "idle",
             \A q \in Requests \ {r} : pc'[q] = pc[q] /\ job'[q] = job[q]
      PROVE  ListsCurrent'
  <2> SUFFICES ASSUME NEW p \in Projects, p \notin staled'
               PROVE  lists'[p] \in {NoList, ListOf(p)'} \/ Waits(p)'
    BY DEF ListsCurrent, Waits
  <2>1. ListOf(p)' = ListOf(p)
    BY <1>1 DEF ListOf
  <2> QED
    BY <1>1, <2>1, ListKept
<1>2. ASSUME NEW r \in Requests, NEW s \in Sprints, CreateSprint(r, s)
      PROVE  ListsCurrent'
  <2> SUFFICES ASSUME NEW p \in Projects, p \notin staled'
               PROVE  lists'[p] \in {NoList, ListOf(p)'} \/ Waits(p)'
    BY DEF ListsCurrent, Waits
  <2>1. /\ pc[r] = "idle" /\ pc'[r] = "del" /\ job'[r].project = ProjectOf[s]
        /\ \A q \in Requests \ {r} : pc'[q] = pc[q] /\ job'[q] = job[q]
        /\ \A t \in Sprints \ {s} : sprints'[t] = sprints[t]
        /\ UNCHANGED <<lists, staled>>
    BY <1>0, <1>2 DEF CreateSprint, NoJob
  <2>2. ListOf(p)' = ListOf(p) \/ Waits(p)'
    BY <2>1 DEF ListOf, SprintsOf, Waits
  <2> QED
    BY <2>1, <2>2, ListKept
<1>3. ASSUME NEW p \in Projects, ExpireList(p) PROVE ListsCurrent'
  <2>1. UNCHANGED <<sprints, pc, job>> /\ lists' = [lists EXCEPT ![p] = NoList]
        /\ staled' = staled \ {p}
    BY <1>3 DEF ExpireList
  <2>2. \A o \in Projects : ListOf(o)' = ListOf(o)
    BY <2>1 DEF ListOf
  <2> QED
    BY <1>0, <2>1, <2>2 DEF ListsCurrent
<1>4. ASSUME UNCHANGED <<sprints, lists, staled, pc, job>> PROVE ListsCurrent'
  BY <1>4 DEF ListsCurrent, ListOf
<1>5. ASSUME NEW i \in Issues, NEW row \in IssueRow, WriteIssue(i, row) PROVE ListsCurrent'
  BY <1>4, <1>5 DEF WriteIssue
<1>6. ASSUME NEW r \in Requests, NEW p \in Projects, ListSprints(r, p) PROVE ListsCurrent'
  BY <1>0, <1>1, <1>6 DEF ListSprints
<1>7. ASSUME NEW r \in Requests, NEW s \in Sprints, StartSprint(r, s) PROVE ListsCurrent'
  BY <1>0, <1>1, <1>7 DEF StartSprint, OpenTransaction
<1>8. ASSUME NEW r \in Requests, NEW s \in Sprints, NEW carry \in SUBSET Issues,
             NEW next \in Sprints \cup {NoSprint}, CompleteSprint(r, s, carry, next)
      PROVE  ListsCurrent'
  BY <1>0, <1>1, <1>8 DEF CompleteSprint, OpenTransaction
<1>9. CASE UNCHANGED vars
  BY <1>4, <1>9 DEF vars
<1> QED
  BY <1>2, <1>3, <1>5, <1>6, <1>7, <1>8, <1>9, ListWork, StepCases

(* A cached sprint list that differs from the table is about to be deleted, but for one   *)
(* that was stored by a reader a write had overtaken or whose DEL failed: each committed   *)
(* create, start and completion of whatever number of requests goes on to its DEL.        *)
THEOREM ListsStayCurrent == Spec => []ListsCurrent
<1>1. Init => ListsCurrent
  BY DEF Init, ListsCurrent
<1>2. IInv /\ ListsCurrent /\ [Next]_vars => ListsCurrent'
  BY ListStep, SprintAssumption DEF IInv
<1>3. IInv /\ [Next]_vars => IInv'
  BY NextIInv, SprintAssumption
<1>4. Init => IInv
  BY InitIInv, SprintAssumption
<1> QED
  BY <1>1, <1>2, <1>3, <1>4, PTL DEF Spec
=============================================================================
