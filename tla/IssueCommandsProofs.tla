------------------------- MODULE IssueCommandsProofs -------------------------
(***************************************************************************)
(* Proofs about IssueCommands for every number of requests and issues and  *)
(* every workflow: type correctness, keys that are drawn once, statuses    *)
(* that the workflow leads to, and the bound on a column with a WIP limit. *)
(* Then, about issues no two requests worked on at once: they live the     *)
(* indivisible life of IssueLife, change sprint only as asked, and         *)
(* subscribers know their status.                                          *)
(***************************************************************************)
EXTENDS IssueCommands, FiniteSetTheorems, TLAPS

Creating == {"key", "keyed", "insert"}

(* A request's step determines its endpoint, and what the endpoint has read. *)
PlaceInv ==
  \A r \in Requests :
    /\ pc[r] # "idle" => job[r].issue \in Issues
    /\ pc[r] \in Creating => job[r].op = "create"
    /\ pc[r] \in {"find", "hooks", "select", "write"} =>
         job[r].op \in {"update", "transition", "delete"}
    /\ pc[r] \in {"hooks", "auto"} => job[r].op = "transition"
    /\ pc[r] = "select" => job[r].op = "update"
    /\ job[r].op \in {"create", "transition"} => job[r].to \in Statuses
    /\ pc[r] \in {"select", "write"} /\ job[r].op = "update" =>
         local[r].row.state = "live"

(* An issue being created is nobody else's; every other request knows a row. *)
CreateInv ==
  \A r \in Requests :
    /\ pc[r] \in Creating =>
         /\ rows[job[r].issue].state = "none"
         /\ \A q \in Requests : pc[q] # "idle" /\ job[q].issue = job[r].issue => q = r
    /\ pc[r] \notin Creating \cup {"idle"} => rows[job[r].issue].state # "none"

Base == TypeOK /\ PlaceInv /\ CreateInv

LEMMA Subtypes ==
  /\ Fresh \in Local /\ NoRow \in Row /\ NoJob \in Job /\ NoBody \in Body
  BY DEF Fresh, Local, NoRow, Row, NoJob, Job, NoBody, Body

LEMMA LaidType ==
  ASSUME NEW row \in Row, NEW body \in Body
  PROVE  /\ Laid(row, body) \in Row
         /\ Laid(row, body).state = row.state /\ Laid(row, body).status = row.status
         /\ Laid(row, body).key = row.key
  BY DEF Laid, Row, Body

LEMMA BumpedType ==
  ASSUME NEW row \in Row
  PROVE  /\ Bumped(row) \in Row
         /\ Bumped(row).state = row.state /\ Bumped(row).status = row.status
         /\ Bumped(row).key = row.key
  BY DEF Bumped, Row

(* The row a save leaves behind. *)
LEMMA SavedType ==
  ASSUME Base, NEW r \in Requests, pc[r] = "write", job[r].op = "update"
  PROVE  /\ Saved(r) \in Row /\ Saved(r).key = Mine(r).key
         /\ Saved(r).state \in {"live", Mine(r).state}
         /\ Saved(r).status \in {local[r].row.status, Mine(r).status}
  <1>1. Mine(r) \in Row /\ local[r].row \in Row /\ local[r].row.state = "live"
    BY DEF Base, TypeOK, PlaceInv, Mine, Local
  <1> QED
    BY <1>1 DEF Saved, Row

(* Every row written by a request, and what each write may change. *)
LEMMA TypeWork ==
  ASSUME IssueAssumption, Base, NEW r \in Requests, Work(r)
  PROVE  TypeOK'
  <1> USE DEF Goto, table, history
  <1>0. /\ rows \in [Issues -> Row] /\ local \in [Requests -> Local]
        /\ pc \in [Requests -> Steps] /\ job \in [Requests -> Job]
        /\ local[r] \in Local /\ job[r] \in Job /\ job[r].body \in Body
        /\ pc[r] # "idle" => Mine(r) \in Row
    BY DEF Base, TypeOK, PlaceInv, Mine, Job
  <1>a. ASSUME NEW l \in Local, NEW j \in Job, NEW step \in Steps
        PROVE  /\ [local EXCEPT ![r] = l] \in [Requests -> Local]
               /\ [job EXCEPT ![r] = j] \in [Requests -> Job]
               /\ [pc EXCEPT ![r] = step] \in [Requests -> Steps]
    BY <1>0
  <1>b. Reply(r) => /\ pc' \in [Requests -> Steps] /\ job' \in [Requests -> Job]
                    /\ local' \in [Requests -> Local]
    BY <1>0, Subtypes DEF Reply, Steps
  <1>1. CASE DrawKey(r)
    BY <1>0, <1>1 DEF DrawKey, Base, TypeOK, Steps, Local
  <1>2. CASE CommitKey(r)
    BY <1>0, <1>2 DEF CommitKey, Base, TypeOK, Steps, Local
  <1>3. CASE Insert(r)
    <2>1. job[r].to \in Statuses /\ local[r].key \in Nat /\ job[r].issue \in Issues
      BY <1>0, <1>3 DEF Insert, Base, PlaceInv, Creating, Local
    <2>2. [NoRow EXCEPT !.state = "live", !.status = job[r].to, !.version = 1,
                        !.key = local[r].key] \in Row
      BY <2>1 DEF NoRow, Row
    <2>3. rows' \in [Issues -> Row] /\ origin' \in [Issues -> Statuses \cup {None}]
      <3>1. \A row \in Row : Laid(row, job[r].body) \in Row
        BY <1>0, LaidType
      <3>2. \A row \in Row : [rows EXCEPT ![job[r].issue] = Laid(row, job[r].body)]
                             \in [Issues -> Row]
        BY <1>0, <3>1
      <3>3. rows' \in [Issues -> Row]
        BY <1>0, <1>3, <2>2, <3>2 DEF Insert
      <3> QED
        BY <1>3, <2>1, <3>3 DEF Insert, Base, TypeOK
    <2> QED
      BY <1>0, <1>b, <1>3, <2>3, Subtypes DEF Insert, Base, TypeOK, Written, Steps
  <1>4. CASE NotFound(r)
    BY <1>b, <1>4 DEF NotFound, Base, TypeOK
  <1>5. CASE FindForUpdate(r)
    <2>1. Laid(Mine(r), job[r].body) \in Row
      BY <1>0, <1>5, LaidType DEF FindForUpdate
    <2>2. [Laid(Mine(r), job[r].body) EXCEPT !.version = job[r].version] \in Row
      BY <1>0, <2>1 DEF Row, Job
    <2>3. local' \in [Requests -> Local]
      BY <1>0, <1>5, <2>2 DEF FindForUpdate, Local
    <2> QED
      BY <1>0, <1>5, <2>3 DEF FindForUpdate, Base, TypeOK, Steps
  <1>6. CASE FindForTransition(r)
    <2>1. [local[r] EXCEPT !.row = Mine(r)] \in Local
      BY <1>0, <1>6 DEF FindForTransition, Local
    <2>2. local' \in [Requests -> Local]
      BY <1>0, <1>b, <1>6, <2>1 DEF FindForTransition
    <2> QED
      BY <1>0, <1>b, <1>6, <2>2 DEF FindForTransition, Base, TypeOK, Steps
  <1>7. CASE FindForDelete(r)
    BY <1>0, <1>7 DEF FindForDelete, Base, TypeOK, Steps
  <1>8. CASE SaveSelect(r)
    BY <1>0, <1>8 DEF SaveSelect, Base, TypeOK, Steps, Local
  <1>9. CASE WriteUpdate(r)
    <2>1. rows' \in [Issues -> Row]
      BY <1>0, <1>9, SavedType DEF WriteUpdate
    <2> QED
      BY <1>0, <1>9, <2>1, Subtypes DEF WriteUpdate, Written, Base, TypeOK, Steps
  <1>10. CASE Hooks(r)
    BY <1>0, <1>b, <1>10 DEF Hooks, Base, TypeOK, Steps
  <1>11. CASE WriteTransition(r)
    <2>1. CASE Mine(r).state = "live"
      <3>1. [Mine(r) EXCEPT !.status = job[r].to] \in Row
        BY <1>0, <1>11 DEF WriteTransition, Row, Job
      <3>2. rows' \in [Issues -> Row]
        BY <1>0, <1>11, <2>1, <3>1, BumpedType DEF WriteTransition
      <3> QED
        BY <1>0, <1>11, <2>1, <3>2, Subtypes DEF WriteTransition, Written, Base, TypeOK, Steps
    <2>2. CASE Mine(r).state # "live"
      BY <1>b, <1>11, <2>2 DEF WriteTransition, Base, TypeOK
    <2> QED
      BY <2>1, <2>2
  <1>12. CASE AutoAction(r)
    <2>1. [Mine(r) EXCEPT !.assignee = job[r].user] \in Row
      BY <1>0, <1>12 DEF AutoAction, Row, Job
    <2>2. rows' \in [Issues -> Row]
      BY <1>0, <1>12, <2>1, BumpedType DEF AutoAction
    <2> QED
      BY <1>0, <1>12, <2>2 DEF AutoAction, Base, TypeOK, Steps
  <1>13. CASE WriteDelete(r)
    <2>1. [Mine(r) EXCEPT !.state = "deleted"] \in Row
      BY <1>0, <1>13 DEF WriteDelete, Row
    <2>2. rows' \in [Issues -> Row]
      BY <1>0, <1>13, <2>1, BumpedType DEF WriteDelete
    <2> QED
      BY <1>b, <1>13, <2>2 DEF WriteDelete, Base, TypeOK
  <1>14. CASE Publish(r)
    BY <1>0, <1>b, <1>14 DEF Publish, Base, TypeOK, Job
  <1>15. CASE Fail(r)
    BY <1>b, <1>15 DEF Fail, Base, TypeOK
  <1> QED
    BY <1>1, <1>2, <1>3, <1>4, <1>5, <1>6, <1>7, <1>8, <1>9, <1>10, <1>11, <1>12, <1>13,
       <1>14, <1>15 DEF Work

(* How a request under way moves on. *)
LEMMA WorkMoves ==
  ASSUME IssueAssumption, Base, NEW r \in Requests, Work(r)
  PROVE  /\ pc[r] # "idle"
         /\ \A q \in Requests \ {r} : pc'[q] = pc[q] /\ job'[q] = job[q] /\ local'[q] = local[q]
         /\ \A i \in Issues \ {job[r].issue} : rows'[i] = rows[i] /\ origin'[i] = origin[i]
         /\ pc'[r] # "idle" => job'[r] = job[r]
         /\ job'[r] = job[r] \/ job'[r] = NoJob
         /\ ~Insert(r) => origin' = origin
  <1>0. /\ rows \in [Issues -> Row] /\ local \in [Requests -> Local]
        /\ pc \in [Requests -> Steps] /\ job \in [Requests -> Job]
        /\ origin \in [Issues -> Statuses \cup {None}]
    BY DEF Base, TypeOK
  <1> USE <1>0 DEF Goto, table, history, Reply, Written
  <1>1. CASE DrawKey(r) \/ CommitKey(r) \/ Insert(r) \/ NotFound(r)
    BY <1>1 DEF DrawKey, CommitKey, Insert, NotFound
  <1>2. CASE FindForUpdate(r) \/ FindForTransition(r) \/ FindForDelete(r)
    BY <1>2 DEF FindForUpdate, FindForTransition, FindForDelete
  <1>3. CASE SaveSelect(r) \/ WriteUpdate(r) \/ Hooks(r)
    BY <1>3 DEF SaveSelect, WriteUpdate, Hooks
  <1>4. CASE WriteTransition(r) \/ AutoAction(r) \/ WriteDelete(r)
    BY <1>4 DEF WriteTransition, AutoAction, WriteDelete
  <1>5. CASE Publish(r) \/ Fail(r)
    BY <1>5 DEF Publish, Fail
  <1> QED
    BY <1>1, <1>2, <1>3, <1>4, <1>5 DEF Work

(* A request arrives: nothing moves but its own job. *)
Arrived(r, i) ==
  /\ pc[r] = "idle" /\ job'[r].issue = i
  /\ \A q \in Requests \ {r} : pc'[q] = pc[q] /\ job'[q] = job[q]
  /\ UNCHANGED <<rows, counter, local, announced, origin>>
  /\ \/ /\ pc'[r] = "key" /\ job'[r].op = "create" /\ job'[r].to \in Statuses
        /\ rows[i].state = "none" /\ AtWorkOn(i) = {}
     \/ /\ pc'[r] = "find" /\ rows[i].state # "none"
        /\ job'[r].op \in {"update", "transition", "delete"}
        /\ job'[r].op = "transition" => job'[r].to \in Statuses
  /\ TypeOK'

LEMMA ArriveMoves ==
  ASSUME IssueAssumption, TypeOK, NEW r \in Requests, NEW i \in Issues, Arrive(r, i)
  PROVE  Arrived(r, i)
  <1>0. /\ pc \in [Requests -> Steps] /\ job \in [Requests -> Job] /\ rows[i].version \in Nat
        /\ NoJob \in Job
    BY Subtypes DEF TypeOK, Row
  <1>a. ASSUME NEW j \in Job, j.issue = i, NEW step \in {"key", "find"}, Ask(r, j, step)
        PROVE  /\ pc[r] = "idle" /\ job'[r] = j /\ pc'[r] = step
               /\ \A q \in Requests \ {r} : pc'[q] = pc[q] /\ job'[q] = job[q]
               /\ UNCHANGED <<rows, counter, local, announced, origin>>
               /\ TypeOK'
    BY <1>0, <1>a DEF TypeOK, Steps, Ask, Goto, table
  <1>1. ASSUME NEW s \in CreatedIn, NEW b \in Bodies, Post(r, i, s, b)
        PROVE  Arrived(r, i)
    <2> DEFINE j == [NoJob EXCEPT !.op = "create", !.issue = i, !.to = s, !.body = b]
    <2>1. s \in Statuses /\ b \in Body
      BY DEF IssueAssumption, Bodies
    <2>2. j \in Job /\ j.issue = i /\ j.op = "create" /\ j.to = s
      BY <1>0, <2>1 DEF NoJob, Job, Endpoints
    <2>3. rows[i].state = "none" /\ AtWorkOn(i) = {} /\ Ask(r, j, "key")
      BY <1>1 DEF Post
    <2> QED
      BY <1>a, <2>1, <2>2, <2>3 DEF Arrived
  <1>2. ASSUME NEW b \in Bodies, NEW v \in 1..rows[i].version, Patch(r, i, b, v)
        PROVE  Arrived(r, i)
    <2> DEFINE j == [NoJob EXCEPT !.op = "update", !.issue = i, !.body = b, !.version = v]
    <2>1. b \in Body /\ v \in Nat
      BY <1>0 DEF Bodies
    <2>2. j \in Job /\ j.issue = i /\ j.op = "update"
      BY <1>0, <2>1 DEF NoJob, Job, Endpoints
    <2>3. rows[i].state # "none" /\ Ask(r, j, "find")
      BY <1>2 DEF Patch, Known
    <2> QED
      BY <1>a, <2>2, <2>3 DEF Arrived
  <1>3. ASSUME NEW s \in Statuses, NEW u \in Users, Transition(r, i, s, u)
        PROVE  Arrived(r, i)
    <2> DEFINE j == [NoJob EXCEPT !.op = "transition", !.issue = i, !.to = s, !.user = u]
    <2>2. j \in Job /\ j.issue = i /\ j.op = "transition" /\ j.to = s
      BY <1>0 DEF NoJob, Job, Endpoints
    <2>3. rows[i].state # "none" /\ Ask(r, j, "find")
      BY <1>3 DEF Transition, Known
    <2> QED
      BY <1>a, <2>2, <2>3 DEF Arrived
  <1>4. ASSUME Delete(r, i)
        PROVE  Arrived(r, i)
    <2> DEFINE j == [NoJob EXCEPT !.op = "delete", !.issue = i]
    <2>2. j \in Job /\ j.issue = i /\ j.op = "delete"
      BY <1>0 DEF NoJob, Job, Endpoints
    <2>3. rows[i].state # "none" /\ Ask(r, j, "find")
      BY <1>4 DEF Delete, Known
    <2> QED
      BY <1>a, <2>2, <2>3 DEF Arrived
  <1> QED
    BY <1>1, <1>2, <1>3, <1>4 DEF Arrive

(* A completed sprint moves an issue: its state, status and key stay. *)
LEMMA CarryMoves ==
  ASSUME TypeOK, NEW i \in Issues, NEW s \in Sprints \cup {None}, CarryOver(i, s)
  PROVE  /\ TypeOK'
         /\ \A j \in Issues : rows'[j].state = rows[j].state /\ rows'[j].status = rows[j].status
                                /\ rows'[j].key = rows[j].key
         /\ UNCHANGED <<counter, pc, job, local, announced, origin>>
  <1>1. [rows[i] EXCEPT !.sprint = s] \in Row
    BY DEF TypeOK, Row
  <1>2. rows[i].state = [rows[i] EXCEPT !.sprint = s].state
          /\ rows[i].status = [rows[i] EXCEPT !.sprint = s].status
          /\ rows[i].key = [rows[i] EXCEPT !.sprint = s].key
    BY DEF TypeOK, Row
  <1> QED
    BY <1>1, <1>2, BumpedType DEF CarryOver, TypeOK

-----------------------------------------------------------------------------
LEMMA PlaceWork ==
  ASSUME IssueAssumption, Base, NEW r \in Requests, Work(r)
  PROVE  PlaceInv'
  <1>0. /\ rows \in [Issues -> Row] /\ local \in [Requests -> Local]
        /\ pc \in [Requests -> Steps] /\ job \in [Requests -> Job]
        /\ PlaceInv /\ CreateInv /\ job[r].issue \in Issues
    BY WorkMoves DEF Base, TypeOK, PlaceInv
  <1> USE <1>0 DEF Goto, table, history, Reply, Written, PlaceInv, Creating, NoJob
  <1>1. CASE DrawKey(r) \/ CommitKey(r) \/ Insert(r) \/ NotFound(r)
    BY <1>1 DEF DrawKey, CommitKey, Insert, NotFound
  <1>2. CASE FindForUpdate(r)
    <2>0. Mine(r) \in Row /\ job[r].body \in Body /\ Mine(r).state = "live"
      BY <1>2 DEF FindForUpdate, Mine, Job
    <2>1. [Laid(Mine(r), job[r].body) EXCEPT !.version = job[r].version].state = "live"
      BY <2>0, LaidType DEF Row
    <2>2. local'[r].row.state = "live"
      BY <1>2, <2>1 DEF FindForUpdate, Local
    <2> QED
      BY <1>2, <2>2 DEF FindForUpdate
  <1>3. CASE FindForTransition(r) \/ FindForDelete(r)
    BY <1>3 DEF FindForTransition, FindForDelete
  <1>4. CASE SaveSelect(r)
    BY <1>4 DEF SaveSelect, Local
  <1>5. CASE WriteUpdate(r) \/ Hooks(r)
    BY <1>5 DEF WriteUpdate, Hooks
  <1>6. CASE WriteTransition(r) \/ AutoAction(r) \/ WriteDelete(r)
    BY <1>6 DEF WriteTransition, AutoAction, WriteDelete
  <1>7. CASE Publish(r) \/ Fail(r)
    BY <1>7 DEF Publish, Fail
  <1> QED
    BY <1>1, <1>2, <1>3, <1>4, <1>5, <1>6, <1>7 DEF Work

(* What an INSERT leaves. *)
LEMMA RowInsert ==
  ASSUME IssueAssumption, Base, NEW r \in Requests, Insert(r)
  PROVE  /\ pc[r] = "insert"
         /\ \/ rows' = rows /\ origin' = origin /\ pc'[r] = "idle"
            \/ /\ rows'[job[r].issue].state = "live" /\ pc'[r] = "publish"
               /\ rows'[job[r].issue].key = local[r].key
               /\ \A i \in Issues : rows[i].state # "none" => rows[i].key # local[r].key
               /\ rows'[job[r].issue].status = job[r].to
               /\ origin'[job[r].issue] = job[r].to
  <1>0. /\ rows \in [Issues -> Row] /\ local[r] \in Local
        /\ pc \in [Requests -> Steps] /\ job[r] \in Job
        /\ origin \in [Issues -> Statuses \cup {None}]
        /\ job[r].issue \in Issues /\ job[r].to \in Statuses
    BY DEF Base, TypeOK, PlaceInv, Insert, Creating
  <1> DEFINE new == [NoRow EXCEPT !.state = "live", !.status = job[r].to, !.version = 1,
                                  !.key = local[r].key]
  <1>1. new \in Row /\ new.state = "live" /\ new.status = job[r].to /\ new.key = local[r].key
    BY <1>0 DEF NoRow, Row, Local
  <1>2. /\ Laid(new, job[r].body).state = "live"
        /\ Laid(new, job[r].body).status = job[r].to
        /\ Laid(new, job[r].body).key = local[r].key
    <2>1. job[r].body \in Body
      BY <1>0 DEF Job
    <2> HIDE DEF new
    <2> QED
      BY <1>1, <2>1, LaidType
  <1> HIDE DEF new
  <1>3. \/ rows' = rows /\ origin' = origin /\ Reply(r)
        \/ /\ \A i \in Issues : rows[i].state # "none" => rows[i].key # local[r].key
           /\ rows' = [rows EXCEPT ![job[r].issue] = Laid(new, job[r].body)]
           /\ origin' = [origin EXCEPT ![job[r].issue] = job[r].to]
           /\ Goto(r, "publish")
    BY DEF Insert, Written, new
  <1> QED
    BY <1>0, <1>2, <1>3 DEF Insert, Reply, Goto

(* What any other step of a request leaves of the row it works on. *)
RowKept(r) ==
  /\ rows'[job[r].issue].key = rows[job[r].issue].key
  /\ \/ rows'[job[r].issue].state = rows[job[r].issue].state
     \/ rows[job[r].issue].state # "none" /\ rows'[job[r].issue].state # "none"
  /\ pc'[r] \in Creating => pc[r] \in Creating
  /\ pc[r] \in Creating /\ pc'[r] \notin Creating => pc'[r] = "idle"

LEMMA RowWork ==
  ASSUME IssueAssumption, Base, NEW r \in Requests, Work(r), ~Insert(r)
  PROVE  RowKept(r)
  <1>0. /\ rows \in [Issues -> Row] /\ local[r] \in Local
        /\ pc \in [Requests -> Steps] /\ job[r] \in Job
        /\ PlaceInv /\ CreateInv /\ job[r].issue \in Issues /\ Mine(r) \in Row
        /\ Mine(r) = rows[job[r].issue]
    BY WorkMoves DEF Base, TypeOK, PlaceInv, Mine
  <1> USE <1>0 DEF Goto, table, history, Reply, Written, Creating, RowKept
  <1>1. CASE DrawKey(r) \/ CommitKey(r) \/ NotFound(r)
    BY <1>1 DEF DrawKey, CommitKey, NotFound
  <1>3. CASE FindForUpdate(r) \/ FindForTransition(r) \/ FindForDelete(r)
    BY <1>3 DEF FindForUpdate, FindForTransition, FindForDelete
  <1>4. CASE SaveSelect(r) \/ Hooks(r)
    BY <1>4 DEF SaveSelect, Hooks
  <1>5. CASE WriteUpdate(r)
    BY <1>5, SavedType DEF WriteUpdate, CreateInv
  <1>6. CASE WriteTransition(r)
    <2>1. /\ [Mine(r) EXCEPT !.status = job[r].to] \in Row
          /\ [Mine(r) EXCEPT !.status = job[r].to].state = Mine(r).state
          /\ [Mine(r) EXCEPT !.status = job[r].to].key = Mine(r).key
      BY <1>6 DEF WriteTransition, Row, Job
    <2> QED
      BY <1>6, <2>1, BumpedType DEF WriteTransition
  <1>7. CASE AutoAction(r)
    <2>1. /\ [Mine(r) EXCEPT !.assignee = job[r].user] \in Row
          /\ [Mine(r) EXCEPT !.assignee = job[r].user].state = Mine(r).state
          /\ [Mine(r) EXCEPT !.assignee = job[r].user].key = Mine(r).key
      BY <1>7 DEF AutoAction, Row, Job
    <2> DEFINE new == Bumped([Mine(r) EXCEPT !.assignee = job[r].user])
    <2>2. new.state = Mine(r).state /\ new.key = Mine(r).key
      BY <2>1, BumpedType
    <2>3. rows' = [rows EXCEPT ![job[r].issue] = new] \/ rows' = rows
      BY <1>7 DEF AutoAction
    <2>4. pc[r] = "auto" /\ pc'[r] = "publish"
      BY <1>7 DEF AutoAction
    <2> HIDE DEF new
    <2> QED
      BY <2>2, <2>3, <2>4
  <1>8. CASE WriteDelete(r)
    <2>1. /\ [Mine(r) EXCEPT !.state = "deleted"] \in Row
          /\ [Mine(r) EXCEPT !.state = "deleted"].state = "deleted"
          /\ [Mine(r) EXCEPT !.state = "deleted"].key = Mine(r).key
      BY <1>8 DEF WriteDelete, Row
    <2> QED
      BY <1>8, <2>1, BumpedType DEF WriteDelete, CreateInv
  <1>9. CASE Publish(r) \/ Fail(r)
    BY <1>9 DEF Publish, Fail
  <1> QED
    BY <1>1, <1>3, <1>4, <1>5, <1>6, <1>7, <1>8, <1>9 DEF Work

LEMMA CreateWork ==
  ASSUME IssueAssumption, Base, NEW r \in Requests, Work(r)
  PROVE  CreateInv'
  <1>1. /\ pc[r] # "idle"
        /\ \A q \in Requests \ {r} : pc'[q] = pc[q] /\ job'[q] = job[q]
        /\ \A i \in Issues \ {job[r].issue} : rows'[i] = rows[i]
        /\ pc'[r] # "idle" => job'[r] = job[r]
    BY WorkMoves
  <1>2. PlaceInv /\ CreateInv
    BY DEF Base
  <1>3. CASE Insert(r)
    BY <1>1, <1>2, <1>3, RowInsert DEF CreateInv, PlaceInv, Creating
  <1>4. CASE ~Insert(r)
    BY <1>1, <1>2, <1>4, RowWork DEF CreateInv, PlaceInv, Creating, RowKept
  <1> QED
    BY <1>3, <1>4

LEMMA BaseStep ==
  ASSUME IssueAssumption, Base, [Next]_vars
  PROVE  Base'
  <1>1. ASSUME NEW r \in Requests, Work(r)
        PROVE  Base'
    BY <1>1, TypeWork, PlaceWork, CreateWork DEF Base
  <1>2. ASSUME NEW r \in Requests, NEW i \in Issues, Arrive(r, i)
        PROVE  Base'
    <2>1. Arrived(r, i)
      BY <1>2, ArriveMoves DEF Base
    <2>2. PlaceInv'
      BY <2>1 DEF Base, PlaceInv, Arrived, Creating
    <2>3. CreateInv'
      BY <2>1 DEF Base, PlaceInv, CreateInv, Arrived, Creating, AtWorkOn
    <2> QED
      BY <2>1, <2>2, <2>3 DEF Base, Arrived
  <1>3. ASSUME NEW i \in Issues, NEW s \in Sprints \cup {None}, CarryOver(i, s)
        PROVE  Base'
    BY <1>3, CarryMoves DEF Base, PlaceInv, CreateInv, Creating
  <1>4. CASE UNCHANGED vars
    BY <1>4 DEF vars, Base, TypeOK, PlaceInv, CreateInv
  <1> QED
    BY <1>1, <1>2, <1>3, <1>4 DEF Next

(* Every reachable state of the issue endpoints is well typed. *)
THEOREM IssuesTypeCorrect == Spec => []TypeOK
  <1>1. Init => Base
    BY Subtypes, IssueAssumption DEF Init, Base, TypeOK, PlaceInv, CreateInv, Creating, Steps, NoJob
  <1>2. Base /\ [Next]_vars => Base'
    BY BaseStep, IssueAssumption
  <1>3. Base => TypeOK
    BY DEF Base
  <1> QED
    BY <1>1, <1>2, <1>3, PTL DEF Spec

-----------------------------------------------------------------------------
(* Keys: every key in use or drawn is at most the counter, the one that is being *)
(* drawn is the next, and only one is being drawn.                               *)
KeyInv ==
  /\ \A i \in Issues : rows[i].state # "none" => rows[i].key <= counter
  /\ \A r \in Requests : pc[r] = "insert" => local[r].key <= counter
  /\ \A r \in Requests : pc[r] = "keyed" => local[r].key = counter + 1
  /\ \A q, r \in Requests : pc[q] = "keyed" /\ pc[r] = "keyed" => q = r
  /\ KeysDrawnOnce

LEMMA KeyWork ==
  ASSUME IssueAssumption, Base, KeyInv, NEW r \in Requests, Work(r)
  PROVE  KeyInv'
  <1>0. /\ \A q \in Requests \ {r} : pc'[q] = pc[q] /\ local'[q] = local[q]
        /\ \A i \in Issues \ {job[r].issue} : rows'[i] = rows[i]
        /\ job[r].issue \in Issues /\ pc \in [Requests -> Steps]
        /\ local \in [Requests -> Local] /\ counter \in Nat
        /\ \A i \in Issues : rows[i].key \in Nat
        /\ \A q \in Requests : local[q].key \in Nat
    BY WorkMoves DEF Base, TypeOK, PlaceInv, Row, Local
  <1> USE DEF Goto, table, KeyInv, KeysDrawnOnce
  <1>1. CASE DrawKey(r)
    <2>1. /\ rows' = rows /\ counter' = counter /\ pc'[r] = "keyed"
          /\ local'[r].key = counter + 1 /\ \A q \in Requests : pc[q] # "keyed"
      BY <1>0, <1>1 DEF DrawKey, Local
    <2> QED
      BY <1>0, <2>1
  <1>2. CASE CommitKey(r)
    <2>1. /\ rows' = rows /\ counter' = counter + 1 /\ pc[r] = "keyed" /\ pc'[r] = "insert"
          /\ local'[r].key = counter + 1
      BY <1>0, <1>2 DEF CommitKey
    <2> QED
      BY <1>0, <2>1
  <1>3. CASE Insert(r)
    <2>1. counter' = counter /\ pc[r] = "insert"
      BY <1>3 DEF Insert
    <2> QED
      BY <1>0, <1>3, <2>1, RowInsert
  <1>4. CASE ~DrawKey(r) /\ ~CommitKey(r) /\ ~Insert(r)
    <2>1. pc'[r] \notin Creating /\ counter' = counter
      BY <1>0, <1>4 DEF Creating, Work, NotFound, FindForUpdate, FindForTransition, FindForDelete,
         SaveSelect, WriteUpdate, Hooks, WriteTransition, AutoAction, WriteDelete, Publish,
         Fail, Reply, Written
    <2>2. /\ rows'[job[r].issue].key = rows[job[r].issue].key
          /\ rows'[job[r].issue].state # "none" => rows[job[r].issue].state # "none"
      BY <1>4, RowWork DEF RowKept
    <2> QED
      BY <1>0, <2>1, <2>2 DEF Creating
  <1> QED
    BY <1>1, <1>2, <1>3, <1>4

LEMMA KeyStep ==
  ASSUME IssueAssumption, Base, KeyInv, [Next]_vars
  PROVE  KeyInv'
  <1> USE DEF KeyInv, KeysDrawnOnce
  <1>1. ASSUME NEW r \in Requests, NEW i \in Issues, Arrive(r, i)
        PROVE  KeyInv'
    BY <1>1, ArriveMoves DEF Base, Arrived
  <1>2. ASSUME NEW i \in Issues, NEW s \in Sprints \cup {None}, CarryOver(i, s)
        PROVE  KeyInv'
    BY <1>2, CarryMoves DEF Base
  <1>3. CASE UNCHANGED vars
    BY <1>3 DEF vars
  <1> QED
    BY <1>1, <1>2, <1>3, KeyWork DEF Next

(* IssueKeyGenerator draws every key once: the INSERT of a new issue never meets *)
(* the unique index on issue_key, however many creations run and fail.           *)
THEOREM KeysUnique == Spec => []KeysDrawnOnce
  <1>1. Init => Base /\ KeyInv
    BY Subtypes, IssueAssumption
    DEF Init, Base, TypeOK, PlaceInv, CreateInv, Creating, Steps, NoJob, NoRow, KeyInv,
        KeysDrawnOnce
  <1>2. Base /\ KeyInv /\ [Next]_vars => Base' /\ KeyInv'
    BY BaseStep, KeyStep, IssueAssumption
  <1>3. KeyInv => KeysDrawnOnce
    BY DEF KeyInv
  <1> QED
    BY <1>1, <1>2, <1>3, PTL DEF Spec

-----------------------------------------------------------------------------
(* What a step of a request does to the status of the issue it works on ... *)
StatusWritten(r) ==
  LET i == job[r].issue IN
    \/ /\ rows'[i].status = rows[i].status
       /\ rows'[i].state = "live" => rows[i].state = "live"
    \/ /\ pc[r] = "write" /\ job[r].op = "update"
       /\ rows'[i].status \in {local[r].row.status, rows[i].status}
    \/ /\ pc[r] = "write" /\ job[r].op = "transition" /\ rows[i].state = "live"
       /\ rows'[i].status = job[r].to

(* ... and what it keeps of what it reads. *)
StatusRead(r) ==
  LET i == job[r].issue IN
    \/ pc'[r] \notin {"hooks", "select", "write"}
    \/ /\ pc[r] = "find" /\ pc'[r] = "select" /\ rows[i].state = "live"
       /\ local'[r].row.status = rows[i].status /\ rows' = rows
    \/ /\ pc[r] = "find" /\ pc'[r] = "hooks" /\ <<rows[i].status, job[r].to>> \in Allowed
       /\ rows' = rows
    \/ pc[r] = "find" /\ pc'[r] = "write" /\ job[r].op = "delete" /\ rows' = rows
    \/ pc[r] = "select" /\ pc'[r] = "write" /\ local'[r].row = local[r].row /\ rows' = rows
    \/ pc[r] = "hooks" /\ pc'[r] = "write" /\ ~WipReached(job[r].to) /\ rows' = rows

LEMMA StatusWork ==
  ASSUME IssueAssumption, Base, NEW r \in Requests, Work(r), ~Insert(r)
  PROVE  StatusWritten(r) /\ StatusRead(r)
  <1>0. /\ rows \in [Issues -> Row] /\ local \in [Requests -> Local] /\ local[r] \in Local
        /\ pc \in [Requests -> Steps] /\ job[r] \in Job
        /\ PlaceInv /\ job[r].issue \in Issues /\ Mine(r) \in Row
        /\ Mine(r) = rows[job[r].issue]
    BY WorkMoves DEF Base, TypeOK, PlaceInv, Mine
  <1> USE <1>0 DEF Goto, table, Reply, Written, StatusWritten, StatusRead
  <1>1. CASE DrawKey(r) \/ CommitKey(r) \/ NotFound(r) \/ Publish(r) \/ Fail(r)
    BY <1>1 DEF DrawKey, CommitKey, NotFound, Publish, Fail
  <1>2. CASE FindForUpdate(r)
    <2> DEFINE row == [Laid(Mine(r), job[r].body) EXCEPT !.version = job[r].version]
    <2>1. job[r].body \in Body
      BY DEF Job
    <2>2. Laid(Mine(r), job[r].body) \in Row /\ Laid(Mine(r), job[r].body).status = Mine(r).status
      BY <2>1, LaidType
    <2>3. row.status = Mine(r).status
      BY <2>2 DEF Row
    <2> HIDE DEF row
    <2>4. local' = [local EXCEPT ![r].row = row]
      BY <1>2 DEF FindForUpdate, row
    <2>5. local'[r].row.status = Mine(r).status
      BY <2>3, <2>4 DEF Local
    <2> QED
      BY <1>2, <2>5 DEF FindForUpdate
  <1>3. CASE FindForTransition(r) \/ FindForDelete(r)
    BY <1>3 DEF FindForTransition, FindForDelete
  <1>4. CASE SaveSelect(r)
    BY <1>4 DEF SaveSelect, Local
  <1>5. CASE Hooks(r)
    BY <1>5 DEF Hooks
  <1>6. CASE WriteUpdate(r)
    BY <1>6, SavedType DEF WriteUpdate
  <1>7. CASE WriteTransition(r)
    <2> DEFINE new == Bumped([Mine(r) EXCEPT !.status = job[r].to])
    <2>1. /\ [Mine(r) EXCEPT !.status = job[r].to] \in Row
          /\ [Mine(r) EXCEPT !.status = job[r].to].status = job[r].to
      BY <1>7 DEF WriteTransition, Row, Job
    <2>2. new.status = job[r].to
      BY <2>1, BumpedType
    <2>3. \/ /\ rows' = [rows EXCEPT ![job[r].issue] = new] /\ Mine(r).state = "live"
          \/ rows' = rows
      BY <1>7 DEF WriteTransition
    <2>4. /\ pc[r] = "write" /\ job[r].op = "transition"
          /\ pc'[r] \in {"auto", "publish", "idle"}
      BY <1>7 DEF WriteTransition
    <2> HIDE DEF new
    <2> QED
      BY <2>2, <2>3, <2>4
  <1>8. CASE AutoAction(r)
    <2> DEFINE new == Bumped([Mine(r) EXCEPT !.assignee = job[r].user])
    <2>1. /\ [Mine(r) EXCEPT !.assignee = job[r].user] \in Row
          /\ [Mine(r) EXCEPT !.assignee = job[r].user].state = Mine(r).state
          /\ [Mine(r) EXCEPT !.assignee = job[r].user].status = Mine(r).status
      BY <1>8 DEF AutoAction, Row, Job
    <2>2. new.state = Mine(r).state /\ new.status = Mine(r).status
      BY <2>1, BumpedType
    <2>3. rows' = [rows EXCEPT ![job[r].issue] = new] \/ rows' = rows
      BY <1>8 DEF AutoAction
    <2>4. pc'[r] = "publish"
      BY <1>8 DEF AutoAction
    <2> HIDE DEF new
    <2> QED
      BY <2>2, <2>3, <2>4
  <1>9. CASE WriteDelete(r)
    <2>1. /\ [Mine(r) EXCEPT !.state = "deleted"] \in Row
          /\ [Mine(r) EXCEPT !.state = "deleted"].state = "deleted"
          /\ [Mine(r) EXCEPT !.state = "deleted"].status = Mine(r).status
      BY <1>9 DEF WriteDelete, Row
    <2> QED
      BY <1>9, <2>1, BumpedType DEF WriteDelete
  <1> QED
    BY <1>1, <1>2, <1>3, <1>4, <1>5, <1>6, <1>7, <1>8, <1>9 DEF Work

(* What the workflow leads to, for rows and for what requests have read of them. *)
ReachInv ==
  \A S \in SUBSET Statuses : Closed(S) =>
    /\ \A i \in Issues : origin[i] \in S => rows[i].status \in S
    /\ \A r \in Requests : pc[r] \in {"hooks", "select", "write"}
                             /\ origin[job[r].issue] \in S =>
         /\ job[r].op = "update" => local[r].row.status \in S
         /\ job[r].op = "transition" => job[r].to \in S

LEMMA ReachWork ==
  ASSUME IssueAssumption, Base, ReachInv, NEW r \in Requests, Work(r)
  PROVE  ReachInv'
  <1> SUFFICES ASSUME NEW S \in SUBSET Statuses, Closed(S)
               PROVE  /\ \A i \in Issues : origin'[i] \in S => rows'[i].status \in S
                      /\ \A q \in Requests : pc'[q] \in {"hooks", "select", "write"}
                                               /\ origin'[job'[q].issue] \in S =>
                           /\ job'[q].op = "update" => local'[q].row.status \in S
                           /\ job'[q].op = "transition" => job'[q].to \in S
    BY DEF ReachInv, Closed
  <1>0. /\ \A q \in Requests \ {r} : pc'[q] = pc[q] /\ job'[q] = job[q] /\ local'[q] = local[q]
        /\ \A i \in Issues \ {job[r].issue} : rows'[i] = rows[i] /\ origin'[i] = origin[i]
        /\ pc'[r] # "idle" => job'[r] = job[r]
        /\ ~Insert(r) => origin' = origin
        /\ PlaceInv /\ CreateInv /\ job[r].issue \in Issues
    BY WorkMoves DEF Base, PlaceInv
  <1>1. /\ \A i \in Issues : origin[i] \in S => rows[i].status \in S
        /\ \A q \in Requests : pc[q] \in {"hooks", "select", "write"}
                                 /\ origin[job[q].issue] \in S =>
             /\ job[q].op = "update" => local[q].row.status \in S
             /\ job[q].op = "transition" => job[q].to \in S
    BY DEF ReachInv
  <1>2. CASE Insert(r)
    <2>1. /\ pc[r] = "insert"
          /\ \/ rows' = rows /\ origin' = origin /\ pc'[r] = "idle"
             \/ /\ pc'[r] = "publish" /\ rows'[job[r].issue].status = job[r].to
                /\ origin'[job[r].issue] = job[r].to
      BY <1>2, RowInsert
    <2>2. \A q \in Requests \ {r} : pc[q] # "idle" =>
            job[q].issue \in Issues /\ job[q].issue # job[r].issue
      BY <1>0, <2>1 DEF PlaceInv, CreateInv, Creating
    <2> QED
      BY <1>0, <1>1, <2>1, <2>2
  <1>3. CASE ~Insert(r)
    <2>1. StatusWritten(r) /\ StatusRead(r)
      BY <1>3, StatusWork
    <2>2. \A i \in Issues : origin'[i] \in S => rows'[i].status \in S
      BY <1>0, <1>1, <1>3, <2>1 DEF StatusWritten
    <2>3. ASSUME pc'[r] \in {"hooks", "select", "write"}, origin'[job'[r].issue] \in S
          PROVE  /\ job'[r].op = "update" => local'[r].row.status \in S
                 /\ job'[r].op = "transition" => job'[r].to \in S
      <3>1. job'[r] = job[r] /\ origin[job[r].issue] \in S /\ rows[job[r].issue].status \in S
        BY <1>0, <1>1, <1>3, <2>3
      <3>2. \A a, b : <<a, b>> \in Allowed /\ a \in S => b \in S
        BY DEF Closed
      <3>3. pc'[r] = "select" => job[r].op = "update"
        BY <3>1, PlaceWork DEF PlaceInv
      <3>4. CASE pc[r] = "find" /\ pc'[r] = "select"
        BY <2>1, <3>1, <3>3, <3>4 DEF StatusRead
      <3>5. CASE pc[r] = "find" /\ pc'[r] = "hooks"
        <4>1. job[r].to \in S
          BY <2>1, <3>1, <3>2, <3>5 DEF StatusRead
        <4>2. job'[r].op = "transition"
          BY <3>5, PlaceWork DEF PlaceInv
        <4> QED
          BY <3>1, <4>1, <4>2
      <3>6. CASE pc[r] = "select" /\ pc'[r] = "write"
        BY <1>0, <1>1, <2>1, <3>1, <3>6 DEF StatusRead, PlaceInv
      <3>7. CASE pc[r] = "hooks" /\ pc'[r] = "write"
        BY <1>0, <1>1, <3>1, <3>7 DEF PlaceInv
      <3>8. CASE pc'[r] = "write" /\ job[r].op = "delete"
        BY <3>1, <3>8
      <3> QED
        BY <2>1, <2>3, <3>4, <3>5, <3>6, <3>7, <3>8 DEF StatusRead
    <2> QED
      BY <1>0, <1>1, <1>3, <2>2, <2>3
  <1> QED
    BY <1>2, <1>3

LEMMA ReachStep ==
  ASSUME IssueAssumption, Base, ReachInv, [Next]_vars
  PROVE  ReachInv'
  <1>1. ASSUME NEW r \in Requests, NEW i \in Issues, Arrive(r, i)
        PROVE  ReachInv'
    <2>1. /\ \A q \in Requests \ {r} : pc'[q] = pc[q] /\ job'[q] = job[q]
          /\ pc'[r] \in {"key", "find"} /\ UNCHANGED <<rows, local, origin>>
      BY <1>1, ArriveMoves DEF Base, Arrived
    <2>2. \A q \in Requests : pc'[q] \in {"hooks", "select", "write"} =>
            q # r /\ pc'[q] = pc[q] /\ job'[q] = job[q]
      BY <2>1
    <2> HIDE DEF Closed
    <2>3. \A S : Closed(S)' <=> Closed(S)
      BY DEF Closed
    <2> QED
      BY <2>1, <2>2, <2>3 DEF ReachInv
  <1>2. ASSUME NEW i \in Issues, NEW s \in Sprints \cup {None}, CarryOver(i, s)
        PROVE  ReachInv'
    BY <1>2, CarryMoves DEF Base, ReachInv, Closed
  <1>3. CASE UNCHANGED vars
    BY <1>3 DEF vars, ReachInv, Closed
  <1> QED
    BY <1>1, <1>2, <1>3, ReachWork DEF Next

(* Every status of an issue is one the workflow leads to from where the issue was *)
(* created: stale transitions, saves of old copies and undeletions included.      *)
THEOREM StatusesReachable == Spec => []StatusReachable
  <1>1. Init => Base /\ ReachInv
    <2> SUFFICES ASSUME Init PROVE Base /\ ReachInv
      OBVIOUS
    <2>1. Base
      BY Subtypes, IssueAssumption
      DEF Init, Base, TypeOK, PlaceInv, CreateInv, Creating, Steps, NoJob
    <2>2. ReachInv
      BY IssueAssumption DEF Init, ReachInv
    <2> QED
      BY <2>1, <2>2
  <1>2. Base /\ ReachInv /\ [Next]_vars => Base' /\ ReachInv'
    BY BaseStep, ReachStep, IssueAssumption
  <1>3. ReachInv => StatusReachable
    BY DEF ReachInv, StatusReachable
  <1> QED
    BY <1>1, <1>2, <1>3, PTL DEF Spec
-----------------------------------------------------------------------------
(* Only a hook that finds room lets an issue claim a place in a column. *)
LEMMA ClaimsWork ==
  ASSUME IssueAssumption, Base, NEW r \in Requests, Work(r), NEW s \in Statuses,
         WipLimit[s] # 0
  PROVE  \/ Claims(s)' \subseteq Claims(s)
         \/ /\ ~WipReached(s)
            /\ Claims(s)' \subseteq In(s) \cup {job[q].issue : q \in Requests}
  <1>0. /\ \A q \in Requests \ {r} : pc'[q] = pc[q] /\ job'[q] = job[q] /\ local'[q] = local[q]
        /\ \A i \in Issues \ {job[r].issue} : rows'[i] = rows[i] /\ origin'[i] = origin[i]
        /\ pc'[r] # "idle" => job'[r] = job[r]
        /\ ~Insert(r) => origin' = origin
        /\ PlaceInv /\ CreateInv /\ job[r].issue \in Issues
    BY WorkMoves DEF Base, PlaceInv
  <1>1. CASE Insert(r)
    <2>1. /\ pc[r] = "insert" /\ pc'[r] \in {"idle", "publish"}
          /\ \/ rows' = rows /\ origin' = origin
             \/ /\ rows'[job[r].issue].status = job[r].to
                /\ origin'[job[r].issue] = job[r].to
      BY <1>1, RowInsert
    <2>2. \A q \in Requests \ {r} : pc[q] # "idle" => job[q].issue # job[r].issue
      BY <1>0, <2>1 DEF CreateInv, Creating
    <2>3. ASSUME NEW i \in Claims(s)'
          PROVE  i \in Claims(s)
      <3>1. CASE i = job[r].issue
        BY <1>0, <2>1, <2>2, <2>3, <3>1 DEF Claims, In, Entering
      <3>2. CASE i # job[r].issue
        BY <1>0, <2>1, <2>3, <3>2 DEF Claims, In, Entering
      <3> QED
        BY <3>1, <3>2
    <2> QED
      BY <2>3
  <1>2. CASE ~Insert(r)
    <2>1. StatusWritten(r) /\ StatusRead(r)
      BY <1>2, StatusWork
    <2>2. CASE pc[r] = "hooks" /\ pc'[r] = "write" /\ job[r].to = s
      <3>1. ~WipReached(s) /\ rows' = rows
        BY <2>1, <2>2 DEF StatusRead
      <3>2. ASSUME NEW i \in Claims(s)'
            PROVE  i \in In(s) \cup {job[q].issue : q \in Requests}
        BY <1>0, <2>2, <3>1, <3>2 DEF Claims, In, Entering
      <3> QED
        BY <3>1, <3>2
    <2>3. CASE ~(pc[r] = "hooks" /\ pc'[r] = "write" /\ job[r].to = s)
      <3> SUFFICES ASSUME NEW i \in Claims(s)' PROVE i \in Claims(s)
        OBVIOUS
      <3>1. i \in Issues /\ origin[i] # s /\ origin' = origin
        BY <1>0, <1>2 DEF Claims
      <3>2. CASE i # job[r].issue
        BY <1>0, <3>1, <3>2 DEF Claims, In, Entering
      <3>3. CASE i = job[r].issue
        <4>1. rows'[i].status = s /\ rows'[i].state = "live" => i \in Claims(s)
          BY <2>1, <3>1, <3>3 DEF StatusWritten, Claims, In, Entering
        <4>2. ASSUME NEW q \in Requests \ {r}, Entering(q, i, s)'
              PROVE  i \in Claims(s)
          <5>1. CASE Entering(q, i, s)
            BY <3>1, <5>1 DEF Claims
          <5>2. CASE ~Entering(q, i, s)
            <6>1. rows'[i].status = s /\ rows[i].status # s
              BY <1>0, <4>2, <5>2 DEF Entering
            <6> QED
              BY <2>1, <3>1, <3>3, <6>1 DEF StatusWritten, Claims, Entering
          <5> QED
            BY <5>1, <5>2
        <4>3. ASSUME Entering(r, i, s)'
              PROVE  i \in Claims(s)
          <5>1. /\ job'[r] = job[r] /\ pc'[r] \in {"select", "write"}
                /\ job[r].op \in {"update", "transition"}
            BY <1>0, <4>3 DEF Entering
          <5>2. CASE pc[r] = "find" /\ pc'[r] = "select"
            BY <2>1, <3>1, <3>3, <4>3, <5>1, <5>2, PlaceWork
            DEF StatusRead, Claims, In, Entering, PlaceInv
          <5>3. CASE pc[r] = "select" /\ pc'[r] = "write"
            BY <1>0, <2>1, <3>1, <3>3, <4>3, <5>1, <5>3
            DEF StatusRead, Claims, Entering, PlaceInv
          <5>4. CASE pc[r] = "hooks" /\ pc'[r] = "write"
            BY <1>0, <2>3, <4>3, <5>1, <5>4 DEF Entering, PlaceInv
          <5> QED
            BY <2>1, <5>1, <5>2, <5>3, <5>4 DEF StatusRead
        <4> QED
          BY <4>1, <4>2, <4>3 DEF Claims, In
      <3> QED
        BY <3>2, <3>3
    <2> QED
      BY <2>2, <2>3
  <1> QED
    BY <1>1, <1>2

(* However many requests hold a place, they are at most as many as there are. *)
LEMMA ClaimsBound ==
  ASSUME IssueAssumption, NEW s \in Statuses, WipLimit[s] # 0, ~WipReached(s),
         NEW C \in SUBSET (In(s) \cup {job[q].issue : q \in Requests})
  PROVE  Cardinality(C) <= WipLimit[s] + Cardinality(Requests) - 1
  <1> DEFINE J == {job[q].issue : q \in Requests}
             f == [q \in Requests |-> job[q].issue]
  <1>1. f \in Surjection(Requests, J)
    BY DEF Surjection
  <1>2. /\ IsFiniteSet(J) /\ Cardinality(J) <= Cardinality(Requests)
        /\ IsFiniteSet(Requests) /\ Cardinality(Requests) \in Nat
    <2> HIDE DEF J, f
    <2> QED
      BY <1>1, FS_Surjection, FS_CardinalityType DEF IssueAssumption
  <1>3. IsFiniteSet(In(s)) /\ In(s) \subseteq Issues
    <2>1. In(s) \in SUBSET Issues
      BY DEF In
    <2> QED
      BY <2>1, FS_Subset DEF IssueAssumption
  <1>4. Cardinality(In(s)) < WipLimit[s] /\ WipLimit[s] \in Nat
    BY <1>3, FS_CardinalityType DEF WipReached, IssueAssumption
  <1> HIDE DEF J, f
  <1>5. /\ IsFiniteSet(In(s) \cup J)
        /\ Cardinality(In(s) \cup J) <= Cardinality(In(s)) + Cardinality(J)
    <2>1. In(s) \cap J \in SUBSET J
      OBVIOUS
    <2>2. IsFiniteSet(In(s) \cap J)
      BY <1>2, <2>1, FS_Subset
    <2>3. /\ Cardinality(In(s) \cap J) \in Nat /\ Cardinality(In(s)) \in Nat
          /\ Cardinality(J) \in Nat
      BY <1>2, <1>3, <2>2, FS_CardinalityType
    <2>4. /\ IsFiniteSet(In(s) \cup J)
          /\ Cardinality(In(s) \cup J)
               = Cardinality(In(s)) + Cardinality(J) - Cardinality(In(s) \cap J)
      BY <1>2, <1>3, FS_Union
    <2> QED
      BY <2>3, <2>4
  <1>6. C \in SUBSET (In(s) \cup J)
    BY DEF J
  <1>7. /\ IsFiniteSet(C) /\ Cardinality(C) <= Cardinality(In(s) \cup J)
        /\ Cardinality(C) \in Nat /\ Cardinality(In(s) \cup J) \in Nat
        /\ Cardinality(In(s)) \in Nat /\ Cardinality(J) \in Nat
    BY <1>2, <1>3, <1>5, <1>6, FS_Subset, FS_CardinalityType
  <1> QED
    BY <1>2, <1>4, <1>5, <1>7

LEMMA WipStep ==
  ASSUME IssueAssumption, Base, WipBounded, [Next]_vars
  PROVE  WipBounded'
  <1> SUFFICES ASSUME NEW s \in Statuses, WipLimit[s] # 0
               PROVE  Cardinality(Claims(s)') <= WipLimit[s] + Cardinality(Requests) - 1
    BY DEF WipBounded
  <1>1. Cardinality(Claims(s)) <= WipLimit[s] + Cardinality(Requests) - 1
    BY DEF WipBounded
  <1>2. ASSUME Claims(s)' \subseteq Claims(s)
        PROVE  Cardinality(Claims(s)') <= WipLimit[s] + Cardinality(Requests) - 1
    <2>1. Claims(s) \in SUBSET Issues
      BY DEF Claims
    <2>2. IsFiniteSet(Claims(s)) /\ Claims(s)' \in SUBSET Claims(s)
      BY <1>2, <2>1, FS_Subset DEF IssueAssumption
    <2>3. /\ IsFiniteSet(Claims(s)') /\ Cardinality(Claims(s)') <= Cardinality(Claims(s))
      BY <2>2, FS_Subset
    <2>4. /\ Cardinality(Claims(s)') \in Nat /\ Cardinality(Claims(s)) \in Nat
          /\ Cardinality(Requests) \in Nat /\ WipLimit[s] \in Nat
      BY <2>2, <2>3, FS_CardinalityType DEF IssueAssumption
    <2> QED
      BY <1>1, <2>3, <2>4
  <1>3. ASSUME NEW r \in Requests, Work(r)
        PROVE  Cardinality(Claims(s)') <= WipLimit[s] + Cardinality(Requests) - 1
    BY <1>2, <1>3, ClaimsWork, ClaimsBound
  <1>4. ASSUME NEW r \in Requests, NEW i \in Issues, Arrive(r, i)
        PROVE  Claims(s)' \subseteq Claims(s)
    BY <1>4, ArriveMoves DEF Base, Arrived, Claims, In, Entering
  <1>5. ASSUME NEW i \in Issues, NEW t \in Sprints \cup {None}, CarryOver(i, t)
        PROVE  Claims(s)' \subseteq Claims(s)
    <2>1. /\ \A j \in Issues : rows'[j].state = rows[j].state /\ rows'[j].status = rows[j].status
          /\ UNCHANGED <<pc, job, local, origin>>
      BY <1>5, CarryMoves DEF Base
    <2> QED
      BY <2>1 DEF Claims, In, Entering
  <1>6. CASE UNCHANGED vars
    <2>1. Claims(s)' \subseteq Claims(s)
      BY <1>6 DEF vars, Claims, In, Entering
    <2> QED
      BY <1>2, <2>1
  <1> QED
    BY <1>2, <1>3, <1>4, <1>5, <1>6 DEF Next

(* A column exceeds its limit by no more than the other requests under way, *)
(* the counts they act on being as old as they may be.                      *)
THEOREM WipLimited == Spec => []WipBounded
  <1>1. Init => Base /\ WipBounded
    <2> SUFFICES ASSUME Init PROVE Base /\ WipBounded
      OBVIOUS
    <2>1. Base
      BY Subtypes, IssueAssumption
      DEF Init, Base, TypeOK, PlaceInv, CreateInv, Creating, Steps, NoJob
    <2>2. \A s \in Statuses : Claims(s) = {}
      BY DEF Init, Claims, In, Entering, NoRow, NoJob
    <2>3. Cardinality({}) = 0 /\ Cardinality(Requests) \in Nat
      BY IssueAssumption, FS_EmptySet, FS_CardinalityType DEF IssueAssumption
    <2>4. \A s \in Statuses : WipLimit[s] \in Nat
      BY IssueAssumption DEF IssueAssumption
    <2> QED
      BY <2>1, <2>2, <2>3, <2>4 DEF WipBounded
  <1>2. Base /\ WipBounded /\ [Next]_vars => Base' /\ WipBounded'
    BY BaseStep, WipStep, IssueAssumption
  <1> QED
    BY <1>1, <1>2, PTL DEF Spec

-----------------------------------------------------------------------------
(* Issues whose requests do not overlap. *)

Busy(r) == pc[r] # "idle"

(* Its event is still to come, and tells the status. *)
Telling(r) ==
  \/ pc[r] = "auto"
  \/ pc[r] = "publish" /\ job[r].op \in {"create", "transition"}

Updating(r) == job[r].op = "update" /\ pc[r] \in {"select", "write"}
Moving(r) == job[r].op = "transition" /\ pc[r] \in {"hooks", "write"}

(* What a request has read or written of its issue is how the row still stands. *)
Accurate(r) ==
  /\ Updating(r) \/ Moving(r) \/ Telling(r) => Mine(r).state = "live"
  /\ job[r].op = "delete" /\ pc[r] = "write" => Mine(r).state = "live"
  /\ Updating(r) =>
       local[r].row = [Laid(Mine(r), job[r].body) EXCEPT !.version = job[r].version]
  /\ Updating(r) /\ pc[r] = "write" =>
       local[r].cols = {c \in Columns : Mine(r)[c] # local[r].row[c]}
  /\ Moving(r) => local[r].row = Mine(r) /\ Move(r) \in Allowed
  /\ Moving(r) /\ pc[r] = "write" => ~PointsMissing(r)
  /\ Telling(r) => Mine(r).status = job[r].to

SoleInv ==
  \A q, r \in Requests :
    Busy(q) /\ Busy(r) /\ job[q].issue = job[r].issue /\ job[r].issue \notin overlapped => q = r

AccurateInv ==
  \A r \in Requests : Busy(r) /\ job[r].issue \notin overlapped => Accurate(r)

KnownInv ==
  \A i \in Issues \ overlapped :
    rows[i].state = "live" /\ (\A r \in Requests : Telling(r) => job[r].issue # i) =>
      announced[i] = rows[i].status

LInv == Base /\ SoleInv /\ AccurateInv /\ KnownInv

-----------------------------------------------------------------------------
(* A save writes the body's fields, and nothing that it did not read as it is. *)
LEMMA SaveWrites ==
  ASSUME Base, NEW r \in Requests, pc[r] = "write", job[r].op = "update", Accurate(r)
  PROVE  /\ Saved(r).state = Mine(r).state /\ Saved(r).status = Mine(r).status
         /\ Saved(r).sprint = Laid(Mine(r), job[r].body).sprint
  <1>1. Mine(r) \in Row /\ job[r].body \in Body
    BY DEF Base, TypeOK, PlaceInv, Mine, Job
  <1> DEFINE laid == Laid(Mine(r), job[r].body)
  <1>2. laid \in Row /\ laid.state = Mine(r).state /\ laid.status = Mine(r).status
    BY <1>1, LaidType
  <1>3. /\ local[r].row = [laid EXCEPT !.version = job[r].version]
        /\ local[r].cols = {c \in Columns : Mine(r)[c] # local[r].row[c]}
    BY DEF Accurate, Updating
  <1> HIDE DEF laid
  <1>4. /\ local[r].row.state = laid.state /\ local[r].row.status = laid.status
        /\ local[r].row.sprint = laid.sprint
    BY <1>2, <1>3 DEF Row
  <1>5. /\ "state" \in local[r].cols <=> Mine(r).state # local[r].row.state
        /\ "status" \in local[r].cols <=> Mine(r).status # local[r].row.status
        /\ "sprint" \in local[r].cols <=> Mine(r).sprint # local[r].row.sprint
    BY <1>3 DEF Columns
  <1>6. /\ Saved(r).state = local[r].row.state /\ Saved(r).status = local[r].row.status
        /\ Saved(r).sprint = local[r].row.sprint
    BY <1>5 DEF Saved
  <1> QED
    BY <1>2, <1>4, <1>6 DEF laid

(* Each step of a request on an issue of its own. *)
LEMMA AccurateWork ==
  ASSUME IssueAssumption, Base, NEW r \in Requests, Work(r), Accurate(r), Busy(r)'
  PROVE  Accurate(r)'
  <1>0. /\ rows \in [Issues -> Row] /\ local \in [Requests -> Local]
        /\ pc \in [Requests -> Steps] /\ job \in [Requests -> Job]
        /\ PlaceInv /\ job[r].issue \in Issues /\ Mine(r) \in Row
        /\ Mine(r) = rows[job[r].issue] /\ local[r] \in Local
        /\ job'[r] = job[r]
    BY WorkMoves DEF Base, TypeOK, PlaceInv, Mine, Busy
  <1>a. Reply(r) => ~Busy(r)'
    BY <1>0 DEF Reply, Goto, Busy
  <1> USE DEF Accurate, Updating, Moving, Telling, Goto, table, history, Busy
  <1>1. CASE DrawKey(r) \/ CommitKey(r) \/ NotFound(r)
    BY <1>0, <1>a, <1>1 DEF DrawKey, CommitKey, NotFound, PlaceInv, Creating
  <1>2. CASE Insert(r)
    <2>1. /\ Mine(r)'.state = "live" /\ Mine(r)'.status = job[r].to /\ pc'[r] = "publish"
          /\ job[r].op = "create"
      BY <1>0, <1>2, RowInsert DEF Mine, PlaceInv, Creating
    <2> QED
      BY <1>0, <2>1
  <1>3. CASE FindForUpdate(r)
    <2>1. /\ local'[r].row = [Laid(Mine(r), job[r].body) EXCEPT !.version = job[r].version]
          /\ Mine(r)' = Mine(r) /\ pc'[r] = "select" /\ Mine(r).state = "live"
          /\ job[r].op = "update"
      BY <1>0, <1>3 DEF FindForUpdate, Mine, Local
    <2> QED
      BY <1>0, <2>1
  <1>4. CASE FindForTransition(r)
    <2>1. /\ local'[r].row = Mine(r) /\ Mine(r)' = Mine(r) /\ pc'[r] = "hooks"
          /\ Mine(r).state = "live" /\ <<Mine(r).status, job[r].to>> \in Allowed
          /\ job[r].op = "transition"
      BY <1>0, <1>a, <1>4 DEF FindForTransition, Mine, Local
    <2> QED
      BY <1>0, <2>1 DEF Move
  <1>5. CASE FindForDelete(r)
    BY <1>0, <1>5 DEF FindForDelete, Mine
  <1>6. CASE SaveSelect(r)
    <2>1. /\ local'[r].row = local[r].row /\ Mine(r)' = Mine(r)
          /\ local'[r].cols = {c \in Columns : Mine(r)[c] # local[r].row[c]}
          /\ pc[r] = "select" /\ pc'[r] = "write" /\ job[r].op = "update"
      BY <1>0, <1>6 DEF SaveSelect, Mine, Local, PlaceInv
    <2> QED
      BY <1>0, <2>1
  <1>7. CASE WriteUpdate(r)
    BY <1>0, <1>7 DEF WriteUpdate, Written
  <1>8. CASE Hooks(r)
    <2>1. /\ ~PointsMissing(r) /\ pc[r] = "hooks" /\ pc'[r] = "write" /\ job[r].op = "transition"
          /\ local'[r] = local[r] /\ Mine(r)' = Mine(r)
      BY <1>0, <1>a, <1>8 DEF Hooks, Mine, PlaceInv
    <2> QED
      BY <1>0, <2>1 DEF Move, PointsMissing
  <1>9. CASE WriteTransition(r)
    <2>1. /\ [Mine(r) EXCEPT !.status = job[r].to] \in Row
          /\ [Mine(r) EXCEPT !.status = job[r].to].state = Mine(r).state
          /\ [Mine(r) EXCEPT !.status = job[r].to].status = job[r].to
      BY <1>0, <1>9 DEF WriteTransition, Row, Job, PlaceInv
    <2>2. /\ Mine(r)' = Bumped([Mine(r) EXCEPT !.status = job[r].to])
          /\ Mine(r).state = "live" /\ pc'[r] \in {"auto", "publish"} /\ job[r].op = "transition"
      BY <1>0, <1>a, <1>9 DEF WriteTransition, Written, Mine
    <2>3. Mine(r)'.state = "live" /\ Mine(r)'.status = job[r].to
      BY <2>1, <2>2, BumpedType
    <2> QED
      BY <1>0, <2>2, <2>3
  <1>10. CASE AutoAction(r)
    <2>1. /\ [Mine(r) EXCEPT !.assignee = job[r].user] \in Row
          /\ [Mine(r) EXCEPT !.assignee = job[r].user].state = Mine(r).state
          /\ [Mine(r) EXCEPT !.assignee = job[r].user].status = Mine(r).status
      BY <1>0, <1>10 DEF AutoAction, Row, Job
    <2>2. /\ \/ Mine(r)' = Bumped([Mine(r) EXCEPT !.assignee = job[r].user])
             \/ Mine(r)' = Mine(r)
          /\ pc[r] = "auto" /\ pc'[r] = "publish" /\ job[r].op = "transition"
      BY <1>0, <1>10 DEF AutoAction, Mine, PlaceInv
    <2>3. Mine(r)'.state = Mine(r).state /\ Mine(r)'.status = Mine(r).status
      BY <2>1, <2>2, BumpedType
    <2> QED
      BY <1>0, <2>2, <2>3
  <1>11. CASE WriteDelete(r) \/ Publish(r) \/ Fail(r)
    BY <1>a, <1>11 DEF WriteDelete, Publish, Fail
  <1> QED
    BY <1>1, <1>2, <1>3, <1>4, <1>5, <1>6, <1>7, <1>8, <1>9, <1>10, <1>11 DEF Work

(* A request that nothing happens to, nor to the row of its issue. *)
LEMMA AccurateFrame ==
  ASSUME NEW q, pc'[q] = pc[q], job'[q] = job[q], local'[q] = local[q], Mine(q)' = Mine(q),
         Accurate(q)
  PROVE  Accurate(q)'
  BY DEF Accurate, Updating, Moving, Telling, Move, PointsMissing

(* Outside the row's version, Bumped changes nothing. *)
LEMMA BumpedFields ==
  ASSUME NEW row \in Row, NEW f \in Life!Fields
  PROVE  Bumped(row)[f] = row[f]
  BY DEF Bumped, Row, Life!Fields

(* What a request does to a row that is still as the request knows it. *)
Effect(r) ==
  LET i == job[r].issue IN
    \/ rows'[i] = rows[i]
    \/ Insert(r) /\ rows[i].state = "none" /\ rows'[i].state = "live"
    \/ /\ job[r].op = "update" /\ rows[i].state = "live"
       /\ rows'[i].state = rows[i].state /\ rows'[i].status = rows[i].status
       /\ "sprint" \notin job[r].body.names => rows'[i].sprint = rows[i].sprint
    \/ /\ Moving(r) /\ Telling(r)' /\ rows[i].state = "live" /\ Life!Only(i, {"status"})
       /\ rows'[i].status = job[r].to /\ <<rows[i].status, job[r].to>> \in Allowed
       /\ job[r].to \in Done /\ i \in Stories => rows[i].points
    \/ Telling(r) /\ Telling(r)' /\ rows[i].state = "live" /\ Life!Only(i, {"assignee"})
    \/ rows[i].state = "live" /\ rows'[i].state = "deleted" /\ Life!Only(i, {"state"})

LEMMA EffectWork ==
  ASSUME IssueAssumption, Base, NEW r \in Requests, Work(r), Accurate(r)
  PROVE  Effect(r)
  <1>0. /\ rows \in [Issues -> Row] /\ local \in [Requests -> Local]
        /\ pc \in [Requests -> Steps] /\ job \in [Requests -> Job]
        /\ PlaceInv /\ CreateInv /\ job[r].issue \in Issues /\ Mine(r) \in Row
        /\ Mine(r) = rows[job[r].issue] /\ job[r].body \in Body
    BY WorkMoves DEF Base, TypeOK, PlaceInv, Mine, Job
  <1>1. CASE rows' = rows
    BY <1>1 DEF Effect
  <1>2. CASE Insert(r)
    BY <1>0, <1>2, RowInsert DEF Effect, CreateInv, Creating
  <1>3. CASE WriteUpdate(r)
    <2>1. /\ rows'[job[r].issue] = Saved(r) /\ pc[r] = "write" /\ job[r].op = "update"
      BY <1>0, <1>3 DEF WriteUpdate
    <2>2. Mine(r).state = "live"
      BY <2>1 DEF Accurate, Updating
    <2>3. "sprint" \notin job[r].body.names => Laid(Mine(r), job[r].body).sprint = Mine(r).sprint
      BY <1>0 DEF Laid, Row
    <2> QED
      BY <1>0, <2>1, <2>2, <2>3, SaveWrites DEF Effect
  <1>4. CASE WriteTransition(r) /\ rows' # rows
    <2> DEFINE new == [Mine(r) EXCEPT !.status = job[r].to]
    <2>1. /\ Mine(r).state = "live" /\ rows'[job[r].issue] = Bumped(new)
          /\ pc[r] = "write" /\ job[r].op = "transition" /\ job'[r] = job[r]
          /\ pc'[r] \in {"auto", "publish"}
      BY <1>0, <1>4 DEF WriteTransition, Written, Goto
    <2>2. Moving(r) /\ Telling(r)'
      BY <2>1 DEF Moving, Telling
    <2>3. /\ new \in Row /\ new.status = job[r].to
          /\ \A f \in Life!Fields \ {"status"} : new[f] = Mine(r)[f]
      BY <1>0, <2>1 DEF PlaceInv, Row, Life!Fields
    <2> HIDE DEF new
    <2>4. \A f \in Life!Fields : Bumped(new)[f] = new[f]
      BY <2>3, BumpedFields
    <2>5. rows'[job[r].issue].status = job[r].to /\ Life!Only(job[r].issue, {"status"})
      BY <1>0, <2>1, <2>3, <2>4 DEF Life!Only, Life!Fields
    <2>6. local[r].row = Mine(r) /\ Move(r) \in Allowed /\ ~PointsMissing(r)
      BY <2>1, <2>2 DEF Accurate
    <2> QED
      BY <1>0, <2>1, <2>2, <2>5, <2>6 DEF Effect, Move, PointsMissing
  <1>5. CASE AutoAction(r) /\ rows' # rows
    <2> DEFINE new == [Mine(r) EXCEPT !.assignee = job[r].user]
    <2>1. /\ rows'[job[r].issue] = Bumped(new) /\ pc[r] = "auto" /\ job'[r] = job[r]
          /\ pc'[r] = "publish" /\ job[r].op = "transition"
      BY <1>0, <1>5 DEF AutoAction, Goto, PlaceInv
    <2>2. Telling(r) /\ Telling(r)' /\ Mine(r).state = "live"
      BY <2>1 DEF Telling, Accurate
    <2>3. new \in Row /\ \A f \in Life!Fields \ {"assignee"} : new[f] = Mine(r)[f]
      BY <1>0 DEF Row, Job, Life!Fields
    <2> HIDE DEF new
    <2>4. \A f \in Life!Fields : Bumped(new)[f] = new[f]
      BY <2>3, BumpedFields
    <2>5. Life!Only(job[r].issue, {"assignee"})
      BY <1>0, <2>1, <2>3, <2>4 DEF Life!Only
    <2> QED
      BY <1>0, <2>2, <2>5 DEF Effect
  <1>6. CASE WriteDelete(r)
    <2> DEFINE new == [Mine(r) EXCEPT !.state = "deleted"]
    <2>1. rows'[job[r].issue] = Bumped(new) /\ Mine(r).state = "live"
      BY <1>0, <1>6 DEF WriteDelete, Accurate
    <2>3. /\ new \in Row /\ new.state = "deleted"
          /\ \A f \in Life!Fields \ {"state"} : new[f] = Mine(r)[f]
      BY <1>0 DEF Row, Life!Fields
    <2> HIDE DEF new
    <2>4. \A f \in Life!Fields : Bumped(new)[f] = new[f]
      BY <2>3, BumpedFields
    <2>5. Life!Only(job[r].issue, {"state"}) /\ rows'[job[r].issue].state = "deleted"
      BY <1>0, <2>1, <2>3, <2>4 DEF Life!Only, Life!Fields
    <2> QED
      BY <1>0, <2>1, <2>5 DEF Effect
  <1> QED
    BY <1>1, <1>2, <1>3, <1>4, <1>5, <1>6 DEF Work, DrawKey, CommitKey, NotFound, FindForUpdate,
       FindForTransition, FindForDelete, SaveSelect, Hooks, Publish, Fail, table

-----------------------------------------------------------------------------
(* An arrival marks the issue if somebody is at work on it. *)
LEMMA ArriveOverlaps ==
  ASSUME NEW r \in Requests, NEW i \in Issues, Arrive(r, i)
  PROVE  overlapped' = overlapped \cup {k \in Issues : k = i /\ AtWorkOn(i) # {}}
  <1>1. ASSUME NEW j, NEW step, j.issue = i, Ask(r, j, step)
        PROVE  overlapped' = overlapped \cup {k \in Issues : k = i /\ AtWorkOn(i) # {}}
    BY <1>1 DEF Ask
  <1>2. CASE \E s \in CreatedIn, b \in Bodies : Post(r, i, s, b)
    BY <1>1, <1>2 DEF Post, NoJob
  <1>3. CASE \E b \in Bodies, v \in 1..rows[i].version : Patch(r, i, b, v)
    BY <1>1, <1>3 DEF Patch, NoJob
  <1>4. CASE \E s \in Statuses, u \in Users : Transition(r, i, s, u)
    BY <1>1, <1>4 DEF Transition, NoJob
  <1>5. CASE Delete(r, i)
    BY <1>1, <1>5 DEF Delete, NoJob
  <1> QED
    BY <1>2, <1>3, <1>4, <1>5 DEF Arrive

LEMMA WorkOverlaps ==
  ASSUME NEW r \in Requests, Work(r)
  PROVE  overlapped' = overlapped
  BY DEF Work, DrawKey, CommitKey, Insert, NotFound, FindForUpdate, FindForTransition,
     FindForDelete, SaveSelect, WriteUpdate, Hooks, WriteTransition, AutoAction, WriteDelete,
     Publish, Fail, history

LEMMA SoleStep ==
  ASSUME IssueAssumption, Base, SoleInv, [Next]_vars
  PROVE  SoleInv'
  <1>0. overlapped \subseteq Issues /\ \A r \in Requests : Busy(r) => job[r].issue \in Issues
    BY DEF Base, TypeOK, PlaceInv, Busy
  <1> USE DEF SoleInv, Busy
  <1>1. ASSUME NEW r \in Requests, NEW i \in Issues, Arrive(r, i)
        PROVE  SoleInv'
    <2>1. /\ job'[r].issue = i /\ \A q \in Requests \ {r} : pc'[q] = pc[q] /\ job'[q] = job[q]
          /\ pc[r] = "idle"
      BY <1>1, ArriveMoves DEF Base, Arrived
    <2>2. overlapped \subseteq overlapped' /\ (i \notin overlapped' => AtWorkOn(i) = {})
      BY <1>1, ArriveOverlaps
    <2> QED
      BY <2>1, <2>2 DEF AtWorkOn
  <1>2. ASSUME NEW r \in Requests, Work(r)
        PROVE  SoleInv'
    BY <1>2, WorkMoves, WorkOverlaps
  <1>3. ASSUME NEW i \in Issues, NEW s \in Sprints \cup {None}, CarryOver(i, s)
        PROVE  SoleInv'
    BY <1>3 DEF CarryOver
  <1>4. CASE UNCHANGED vars
    BY <1>4 DEF vars
  <1> QED
    BY <1>1, <1>2, <1>3, <1>4 DEF Next

LEMMA AccurateStep ==
  ASSUME IssueAssumption, Base, SoleInv, AccurateInv, [Next]_vars
  PROVE  AccurateInv'
  <1>0. overlapped \subseteq Issues /\ \A r \in Requests : Busy(r) => job[r].issue \in Issues
    BY DEF Base, TypeOK, PlaceInv, Busy
  <1>1. ASSUME NEW r \in Requests, NEW i \in Issues, Arrive(r, i)
        PROVE  AccurateInv'
    <2>1. /\ \A q \in Requests \ {r} : pc'[q] = pc[q] /\ job'[q] = job[q]
          /\ rows' = rows /\ local' = local /\ pc'[r] \in {"key", "find"}
          /\ overlapped \subseteq overlapped'
      BY <1>1, ArriveMoves, ArriveOverlaps DEF Base, Arrived
    <2>2. Accurate(r)'
      BY <2>1 DEF Accurate, Updating, Moving, Telling
    <2>3. ASSUME NEW q \in Requests \ {r}, Accurate(q)
          PROVE  Accurate(q)'
      BY <2>1, <2>3, AccurateFrame DEF Mine
    <2> QED
      BY <2>1, <2>2, <2>3 DEF AccurateInv, Busy
  <1>2. ASSUME NEW r \in Requests, Work(r)
        PROVE  AccurateInv'
    <2>1. /\ \A q \in Requests \ {r} : pc'[q] = pc[q] /\ job'[q] = job[q] /\ local'[q] = local[q]
          /\ \A k \in Issues \ {job[r].issue} : rows'[k] = rows[k]
          /\ overlapped' = overlapped /\ Busy(r) /\ (Busy(r)' => job'[r] = job[r])
      BY <1>2, WorkMoves, WorkOverlaps DEF Busy
    <2>2. ASSUME Busy(r)', job'[r].issue \notin overlapped'
          PROVE  Accurate(r)'
      BY <1>2, <2>1, <2>2, AccurateWork DEF AccurateInv
    <2>3. ASSUME NEW q \in Requests \ {r}, Busy(q)', job'[q].issue \notin overlapped'
          PROVE  Accurate(q)'
      <3>1. job[q].issue # job[r].issue /\ Accurate(q) /\ job[q].issue \in Issues
        BY <1>0, <2>1, <2>3 DEF SoleInv, AccurateInv, Busy
      <3> QED
        BY <2>1, <3>1, AccurateFrame DEF Mine
    <2> QED
      BY <2>2, <2>3 DEF AccurateInv
  <1>3. ASSUME NEW i \in Issues, NEW s \in Sprints \cup {None}, CarryOver(i, s)
        PROVE  AccurateInv'
    <2>1. /\ UNCHANGED <<pc, job, local>> /\ \A k \in Issues \ {i} : rows'[k] = rows[k]
          /\ overlapped' = overlapped \cup {j \in {i} : AtWorkOn(i) # {}}
      BY <1>3 DEF CarryOver, Base, TypeOK
    <2>2. ASSUME NEW q \in Requests, Busy(q), job[q].issue \notin overlapped'
          PROVE  Accurate(q)'
      <3>1. job[q].issue # i /\ Accurate(q) /\ job[q].issue \in Issues
        BY <1>0, <2>1, <2>2 DEF AccurateInv, AtWorkOn, Busy
      <3> QED
        BY <2>1, <3>1, AccurateFrame DEF Mine
    <2> QED
      BY <2>1, <2>2 DEF AccurateInv, Busy
  <1>4. CASE UNCHANGED vars
    BY <1>4, AccurateFrame DEF vars, AccurateInv, Busy, Mine
  <1> QED
    BY <1>1, <1>2, <1>3, <1>4 DEF Next

LEMMA KnownWork ==
  ASSUME IssueAssumption, LInv, NEW r \in Requests, Work(r)
  PROVE  KnownInv'
  <1>0. /\ \A q \in Requests \ {r} : pc'[q] = pc[q] /\ job'[q] = job[q]
        /\ \A k \in Issues \ {job[r].issue} : rows'[k] = rows[k]
        /\ overlapped' = overlapped /\ Busy(r) /\ (Busy(r)' => job'[r] = job[r])
        /\ job[r].issue \in Issues /\ announced \in [Issues -> Statuses \cup {None}]
        /\ pc \in [Requests -> Steps]
    BY WorkMoves, WorkOverlaps DEF LInv, Base, TypeOK, PlaceInv, Busy
  <1>1. /\ \A k \in Issues \ {job[r].issue} : announced'[k] = announced[k]
        /\ ~Publish(r) => announced' = announced
    BY <1>0 DEF Work, DrawKey, CommitKey, Insert, NotFound, FindForUpdate, FindForTransition,
       FindForDelete, SaveSelect, WriteUpdate, Hooks, WriteTransition, AutoAction, WriteDelete,
       Publish, Fail
  <1>2. ASSUME NEW i \in Issues \ overlapped, i # job[r].issue, rows'[i].state = "live",
               \A q \in Requests : Telling(q)' => job'[q].issue # i
        PROVE  announced'[i] = rows'[i].status
    <2>1. \A q \in Requests \ {r} : Telling(q)' <=> Telling(q)
      BY <1>0 DEF Telling
    <2>2. \A q \in Requests : Telling(q) => job[q].issue # i
      BY <1>0, <1>2, <2>1
    <2> QED
      BY <1>0, <1>1, <1>2, <2>2 DEF LInv, KnownInv
  <1>3. ASSUME job[r].issue \notin overlapped, rows'[job[r].issue].state = "live",
               \A q \in Requests : Telling(q)' => job'[q].issue # job[r].issue
        PROVE  announced'[job[r].issue] = rows'[job[r].issue].status
    <2>1. Accurate(r) /\ \A q \in Requests \ {r} : Telling(q) => job[q].issue # job[r].issue
      BY <1>0, <1>3 DEF LInv, AccurateInv, SoleInv, Busy, Telling
    <2>2. ~Telling(r)'
      BY <1>0, <1>3 DEF Telling, Busy
    <2>3. CASE Publish(r)
      <3>1. /\ rows' = rows /\ (~Telling(r) => announced' = announced)
            /\ Telling(r) => announced'[job[r].issue] = job[r].to
        BY <1>0, <2>3 DEF Publish, Telling, table
      <3>2. CASE Telling(r)
        BY <2>1, <3>1, <3>2 DEF Accurate, Mine
      <3>3. CASE ~Telling(r)
        BY <1>0, <1>3, <2>1, <3>1, <3>3 DEF LInv, KnownInv
      <3> QED
        BY <3>2, <3>3
    <2>4. CASE ~Publish(r)
      <3>1. ~Telling(r)
        <4>1. CASE AutoAction(r)
          BY <1>0, <2>2, <4>1 DEF AutoAction, Telling, Goto, LInv, Base, PlaceInv
        <4>2. CASE ~AutoAction(r)
          BY <2>4, <4>2 DEF Work, Telling, DrawKey, CommitKey, Insert, NotFound, FindForUpdate,
             FindForTransition, FindForDelete, SaveSelect, WriteUpdate, Hooks, WriteTransition,
             WriteDelete, Fail
        <4> QED
          BY <4>1, <4>2
      <3>2. /\ rows'[job[r].issue].status = rows[job[r].issue].status
            /\ rows[job[r].issue].state = "live"
        <4>1. Effect(r)
          BY <2>1, EffectWork DEF LInv
        <4>2. CASE Insert(r)
          <5>1. rows' = rows
            <6>1. CASE pc'[r] = "publish"
              BY <1>0, <2>2, <4>2, <6>1 DEF Telling, Busy, Insert, LInv, Base, PlaceInv, Creating
            <6> QED
              BY <4>2, <6>1, RowInsert DEF LInv
          <5> QED
            BY <1>3, <5>1
        <4> QED
          BY <1>3, <2>2, <3>1, <4>1, <4>2 DEF Effect
      <3> QED
        BY <1>0, <1>1, <1>3, <2>1, <2>4, <3>1, <3>2 DEF LInv, KnownInv
    <2> QED
      BY <2>3, <2>4
  <1> QED
    BY <1>0, <1>2, <1>3 DEF KnownInv

LEMMA LStep ==
  ASSUME IssueAssumption, LInv, [Next]_vars
  PROVE  LInv'
  <1>0. Base' /\ SoleInv' /\ AccurateInv'
    BY BaseStep, SoleStep, AccurateStep DEF LInv
  <1>1. ASSUME NEW r \in Requests, NEW i \in Issues, Arrive(r, i)
        PROVE  KnownInv'
    <2>1. /\ \A q \in Requests \ {r} : pc'[q] = pc[q] /\ job'[q] = job[q]
          /\ UNCHANGED <<rows, announced>> /\ pc[r] = "idle"
          /\ overlapped \subseteq overlapped'
      BY <1>1, ArriveMoves, ArriveOverlaps DEF LInv, Base, Arrived
    <2>2. \A q \in Requests : Telling(q) => Telling(q)' /\ job'[q] = job[q]
      BY <2>1 DEF Telling
    <2> QED
      BY <2>1, <2>2 DEF LInv, KnownInv
  <1>2. ASSUME NEW r \in Requests, Work(r)
        PROVE  KnownInv'
    BY <1>2, KnownWork
  <1>3. ASSUME NEW i \in Issues, NEW s \in Sprints \cup {None}, CarryOver(i, s)
        PROVE  KnownInv'
    <2>1. /\ \A j \in Issues : rows'[j].state = rows[j].state /\ rows'[j].status = rows[j].status
          /\ UNCHANGED <<pc, job, announced>>
      BY <1>3, CarryMoves DEF LInv, Base
    <2>2. overlapped \subseteq overlapped'
      BY <1>3 DEF CarryOver
    <2> QED
      BY <2>1, <2>2 DEF LInv, KnownInv, Telling
  <1>4. CASE UNCHANGED vars
    BY <1>0, <1>4 DEF vars, LInv, KnownInv, Telling
  <1> QED
    BY <1>0, <1>1, <1>2, <1>3, <1>4 DEF Next, LInv

LEMMA LInit ==
  ASSUME IssueAssumption, Init
  PROVE  LInv
  <1>1. Base
    BY Subtypes DEF Init, Base, TypeOK, PlaceInv, CreateInv, Creating, Steps, NoJob
  <1>2. SoleInv /\ AccurateInv
    BY DEF Init, SoleInv, AccurateInv, Busy
  <1>3. KnownInv
    BY DEF Init, KnownInv, NoRow
  <1> QED
    BY <1>1, <1>2, <1>3 DEF LInv

-----------------------------------------------------------------------------
(* What happens to an issue that is not worked on by two. *)
LEMMA LifeStep ==
  ASSUME IssueAssumption, LInv, [Next]_vars, NEW i \in Issues \ overlapped'
  PROVE  /\ Life!IssueStep(i)
         /\ rows[i].state # "none" /\ rows'[i].sprint # rows[i].sprint =>
              \/ \E r \in AtWorkOn(i) : job[r].op = "update" /\ "sprint" \in job[r].body.names
              \/ rows[i].status \notin Done /\ AtWorkOn(i) = {}
  <1> USE DEF Life!Only, Life!Fields
  <1>1. ASSUME rows'[i] = rows[i]
        PROVE  Life!IssueStep(i)
    BY <1>1 DEF Life!IssueStep
  <1>2. ASSUME NEW r \in Requests, NEW k \in Issues, Arrive(r, k)
        PROVE  rows' = rows
    BY <1>2, ArriveMoves DEF LInv, Base, Arrived
  <1>3. ASSUME NEW r \in Requests, Work(r), rows'[i] # rows[i]
        PROVE  /\ Life!IssueStep(i)
               /\ rows[i].state # "none" /\ rows'[i].sprint # rows[i].sprint =>
                    /\ r \in AtWorkOn(i) /\ job[r].op = "update"
                    /\ "sprint" \in job[r].body.names
    <2>1. job[r].issue = i /\ Busy(r) /\ overlapped' = overlapped
      BY <1>3, WorkMoves, WorkOverlaps DEF LInv, Busy
    <2>2. Effect(r)
      BY <1>3, <2>1, EffectWork DEF LInv, AccurateInv
    <2>3. rows[i].state # "none" /\ rows'[i].sprint # rows[i].sprint =>
            job[r].op = "update" /\ "sprint" \in job[r].body.names
      BY <1>3, <2>1, <2>2 DEF Effect
    <2>4. Life!IssueStep(i)
      BY <1>3, <2>1, <2>2
      DEF Effect, Life!IssueStep, Life!Create, Life!Edit, Life!Move, Life!Delete, Life!Live
    <2> QED
      BY <2>1, <2>3, <2>4 DEF AtWorkOn, Busy
  <1>4. ASSUME NEW k \in Issues, NEW s \in Sprints \cup {None}, CarryOver(k, s),
               rows'[i] # rows[i]
        PROVE  /\ Life!IssueStep(i) /\ rows[i].status \notin Done /\ AtWorkOn(i) = {}
    <2> DEFINE new == [rows[i] EXCEPT !.sprint = s]
    <2>1. /\ k = i /\ rows[i].state = "live" /\ rows[i].status \notin Done
          /\ rows'[i] = Bumped(new) /\ AtWorkOn(i) = {} /\ rows[i] \in Row
      BY <1>4 DEF CarryOver, LInv, Base, TypeOK
    <2>2. new \in Row /\ \A f \in Life!Fields \ {"sprint"} : new[f] = rows[i][f]
      BY <2>1 DEF Row
    <2> HIDE DEF new
    <2>3. \A f \in Life!Fields : Bumped(new)[f] = new[f]
      BY <2>2, BumpedFields
    <2>4. \A f \in Life!Fields \ {"sprint"} : rows'[i][f] = rows[i][f]
      BY <2>1, <2>2, <2>3
    <2> QED
      BY <2>1, <2>4 DEF Life!IssueStep, Life!Edit, Life!Live
  <1> QED
    BY <1>1, <1>2, <1>3, <1>4 DEF Next, vars

(* The issue endpoints implement IssueLife for every issue that no two requests, *)
(* or a request and a completing sprint, were at work on at once.               *)
THEOREM ImplementsLife == Spec => FollowsLife
  <1>1. Init => LInv
    BY LInit, IssueAssumption
  <1>2. LInv /\ [Next]_vars => LInv'
    BY LStep, IssueAssumption
  <1>3. LInv /\ [Next]_vars => [\A i \in Issues \ overlapped' : Life!IssueStep(i)]_vars
    BY LifeStep, IssueAssumption
  <1> QED
    BY <1>1, <1>2, <1>3, PTL DEF Spec, FollowsLife

(* Such an issue changes sprint only by a PATCH that names the sprint, or, while *)
(* it is not done, as SprintService completes its sprint.                        *)
THEOREM SprintKept == Spec => SprintAsAsked
  <1>1. Init => LInv
    BY LInit, IssueAssumption
  <1>2. LInv /\ [Next]_vars => LInv'
    BY LStep, IssueAssumption
  <1>3. LInv /\ [Next]_vars =>
          [\A i \in Issues \ overlapped' :
             rows[i].state # "none" /\ rows'[i].sprint # rows[i].sprint =>
               \/ \E r \in AtWorkOn(i) : job[r].op = "update" /\ "sprint" \in job[r].body.names
               \/ rows[i].status \notin Done /\ AtWorkOn(i) = {}]_vars
    BY LifeStep, IssueAssumption
  <1> QED
    BY <1>1, <1>2, <1>3, PTL DEF Spec, SprintAsAsked

(* Subscribers know the status of every such issue nobody is at work on, whatever *)
(* queries, automatic actions and hooks failed on the way.                        *)
THEOREM StatusAnnounced == Spec => []SubscribersAgree
  <1>1. Init => LInv
    BY LInit, IssueAssumption
  <1>2. LInv /\ [Next]_vars => LInv'
    BY LStep, IssueAssumption
  <1>3. LInv => SubscribersAgree
    <2> SUFFICES ASSUME LInv, NEW i \in Issues \ overlapped, rows[i].state = "live",
                        AtWorkOn(i) = {}
                 PROVE  announced[i] = rows[i].status
      BY DEF SubscribersAgree
    <2>1. \A r \in Requests : Telling(r) => job[r].issue # i
      BY DEF Telling, AtWorkOn
    <2> QED
      BY <2>1 DEF LInv, KnownInv
  <1> QED
    BY <1>1, <1>2, <1>3, PTL DEF Spec
=============================================================================
