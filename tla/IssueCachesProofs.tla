-------------------------- MODULE IssueCachesProofs --------------------------
(***************************************************************************)
(* Proofs about IssueCaches for every number of requests, issues and       *)
(* sprints: cached issues and boards are current, but for the entries      *)
(* history excuses and those whose invalidation is under way (IInv); the   *)
(* database's pages fit together (WalkInv); and the types (TtlInv).        *)
(***************************************************************************)
EXTENDS IssueCaches, OrderLemmas

Shape ==
  /\ rows \in [Issues -> Row]
  /\ board \in [Keys -> Board \cup {NoBoard}]
  /\ entity \in [Issues -> Row]
  /\ index \in [Keys -> SUBSET Issues]
  /\ pc \in [Requests -> Steps]
  /\ job \in [Requests -> Job]
  /\ local \in [Requests -> Local]

Invalidating == {"scan", "drop", "maintain", "sweep"}

(* Only an invalidation has boards to scan and to delete, none of them while it *)
(* waits for SCAN; a reader of an issue or a board has been asked for it.       *)
Kept(r) ==
  /\ pc[r] \notin Invalidating => local[r].left = {}
  /\ pc[r] \notin Invalidating \ {"scan"} => local[r].found = {}
  /\ pc[r] \in {"query", "warm", "fill"} => job[r].key \in Asked
  /\ pc[r] \in Invalidating \cup {"find", "keep"} => job[r].issue \in Issues
  /\ pc[r] = "keep" => local[r].page \in Board /\ rows[job[r].issue].state # "none"

StepInv == \A r \in Requests : Kept(r)

(* Nothing is cached that nobody asked for, or before it is created. *)
CachedInv ==
  /\ \A k \in Keys : board[k] # NoBoard => k \in Asked
  /\ \A i \in Issues : rows[i].state = "none" => entity[i] = NoRow

Base == Shape /\ StepInv /\ CachedInv

IInv == Base /\ EntitiesCurrent /\ BoardsCurrent

LEMMA Subtypes ==
  /\ Fresh \in Local /\ NoRow \in Row /\ NoJob \in Job /\ Places \subseteq Keys
  /\ \A i \in Issues : [[j \in Issues |-> NoRow] EXCEPT ![i] = NoRow] \in Board
  BY DEF Fresh, Local, NoRow, Row, NoJob, Job, NoBoard, Board, Keys, Places

LEMMA BoardType ==
  ASSUME Shape, NEW k
  PROVE  OnBoard(k) \in Board
  BY Subtypes DEF Shape, OnBoard, InSprint, Board

LEMMA InitInv ==
  ASSUME CachesAssumption, Init
  PROVE  IInv
  <1>1. [NoRow EXCEPT !.state = "live", !.sprint = Home] \in Row
    BY DEF CachesAssumption, NoRow, Row, Places
  <1>2. Shape
    BY <1>1, Subtypes DEF Init, Shape, Steps
  <1>3. StepInv /\ CachedInv
    BY DEF Init, StepInv, Kept, CachedInv, Fresh, Invalidating
  <1>4. EntitiesCurrent /\ BoardsCurrent
    BY DEF Init, EntitiesCurrent, BoardsCurrent
  <1> QED
    BY <1>2, <1>3, <1>4 DEF IInv, Base

(* What a request's step on its own state does to the types. *)
LEMMA LocalType ==
  ASSUME Shape, NEW r \in Requests, NEW l \in Local, NEW j \in Job, NEW step \in Steps
  PROVE  /\ [local EXCEPT ![r] = l] \in [Requests -> Local]
         /\ [job EXCEPT ![r] = j] \in [Requests -> Job]
         /\ [pc EXCEPT ![r] = step] \in [Requests -> Steps]
  BY DEF Shape

LEMMA TypeReply ==
  ASSUME Shape, NEW r \in Requests, Reply(r)
  PROVE  /\ pc' \in [Requests -> Steps] /\ job' \in [Requests -> Job]
         /\ local' \in [Requests -> Local]
  BY Subtypes, LocalType DEF Reply, Goto, Steps, Shape

LEMMA TypeWrite ==
  ASSUME CachesAssumption, Shape, NEW r \in Requests, NEW i \in Issues, NEW row \in Row,
         NEW op \in {"create", "update", "delete"}, NEW named \in BOOLEAN,
         Write(r, op, i, row, named)
  PROVE  Shape'
  <1>1. [row EXCEPT !.rev = rows[i].rev + 1] \in Row
    BY DEF Shape, Row
  <1>2. [op |-> op, issue |-> i, key |-> row.sprint, named |-> named] \in Job
    BY DEF Job, Row, Keys
  <1>3. [local[r] EXCEPT !.left = Asked] \in Local
    <2>1. local[r] \in Local /\ Asked \in SUBSET Keys
      BY DEF Shape, CachesAssumption, Keys, Places
    <2> QED
      BY <2>1 DEF Local
  <1>4. rows' \in [Issues -> Row]
    BY <1>1 DEF Write, Shape
  <1>5. local' \in [Requests -> Local]
    BY <1>3 DEF Write, Shape
  <1>6. job' \in [Requests -> Job] /\ pc' \in [Requests -> Steps]
    BY <1>2 DEF Write, Start, Goto, Shape, Steps
  <1> QED
    BY <1>4, <1>5, <1>6 DEF Write, Shape, redis

LEMMA TypeArrive ==
  ASSUME CachesAssumption, Shape, NEW r \in Requests, Arrive(r)
  PROVE  Shape'
  <1>1. ASSUME NEW i \in Issues, NEW k \in Places, Create(r, i, k)
        PROVE  Shape'
    <2>1. [NoRow EXCEPT !.state = "live", !.sprint = k] \in Row
      BY DEF NoRow, Row
    <2> QED
      BY <1>1, <2>1, TypeWrite DEF Create
  <1>2. ASSUME NEW i \in Issues, NEW k \in Places, NEW named \in BOOLEAN, Update(r, i, k, named)
        PROVE  Shape'
    <2>1. [rows[i] EXCEPT !.sprint = k] \in Row
      BY DEF Shape, Row
    <2> QED
      BY <1>2, <2>1, TypeWrite DEF Update
  <1>3. ASSUME NEW i \in Issues, Transition(r, i)
        PROVE  Shape'
    <2>1. rows[i] \in Row
      BY DEF Shape
    <2> QED
      BY <1>3, <2>1, TypeWrite DEF Transition
  <1>4. ASSUME NEW i \in Issues, Delete(r, i)
        PROVE  Shape'
    <2>1. [rows[i] EXCEPT !.state = "deleted"] \in Row
      BY DEF Shape, Row
    <2> QED
      BY <1>4, <2>1, TypeWrite DEF Delete
  <1>5. ASSUME NEW i \in Issues, GetIssue(r, i)
        PROVE  Shape'
    <2>1. [NoJob EXCEPT !.op = "get", !.issue = i] \in Job
      BY DEF NoJob, Job, Keys, Places
    <2> QED
      BY <1>5, <2>1, LocalType DEF GetIssue, Start, Goto, Steps, Shape, redis
  <1>6. ASSUME NEW k \in Keys, GetBoard(r, k)
        PROVE  Shape'
    <2>1. [NoJob EXCEPT !.op = "board", !.key = k] \in Job
      BY DEF NoJob, Job, Keys, Places
    <2> QED
      BY <1>6, <2>1, LocalType DEF GetBoard, Start, Goto, Steps, Shape, redis
  <1>7. ASSUME NEW k \in Keys, ListIssues(r, k)
        PROVE  Shape'
    <2>1. [NoJob EXCEPT !.op = "list", !.key = k] \in Job
      BY DEF NoJob, Job, Keys, Places
    <2> QED
      BY <1>7, <2>1, LocalType DEF ListIssues, Start, Goto, Steps, Shape, redis
  <1> QED
    BY <1>1, <1>2, <1>3, <1>4, <1>5, <1>6, <1>7 DEF Arrive

LEMMA TypeWork ==
  ASSUME CachesAssumption, Base, NEW r \in Requests, Work(r)
  PROVE  Shape'
  <1> USE DEF Goto, redis, indexes
  <1>s. Shape
    BY DEF Base
  <1> USE <1>s
  <1>0. local[r] \in Local /\ job[r] \in Job /\ job[r].key \in Keys
    BY DEF Shape, Job
  <1>a. ASSUME NEW l \in Local, local' = [local EXCEPT ![r] = l]
        PROVE  local' \in [Requests -> Local]
    BY <1>a DEF Shape
  <1>b. ASSUME NEW step \in Steps, pc' = [pc EXCEPT ![r] = step]
        PROVE  pc' \in [Requests -> Steps]
    BY <1>b DEF Shape
  <1>1. CASE Scan(r)
    <2>1. PICK batch \in SUBSET local[r].left \ {{}} :
            local' = [local EXCEPT ![r].left = @ \ batch,
                                   ![r].found = {k \in batch : board[k] # NoBoard}]
      BY <1>1 DEF Scan
    <2>2. [local[r] EXCEPT !.left = @ \ batch,
                           !.found = {k \in batch : board[k] # NoBoard}] \in Local
      BY <1>0 DEF Local
    <2>3. local' = [local EXCEPT ![r] = [local[r] EXCEPT !.left = @ \ batch,
                                !.found = {k \in batch : board[k] # NoBoard}]]
      BY <2>1
    <2> QED
      BY <1>1, <2>2, <2>3, <1>a, <1>b DEF Scan, Shape, Steps
  <1>2. CASE DropEntity(r)
    BY <1>2, Subtypes DEF DropEntity, Shape, Steps
  <1>3. CASE MaintainIndex(r)
    <2>1. job[r].issue \in Issues
      BY <1>3 DEF MaintainIndex, Base, StepInv, Kept, Invalidating
    <2>2. index' \in [Keys -> SUBSET Issues]
      BY <1>3, <2>1 DEF MaintainIndex, Shape, AddIssue, Forget
    <2> QED
      BY <1>3, <2>2, <1>b DEF MaintainIndex, Shape, Steps
  <1>4. CASE Sweep(r)
    <2>1. [local[r] EXCEPT !.found = {}] \in Local
      BY <1>0 DEF Local
    <2>2. local' \in [Requests -> Local] /\ job' \in [Requests -> Job]
          /\ pc' \in [Requests -> Steps]
      BY <1>4, <2>1, TypeReply DEF Sweep, Shape, Steps
    <2> QED
      BY <1>4, <2>2 DEF Sweep, Shape
  <1>5. CASE SweepFails(r)
    <2>1. [local[r] EXCEPT !.left = {}] \in Local
      BY <1>0 DEF Local
    <2>2. local' \in [Requests -> Local] /\ job' \in [Requests -> Job]
          /\ pc' \in [Requests -> Steps]
      BY <1>5, <2>1, TypeReply DEF SweepFails, Shape, Steps
    <2> QED
      BY <1>5, <2>2 DEF SweepFails, Shape
  <1>6. CASE QueryBoard(r)
    <2>1. [local[r] EXCEPT !.page = OnBoard(job[r].key)] \in Local
      BY <1>0, BoardType DEF Local
    <2> QED
      BY <1>6, <2>1, <1>a, <1>b DEF QueryBoard, Shape, Steps
  <1>7. CASE WarmIndex(r)
    BY <1>7, <1>b DEF WarmIndex, Populate, Shape, Steps
  <1>8. CASE FillBoard(r)
    <2>1. local[r].page \in Board \cup {NoBoard}
      BY <1>0 DEF Local
    <2> QED
      BY <1>8, <2>1, TypeReply DEF FillBoard, Shape
  <1>9. CASE FindIssue(r)
    <2>1. job[r].issue \in Issues
      BY <1>9 DEF FindIssue, Base, StepInv, Kept
    <2>2. [[j \in Issues |-> NoRow] EXCEPT ![job[r].issue] = rows[job[r].issue]] \in Board
      BY <2>1, Subtypes DEF Board, Shape
    <2>3. [local[r] EXCEPT !.page =
             [[j \in Issues |-> NoRow] EXCEPT ![job[r].issue] = rows[job[r].issue]]] \in Local
      BY <1>0, <2>2 DEF Local
    <2> QED
      BY <1>9, <2>3, TypeReply DEF FindIssue, Shape, Steps
  <1>10. CASE KeepEntity(r)
    <2>1. job[r].issue \in Issues /\ local[r].page \in Board
      BY <1>10 DEF KeepEntity, Base, StepInv, Kept, Invalidating
    <2>2. local[r].page[job[r].issue] \in Row
      BY <2>1 DEF Board
    <2>3. entity' \in [Issues -> Row]
      BY <1>10, <2>2 DEF KeepEntity, Shape
    <2> QED
      BY <1>10, <2>3, TypeReply DEF KeepEntity, Shape
  <1>11. CASE Exists(r)
    BY <1>11 DEF Exists, Shape, Steps
  <1>12. CASE RangeByScore(r)
    <2> DEFINE ids == {i \in index[job[r].key] : walk[r].cursor # None =>
                                                   Scores[i] < walk[r].cursor.ms}
               read == [local[r] EXCEPT !.ids = Top(ids, PageLimit, Scores),
                                        !.more = Cardinality(ids) > PageLimit]
    <2>1. Top(ids, PageLimit, Scores) \subseteq Issues
      BY <1>0 DEF Top, Shape
    <2>2. read \in Local
      <3>1. \A more \in BOOLEAN :
              [local[r] EXCEPT !.ids = Top(ids, PageLimit, Scores), !.more = more] \in Local
        <4> HIDE DEF ids
        <4> QED
          BY <1>0, <2>1 DEF Local
      <3>2. (Cardinality(ids) > PageLimit) \in BOOLEAN
        OBVIOUS
      <3> HIDE DEF ids
      <3> QED
        BY <3>1, <3>2
    <2>3. local' \in [Requests -> Local]
      <3>1. local' = local \/ local' = [local EXCEPT ![r] = read]
        BY <1>12 DEF RangeByScore
      <3> HIDE DEF read
      <3> QED
        BY <2>2, <3>1, <1>a DEF Shape
    <2> QED
      BY <1>12, <2>3 DEF RangeByScore, Shape, Steps
  <1>13. CASE MGet(r)
    <2> DEFINE page == [i \in Issues |-> IF i \in local[r].ids THEN entity[i] ELSE NoRow]
    <2>1. page \in Board
      BY Subtypes DEF Shape, Board
    <2>2. [local[r] EXCEPT !.page = page] \in Local
      <3> HIDE DEF page
      <3> QED
        BY <1>0, <2>1 DEF Local
    <2>3. local' = [local EXCEPT ![r] = [local[r] EXCEPT !.page = page]]
      BY <1>13 DEF MGet
    <2> QED
      BY <1>13, <2>2, <2>3, <1>a, <1>b DEF MGet, Shape, Steps
  <1>14. CASE FetchIssues(r)
    BY <1>14, Subtypes, <1>a DEF FetchIssues, Shape, Steps
  <1>15. CASE PageFromDb(r)
    <2> DEFINE items == Top(Following(job[r].key, walk[r].cursor), PageLimit, CreatedAt)
    <2>1. items \subseteq Issues
      BY DEF Top, Following, InSprint
    <2>2. [local[r] EXCEPT !.ids = items] \in Local
      <3> HIDE DEF items
      <3> QED
        BY <1>0, <2>1 DEF Local
    <2>3. local' = local \/ local' = [local EXCEPT ![r] = [local[r] EXCEPT !.ids = items]]
      BY <1>15 DEF PageFromDb
    <2>4. local' \in [Requests -> Local]
      BY <2>2, <2>3, <1>a DEF Shape
    <2> QED
      BY <1>15, <2>4 DEF PageFromDb, Shape, Steps
  <1>16. CASE IndexPage(r)
    <2>1. index' \in [Keys -> SUBSET Issues]
      <3>1. local[r].ids \subseteq Issues
        BY <1>0 DEF Local
      <3> QED
        BY <1>16, <3>1 DEF IndexPage, Populate, Shape
    <2> QED
      BY <1>16, <2>1, Subtypes, <1>a DEF IndexPage, Shape, Steps
  <1>17. CASE ReadFails(r)
    BY <1>17, TypeReply DEF ReadFails, Shape
  <1>18. CASE ListEnds(r)
    BY <1>18, TypeReply DEF ListEnds, Shape
  <1> QED
    BY <1>1, <1>2, <1>3, <1>4, <1>5, <1>6, <1>7, <1>8, <1>9, <1>10, <1>11, <1>12, <1>13,
       <1>14, <1>15, <1>16, <1>17, <1>18 DEF Work
-----------------------------------------------------------------------------
(* A request that goes on leaves the database and the other requests alone. *)
LEMMA WorkFrame ==
  ASSUME Shape, NEW r \in Requests, Work(r)
  PROVE  /\ rows' = rows
         /\ \A q \in Requests \ {r} : pc'[q] = pc[q] /\ job'[q] = job[q] /\ local'[q] = local[q]
  <1> USE DEF Goto, Reply, Shape
  <1>1. CASE Scan(r)
    BY <1>1 DEF Scan
  <1>2. CASE DropEntity(r)
    BY <1>2 DEF DropEntity
  <1>3. CASE MaintainIndex(r)
    BY <1>3 DEF MaintainIndex
  <1>4. CASE Sweep(r)
    BY <1>4 DEF Sweep
  <1>5. CASE SweepFails(r)
    BY <1>5 DEF SweepFails
  <1>6. CASE QueryBoard(r)
    BY <1>6 DEF QueryBoard
  <1>7. CASE WarmIndex(r)
    BY <1>7 DEF WarmIndex
  <1>8. CASE FillBoard(r)
    BY <1>8 DEF FillBoard
  <1>9. CASE FindIssue(r)
    BY <1>9 DEF FindIssue
  <1>10. CASE KeepEntity(r)
    BY <1>10 DEF KeepEntity
  <1>11. CASE Exists(r)
    BY <1>11 DEF Exists
  <1>12. CASE RangeByScore(r)
    BY <1>12 DEF RangeByScore
  <1>13. CASE MGet(r)
    BY <1>13 DEF MGet
  <1>14. CASE FetchIssues(r)
    BY <1>14 DEF FetchIssues
  <1>15. CASE PageFromDb(r)
    BY <1>15 DEF PageFromDb
  <1>16. CASE IndexPage(r)
    BY <1>16 DEF IndexPage
  <1>17. CASE ReadFails(r)
    BY <1>17 DEF ReadFails
  <1>18. CASE ListEnds(r)
    BY <1>18 DEF ListEnds
  <1> QED
    BY <1>1, <1>2, <1>3, <1>4, <1>5, <1>6, <1>7, <1>8, <1>9, <1>10, <1>11, <1>12,
       <1>13, <1>14, <1>15, <1>16, <1>17, <1>18 DEF Work

LEMMA WorkKept ==
  ASSUME Base, NEW r \in Requests, Work(r)
  PROVE  Kept(r)'
  <1> USE DEF Goto, Reply, Invalidating, Kept
  <1>0. /\ Kept(r) /\ local[r] \in Local /\ pc[r] \in Steps
        /\ pc \in [Requests -> Steps] /\ job \in [Requests -> Job]
        /\ local \in [Requests -> Local]
        /\ Fresh.left = {} /\ Fresh.found = {}
    BY DEF Base, StepInv, Shape, Fresh
  <1>1. CASE Scan(r)
    BY <1>0, <1>1 DEF Scan
  <1>2. CASE DropEntity(r)
    BY <1>0, <1>2 DEF DropEntity
  <1>3. CASE MaintainIndex(r)
    BY <1>0, <1>3 DEF MaintainIndex
  <1>4. CASE Sweep(r)
    <2>1. local'[r].found = {} /\ (pc'[r] = "idle" => local'[r].left = {})
      BY <1>0, <1>4 DEF Sweep, Local
    <2> QED
      BY <1>0, <1>4, <2>1 DEF Sweep
  <1>5. CASE SweepFails(r)
    BY <1>0, <1>5 DEF SweepFails
  <1>6. CASE QueryBoard(r)
    <2>1. local'[r].left = {} /\ local'[r].found = {}
      BY <1>0, <1>6 DEF QueryBoard, Local
    <2> QED
      BY <1>0, <1>6, <2>1 DEF QueryBoard
  <1>7. CASE WarmIndex(r)
    BY <1>0, <1>7 DEF WarmIndex
  <1>8. CASE FillBoard(r)
    BY <1>0, <1>8 DEF FillBoard
  <1>9. CASE FindIssue(r)
    <2> DEFINE page == [[j \in Issues |-> NoRow] EXCEPT ![job[r].issue] = rows[job[r].issue]]
    <2>1. job[r].issue \in Issues
      BY <1>0, <1>9 DEF FindIssue
    <2>2. page \in Board
      BY <2>1, Subtypes DEF Board, Base, Shape
    <2>3. CASE rows[job[r].issue].state = "live"
      <3>1. local' = [local EXCEPT ![r].page = page] /\ pc' = [pc EXCEPT ![r] = "keep"]
            /\ rows' = rows /\ job' = job
        BY <1>9, <2>3 DEF FindIssue
      <3>2. local'[r].page = page /\ local'[r].left = {} /\ local'[r].found = {}
        <4> HIDE DEF page
        <4> QED
          BY <1>0, <1>9, <3>1 DEF Local, FindIssue
      <3> QED
        BY <1>0, <2>1, <2>2, <2>3, <3>1, <3>2
    <2>4. CASE rows[job[r].issue].state # "live"
      BY <1>0, <1>9, <2>4 DEF FindIssue
    <2> QED
      BY <2>3, <2>4
  <1>10. CASE KeepEntity(r)
    BY <1>0, <1>10 DEF KeepEntity
  <1>11. CASE Exists(r)
    BY <1>0, <1>11 DEF Exists
  <1>12. CASE RangeByScore(r)
    <2>1. local'[r].left = local[r].left /\ local'[r].found = local[r].found
      BY <1>0, <1>12 DEF RangeByScore, Local
    <2> QED
      BY <1>0, <1>12, <2>1 DEF RangeByScore
  <1>13. CASE MGet(r)
    <2>1. local'[r].left = {} /\ local'[r].found = {}
      BY <1>0, <1>13 DEF MGet, Local
    <2> QED
      BY <1>0, <1>13, <2>1 DEF MGet
  <1>14. CASE FetchIssues(r)
    BY <1>0, <1>14 DEF FetchIssues
  <1>15. CASE PageFromDb(r)
    <2>1. local'[r].left = local[r].left /\ local'[r].found = local[r].found
      BY <1>0, <1>15 DEF PageFromDb, Local
    <2> QED
      BY <1>0, <1>15, <2>1 DEF PageFromDb
  <1>16. CASE IndexPage(r)
    BY <1>0, <1>16 DEF IndexPage
  <1>17. CASE ReadFails(r)
    BY <1>0, <1>17 DEF ReadFails
  <1>18. CASE ListEnds(r)
    BY <1>0, <1>18 DEF ListEnds
  <1> QED
    BY <1>1, <1>2, <1>3, <1>4, <1>5, <1>6, <1>7, <1>8, <1>9, <1>10, <1>11, <1>12,
       <1>13, <1>14, <1>15, <1>16, <1>17, <1>18 DEF Work

LEMMA WorkStep ==
  ASSUME Base, NEW r \in Requests, Work(r)
  PROVE  StepInv'
  BY WorkKept, WorkFrame DEF Base, StepInv, Kept

(* A write leaves its own entity and every board to the invalidation that follows. *)
LEMMA WriteInv ==
  ASSUME CachesAssumption, IInv, NEW r \in Requests, NEW i \in Issues, NEW row \in Row,
         NEW op \in {"create", "update", "delete"}, NEW named \in BOOLEAN,
         Write(r, op, i, row, named), row.state # "none",
         op = "create" => rows[i].state = "none"
  PROVE  StepInv' /\ CachedInv' /\ EntitiesCurrent' /\ BoardsCurrent'
  <1> USE DEF IInv, Base
  <1>1. /\ pc[r] = "idle" /\ pc' = [pc EXCEPT ![r] = "scan"]
        /\ job' = [job EXCEPT ![r] = [op |-> op, issue |-> i, key |-> row.sprint, named |-> named]]
        /\ local' = [local EXCEPT ![r].left = Asked]
        /\ rows' = [rows EXCEPT ![i] = [row EXCEPT !.rev = rows[i].rev + 1]]
        /\ board' = board /\ entity' = entity /\ excused' = excused
    BY DEF Write, Start, Goto, redis
  <1>2. /\ pc'[r] = "scan" /\ job'[r].op = op /\ job'[r].issue = i
        /\ local'[r].left = Asked /\ local'[r].found = local[r].found
        /\ \A q \in Requests \ {r} : pc'[q] = pc[q] /\ job'[q] = job[q] /\ local'[q] = local[q]
    <2>1. local[r] \in Local
      BY DEF Shape
    <2> QED
      BY <1>1, <2>1 DEF Shape, Local
  <1>3. /\ \A j \in Issues \ {i} : rows'[j] = rows[j]
        /\ rows'[i].state # "none"
    <2>1. [row EXCEPT !.rev = rows[i].rev + 1].state = row.state
      BY DEF Row
    <2> QED
      BY <1>1, <2>1 DEF Shape
  <1>4. StepInv'
    <2>1. Kept(r)'
      BY <1>1, <1>2 DEF StepInv, Kept, Invalidating
    <2>2. ASSUME NEW q \in Requests \ {r}
          PROVE  Kept(q)'
      <3>1. Kept(q)
        BY DEF StepInv
      <3>2. pc[q] = "keep" => rows'[job[q].issue].state # "none"
        BY <3>1, <1>3 DEF Kept, Invalidating
      <3> QED
        BY <3>1, <3>2, <1>2 DEF Kept
    <2> QED
      BY <2>1, <2>2 DEF StepInv
  <1>5. CachedInv'
    BY <1>1, <1>3 DEF CachedInv
  <1>6. EntitiesCurrent'
    <2> SUFFICES ASSUME NEW j \in Issues, entity'[j] # NoRow, entity'[j] # rows'[j],
                        <<"entity", j>> \notin excused'
                 PROVE  \E q \in Requests : ToDrop(q, j)'
      BY DEF EntitiesCurrent
    <2>1. CASE j = i
      <3>1. op # "create"
        BY <1>1, <2>1 DEF CachedInv
      <3> QED
        BY <1>2, <2>1, <3>1 DEF ToDrop
    <2>2. CASE j # i
      <3>1. PICK q \in Requests : ToDrop(q, j)
        BY <1>1, <1>3, <2>2 DEF EntitiesCurrent
      <3>2. q # r
        BY <1>1, <3>1 DEF ToDrop
      <3> QED
        BY <1>2, <3>1, <3>2 DEF ToDrop
    <2> QED
      BY <2>1, <2>2
  <1>7. BoardsCurrent'
    BY <1>1, <1>2 DEF BoardsCurrent, CachedInv, ToSweep
  <1> QED
    BY <1>4, <1>5, <1>6, <1>7

LEMMA ArriveInv ==
  ASSUME CachesAssumption, IInv, NEW r \in Requests, Arrive(r)
  PROVE  StepInv' /\ CachedInv' /\ EntitiesCurrent' /\ BoardsCurrent'
  <1> USE DEF IInv, Base
  <1>1. ASSUME NEW i \in Issues, NEW k \in Places, Create(r, i, k)
        PROVE  StepInv' /\ CachedInv' /\ EntitiesCurrent' /\ BoardsCurrent'
    <2>1. /\ [NoRow EXCEPT !.state = "live", !.sprint = k] \in Row
          /\ [NoRow EXCEPT !.state = "live", !.sprint = k].state = "live"
      BY DEF NoRow, Row
    <2> QED
      BY <1>1, <2>1, WriteInv DEF Create
  <1>2. ASSUME NEW i \in Issues, NEW k \in Places, NEW named \in BOOLEAN, Update(r, i, k, named)
        PROVE  StepInv' /\ CachedInv' /\ EntitiesCurrent' /\ BoardsCurrent'
    <2>1. PICK old \in Row : old = rows[i]
      BY DEF Shape
    <2>2. PICK new : new = [old EXCEPT !.sprint = k]
      OBVIOUS
    <2>3. new \in Row /\ new.state = "live"
      BY <1>2, <2>1, <2>2 DEF Update, Row
    <2>4. Write(r, "update", i, new, named)
      BY <1>2, <2>1, <2>2 DEF Update
    <2> QED
      BY <2>3, <2>4, WriteInv
  <1>3. ASSUME NEW i \in Issues, Transition(r, i)
        PROVE  StepInv' /\ CachedInv' /\ EntitiesCurrent' /\ BoardsCurrent'
    <2>1. rows[i] \in Row
      BY DEF Shape
    <2> QED
      BY <1>3, <2>1, WriteInv DEF Transition
  <1>4. ASSUME NEW i \in Issues, Delete(r, i)
        PROVE  StepInv' /\ CachedInv' /\ EntitiesCurrent' /\ BoardsCurrent'
    <2>1. /\ [rows[i] EXCEPT !.state = "deleted"] \in Row
          /\ [rows[i] EXCEPT !.state = "deleted"].state = "deleted"
      BY DEF Shape, Row
    <2> QED
      BY <1>4, <2>1, WriteInv DEF Delete
  <1>5. ASSUME NEW j, NEW step \in {"query", "find", "exists"}, Start(r, j, step),
               step = "query" => j.key \in Asked, step = "find" => j.issue \in Issues,
               UNCHANGED <<rows, redis, local, excused>>
        PROVE  StepInv' /\ CachedInv' /\ EntitiesCurrent' /\ BoardsCurrent'
    <2>1. /\ pc[r] = "idle" /\ pc'[r] = step /\ job'[r] = j /\ local' = local
          /\ rows' = rows /\ board' = board /\ entity' = entity /\ excused' = excused
          /\ \A q \in Requests \ {r} : pc'[q] = pc[q] /\ job'[q] = job[q]
      BY <1>5 DEF Start, Goto, redis, Shape
    <2>2. StepInv'
      BY <1>5, <2>1 DEF StepInv, Kept, Invalidating
    <2>3. CachedInv'
      BY <2>1 DEF CachedInv
    <2>4. EntitiesCurrent'
      <3>1. \A q \in Requests, i \in Issues : ToDrop(q, i) => ToDrop(q, i)'
        BY <2>1 DEF ToDrop
      <3> QED
        BY <2>1, <3>1 DEF EntitiesCurrent
    <2>5. BoardsCurrent'
      <3>1. \A k : OnBoard(k)' = OnBoard(k)
        BY <2>1 DEF OnBoard, InSprint
      <3> QED
        BY <2>1, <3>1 DEF BoardsCurrent, ToSweep
    <2> QED
      BY <2>2, <2>3, <2>4, <2>5
  <1>6. ASSUME NEW i \in Issues, GetIssue(r, i)
        PROVE  StepInv' /\ CachedInv' /\ EntitiesCurrent' /\ BoardsCurrent'
    <2>1. [NoJob EXCEPT !.op = "get", !.issue = i].issue = i
      BY DEF NoJob
    <2> QED
      BY <1>5, <1>6, <2>1 DEF GetIssue
  <1>7. ASSUME NEW k \in Keys, GetBoard(r, k)
        PROVE  StepInv' /\ CachedInv' /\ EntitiesCurrent' /\ BoardsCurrent'
    <2>1. [NoJob EXCEPT !.op = "board", !.key = k].key = k
      BY DEF NoJob
    <2> QED
      BY <1>5, <1>7, <2>1 DEF GetBoard
  <1>8. ASSUME NEW k \in Keys, ListIssues(r, k)
        PROVE  StepInv' /\ CachedInv' /\ EntitiesCurrent' /\ BoardsCurrent'
    BY <1>5, <1>8 DEF ListIssues
  <1> QED
    BY <1>1, <1>2, <1>3, <1>4, <1>6, <1>7, <1>8 DEF Arrive

-----------------------------------------------------------------------------
LEMMA WorkCached ==
  ASSUME Base, NEW r \in Requests, Work(r)
  PROVE  CachedInv'
  <1>1. rows' = rows
    BY WorkFrame DEF Base
  <1>2. ASSUME NEW k \in Keys, board'[k] # NoBoard, board'[k] # board[k]
        PROVE  k \in Asked
    <2>1. CASE FillBoard(r)
      <3>1. job[r].key \in Asked
        BY <2>1 DEF FillBoard, Base, StepInv, Kept
      <3> QED
        BY <1>2, <2>1, <3>1 DEF FillBoard, Base, Shape
    <2>2. CASE Sweep(r)
      BY <1>2, <2>2 DEF Sweep
    <2>3. CASE board' = board
      BY <1>2, <2>3
    <2> QED
      BY <2>1, <2>2, <2>3 DEF Work, Scan, DropEntity, MaintainIndex, SweepFails, QueryBoard,
         WarmIndex, FindIssue, KeepEntity, Exists, RangeByScore, MGet, FetchIssues, PageFromDb,
         IndexPage, ReadFails, ListEnds, redis
  <1>3. ASSUME NEW i \in Issues, entity'[i] # NoRow, entity'[i] # entity[i]
        PROVE  rows[i].state # "none"
    <2>1. CASE KeepEntity(r)
      <3>1. rows[job[r].issue].state # "none"
        BY <2>1 DEF KeepEntity, Base, StepInv, Kept
      <3> QED
        BY <1>3, <2>1, <3>1 DEF KeepEntity, Base, Shape
    <2>2. CASE DropEntity(r)
      BY <1>3, <2>2 DEF DropEntity, Base, Shape
    <2>3. CASE entity' = entity
      BY <1>3, <2>3
    <2> QED
      BY <2>1, <2>2, <2>3 DEF Work, Scan, Sweep, MaintainIndex, SweepFails, QueryBoard,
         WarmIndex, FillBoard, FindIssue, Exists, RangeByScore, MGet, FetchIssues, PageFromDb,
         IndexPage, ReadFails, ListEnds, redis
  <1> QED
    BY <1>1, <1>2, <1>3 DEF CachedInv, Base

(* Steps of an invalidation leave the boards yet to be swept, and those swept, and *)
(* steps of another kind have none to begin with.                                  *)
LEMMA WorkBoards ==
  ASSUME IInv, NEW r \in Requests, Work(r)
  PROVE  BoardsCurrent'
  <1> USE DEF IInv, Base
  <1>1. /\ rows' = rows
        /\ \A q \in Requests \ {r} : local'[q] = local[q]
        /\ local[r] \in Local /\ Kept(r)
    BY WorkFrame DEF Shape, StepInv
  <1>2. \A k : OnBoard(k)' = OnBoard(k)
    BY <1>1 DEF OnBoard, InSprint
  <1>3. ASSUME NEW k \in Keys, board'[k] # NoBoard, board'[k] = board[k],
               <<"board", k>> \in excused => <<"board", k>> \in excused',
               ToSweep(r, k) => ToSweep(r, k)' \/ <<"board", k>> \in excused'
        PROVE  board'[k] # OnBoard(k)' =>
                 <<"board", k>> \in excused' \/ \E q \in Requests : ToSweep(q, k)'
    <2> SUFFICES ASSUME board[k] # OnBoard(k), <<"board", k>> \notin excused'
                 PROVE  \E q \in Requests : ToSweep(q, k)'
      BY <1>2, <1>3
    <2>1. PICK q \in Requests : ToSweep(q, k)
      BY <1>3 DEF BoardsCurrent
    <2> QED
      BY <1>1, <1>3, <2>1 DEF ToSweep
  <1>4. ASSUME pc[r] \notin Invalidating, board' = board,
               \A k \in Keys : <<"board", k>> \in excused => <<"board", k>> \in excused'
        PROVE  BoardsCurrent'
    <2>1. \A k : ~ToSweep(r, k)
      BY <1>1, <1>4 DEF ToSweep, Kept, Invalidating
    <2> QED
      BY <1>3, <1>4, <2>1 DEF BoardsCurrent
  <1>5. CASE Scan(r)
    <2>1. \A k \in Keys : board[k] # NoBoard /\ ToSweep(r, k) => ToSweep(r, k)'
      <3>1. PICK batch \in SUBSET local[r].left \ {{}} :
              local' = [local EXCEPT ![r].left = @ \ batch,
                                     ![r].found = {k \in batch : board[k] # NoBoard}]
        BY <1>5 DEF Scan
      <3>2. local'[r].left = local[r].left \ batch
            /\ local'[r].found = {k \in batch : board[k] # NoBoard}
        BY <1>1, <3>1 DEF Shape, Local
      <3>3. local[r].found = {}
        BY <1>1, <1>5 DEF Scan, Kept, Invalidating
      <3> QED
        BY <3>2, <3>3 DEF ToSweep
    <2> QED
      BY <1>3, <1>5, <2>1 DEF Scan, redis, BoardsCurrent
  <1>6. CASE Sweep(r)
    <2> SUFFICES ASSUME NEW k \in Keys, board'[k] # NoBoard
                 PROVE  board'[k] # OnBoard(k)' =>
                          <<"board", k>> \in excused' \/ \E q \in Requests : ToSweep(q, k)'
      BY DEF BoardsCurrent
    <2>1. k \notin local[r].found /\ board'[k] = board[k]
      BY <1>6 DEF Sweep
    <2>2. <<"board", k>> \in excused => <<"board", k>> \in excused'
      BY <1>6, <2>1 DEF Sweep
    <2>3. ToSweep(r, k) => ToSweep(r, k)'
      BY <1>1, <1>6, <2>1 DEF Sweep, ToSweep, Shape, Local
    <2> QED
      BY <1>3, <2>1, <2>2, <2>3
  <1>7. CASE SweepFails(r)
    <2>1. \A k \in Keys : ToSweep(r, k) => <<"board", k>> \in excused'
      BY <1>7 DEF SweepFails, ToSweep
    <2>2. \A k \in Keys : <<"board", k>> \in excused => <<"board", k>> \in excused'
      BY <1>7 DEF SweepFails
    <2> QED
      BY <1>3, <1>7, <2>1, <2>2 DEF SweepFails, redis, BoardsCurrent
  <1>8. CASE DropEntity(r)
    <2>1. \A k \in Keys : <<"board", k>> \in excused => <<"board", k>> \in excused'
      BY <1>8 DEF DropEntity
    <2>2. local' = local /\ board' = board
      BY <1>8 DEF DropEntity
    <2> QED
      BY <1>3, <2>1, <2>2 DEF ToSweep, BoardsCurrent
  <1>9. CASE MaintainIndex(r)
    <2>1. local' = local /\ board' = board /\ excused' = excused
      BY <1>9 DEF MaintainIndex
    <2> QED
      BY <1>3, <2>1 DEF ToSweep, BoardsCurrent
  <1>10. CASE FillBoard(r)
    <2> SUFFICES ASSUME NEW k \in Keys, board'[k] # NoBoard
                 PROVE  board'[k] # OnBoard(k)' =>
                          <<"board", k>> \in excused' \/ \E q \in Requests : ToSweep(q, k)'
      BY DEF BoardsCurrent
    <2>1. CASE board'[k] = board[k] /\ (<<"board", k>> \in excused => <<"board", k>> \in excused')
      <3>1. ~ToSweep(r, k)
        BY <1>1, <1>10 DEF FillBoard, ToSweep, Kept, Invalidating
      <3> QED
        BY <1>3, <2>1, <3>1
    <2>2. CASE k = job[r].key /\ ~UNCHANGED <<board, excused>>
      BY <1>2, <1>10, <2>2 DEF FillBoard, Shape
    <2>3. CASE k # job[r].key
      <3>1. <<"board", k>> # <<"board", job[r].key>>
        BY <2>3
      <3> QED
        BY <1>10, <2>1, <2>3, <3>1 DEF FillBoard, Shape
    <2>4. CASE k = job[r].key
      BY <1>10, <2>1, <2>2, <2>4 DEF FillBoard, Shape
    <2> QED
      BY <2>3, <2>4
  <1>11. CASE KeepEntity(r)
    <2>1. \A k \in Keys : <<"board", k>> \in excused => <<"board", k>> \in excused'
      BY <1>11 DEF KeepEntity
    <2> QED
      BY <1>4, <1>11, <2>1 DEF KeepEntity, Invalidating
  <1>12. CASE QueryBoard(r)
    BY <1>4, <1>12 DEF QueryBoard, redis, Invalidating
  <1>13. CASE WarmIndex(r)
    BY <1>4, <1>13 DEF WarmIndex, redis, Invalidating
  <1>14. CASE FindIssue(r)
    BY <1>4, <1>14 DEF FindIssue, redis, Invalidating
  <1>15. CASE Exists(r)
    BY <1>4, <1>15 DEF Exists, redis, Invalidating
  <1>16. CASE RangeByScore(r)
    BY <1>4, <1>16 DEF RangeByScore, redis, Invalidating
  <1>17. CASE MGet(r)
    BY <1>4, <1>17 DEF MGet, redis, Invalidating
  <1>18. CASE FetchIssues(r)
    BY <1>4, <1>18 DEF FetchIssues, redis, Invalidating
  <1>19. CASE PageFromDb(r)
    BY <1>4, <1>19 DEF PageFromDb, redis, Invalidating
  <1>20. CASE IndexPage(r)
    BY <1>4, <1>20 DEF IndexPage, redis, Invalidating
  <1>21. CASE ReadFails(r)
    BY <1>4, <1>21 DEF ReadFails, redis, Invalidating
  <1>22. CASE ListEnds(r)
    BY <1>4, <1>22 DEF ListEnds, redis, Invalidating
  <1> QED
    BY <1>5, <1>6, <1>7, <1>8, <1>9, <1>10, <1>11, <1>12, <1>13, <1>14, <1>15, <1>16, <1>17,
       <1>18, <1>19, <1>20, <1>21, <1>22 DEF Work

LEMMA WorkEntities ==
  ASSUME IInv, NEW r \in Requests, Work(r)
  PROVE  EntitiesCurrent'
  <1> USE DEF IInv, Base
  <1>1. /\ rows' = rows
        /\ \A q \in Requests \ {r} : pc'[q] = pc[q] /\ job'[q] = job[q] /\ local'[q] = local[q]
        /\ local[r] \in Local /\ Kept(r)
    BY WorkFrame DEF Shape, StepInv
  <1>2. ASSUME NEW i \in Issues, entity'[i] # NoRow, entity'[i] = entity[i],
               <<"entity", i>> \in excused => <<"entity", i>> \in excused',
               ToDrop(r, i) => ToDrop(r, i)' \/ <<"entity", i>> \in excused'
        PROVE  entity'[i] # rows'[i] =>
                 <<"entity", i>> \in excused' \/ \E q \in Requests : ToDrop(q, i)'
    <2> SUFFICES ASSUME entity[i] # rows[i], <<"entity", i>> \notin excused'
                 PROVE  \E q \in Requests : ToDrop(q, i)'
      BY <1>1, <1>2
    <2>1. PICK q \in Requests : ToDrop(q, i)
      BY <1>2 DEF EntitiesCurrent
    <2> QED
      BY <1>1, <1>2, <2>1 DEF ToDrop
  <1>3. ASSUME pc[r] \notin {"scan", "drop"}, entity' = entity,
               \A i \in Issues : <<"entity", i>> \in excused => <<"entity", i>> \in excused'
        PROVE  EntitiesCurrent'
    <2>1. \A i : ~ToDrop(r, i)
      BY <1>3 DEF ToDrop
    <2> QED
      BY <1>2, <1>3, <2>1 DEF EntitiesCurrent
  <1>4. CASE Scan(r)
    <2>1. \A i \in Issues : ToDrop(r, i) => ToDrop(r, i)'
      BY <1>4 DEF Scan, Goto, ToDrop, Shape
    <2> QED
      BY <1>2, <1>4, <2>1 DEF Scan, redis, EntitiesCurrent
  <1>5. CASE SweepFails(r)
    <2>1. \A i \in Issues : ToDrop(r, i) => ToDrop(r, i)'
      BY <1>5 DEF SweepFails, Goto, ToDrop, Shape
    <2>2. \A i \in Issues : <<"entity", i>> \in excused => <<"entity", i>> \in excused'
      BY <1>5 DEF SweepFails
    <2> QED
      BY <1>2, <1>5, <2>1, <2>2 DEF SweepFails, redis, EntitiesCurrent
  <1>6. CASE DropEntity(r)
    <2> SUFFICES ASSUME NEW i \in Issues, entity'[i] # NoRow
                 PROVE  entity'[i] # rows'[i] =>
                          <<"entity", i>> \in excused' \/ \E q \in Requests : ToDrop(q, i)'
      BY DEF EntitiesCurrent
    <2>1. CASE job[r].op = "create"
      <3>1. entity' = entity /\ excused' = excused /\ ~ToDrop(r, i)
        BY <1>6, <2>1 DEF DropEntity, ToDrop
      <3> QED
        BY <1>2, <3>1
    <2>2. CASE job[r].op # "create" /\ i = job[r].issue
      <3>1. <<"entity", i>> \in excused'
        BY <1>6, <2>2 DEF DropEntity, Shape
      <3> QED
        BY <3>1
    <2>3. CASE job[r].op # "create" /\ i # job[r].issue
      <3>1. entity'[i] = entity[i] /\ ~ToDrop(r, i)
            /\ (<<"entity", i>> \in excused => <<"entity", i>> \in excused')
        BY <1>6, <2>3 DEF DropEntity, ToDrop, Shape
      <3> QED
        BY <1>2, <3>1
    <2> QED
      BY <2>1, <2>2, <2>3
  <1>7. CASE KeepEntity(r)
    <2> SUFFICES ASSUME NEW i \in Issues, entity'[i] # NoRow
                 PROVE  entity'[i] # rows'[i] =>
                          <<"entity", i>> \in excused' \/ \E q \in Requests : ToDrop(q, i)'
      BY DEF EntitiesCurrent
    <2>0. ~ToDrop(r, i)
      BY <1>7 DEF KeepEntity, ToDrop
    <2>1. CASE i # job[r].issue \/ UNCHANGED <<entity, excused>>
      <3>1. entity'[i] = entity[i] /\ (<<"entity", i>> \in excused => <<"entity", i>> \in excused')
        BY <1>7, <2>1 DEF KeepEntity, Shape
      <3> QED
        BY <1>2, <2>0, <3>1
    <2>2. CASE i = job[r].issue /\ ~UNCHANGED <<entity, excused>>
      BY <1>1, <1>7, <2>2 DEF KeepEntity, Shape
    <2> QED
      BY <2>1, <2>2
  <1>8. CASE Sweep(r)
    <2>1. \A i \in Issues : <<"entity", i>> \in excused => <<"entity", i>> \in excused'
      BY <1>8 DEF Sweep
    <2> QED
      BY <1>3, <1>8, <2>1 DEF Sweep
  <1>9. CASE FillBoard(r)
    <2>1. \A i \in Issues : <<"entity", i>> \in excused => <<"entity", i>> \in excused'
      BY <1>9 DEF FillBoard
    <2> QED
      BY <1>3, <1>9, <2>1 DEF FillBoard
  <1>10. CASE MaintainIndex(r)
    BY <1>3, <1>10 DEF MaintainIndex, redis
  <1>11. CASE QueryBoard(r)
    BY <1>3, <1>11 DEF QueryBoard, redis
  <1>12. CASE WarmIndex(r)
    BY <1>3, <1>12 DEF WarmIndex, redis
  <1>13. CASE FindIssue(r)
    BY <1>3, <1>13 DEF FindIssue, redis
  <1>14. CASE Exists(r)
    BY <1>3, <1>14 DEF Exists, redis
  <1>15. CASE RangeByScore(r)
    BY <1>3, <1>15 DEF RangeByScore, redis
  <1>16. CASE MGet(r)
    BY <1>3, <1>16 DEF MGet, redis
  <1>17. CASE FetchIssues(r)
    BY <1>3, <1>17 DEF FetchIssues, redis
  <1>18. CASE PageFromDb(r)
    BY <1>3, <1>18 DEF PageFromDb, redis
  <1>19. CASE IndexPage(r)
    BY <1>3, <1>19 DEF IndexPage, redis
  <1>20. CASE ReadFails(r)
    BY <1>3, <1>20 DEF ReadFails, redis
  <1>21. CASE ListEnds(r)
    BY <1>3, <1>21 DEF ListEnds, redis
  <1> QED
    BY <1>4, <1>5, <1>6, <1>7, <1>8, <1>9, <1>10, <1>11, <1>12, <1>13, <1>14, <1>15, <1>16,
       <1>17, <1>18, <1>19, <1>20, <1>21 DEF Work

-----------------------------------------------------------------------------
(* A sprint that completes, and the TTLs. *)
LEMMA MoveInv ==
  ASSUME CachesAssumption, IInv, NEW i \in Issues, NEW k \in Places, CompleteMoves(i, k)
  PROVE  IInv'
  <1> USE DEF IInv, Base
  <1>1. /\ rows' = [rows EXCEPT ![i] = [state |-> "live", sprint |-> k, rev |-> rows[i].rev + 1]]
        /\ rows[i].state = "live" /\ rows[i].sprint \in Sprints
        /\ board' = board /\ entity' = entity /\ index' = index
        /\ pc' = pc /\ job' = job /\ local' = local
        /\ excused \subseteq excused' /\ <<"entity", i>> \in excused'
        /\ <<"board", rows[i].sprint>> \in excused'
        /\ \A l \in IF k = None THEN {None, Blank} ELSE {k} : <<"board", l>> \in excused'
    BY DEF CompleteMoves, redis
  <1>2. [state |-> "live", sprint |-> k, rev |-> rows[i].rev + 1] \in Row
    <2>1. rows[i] \in Row
      BY DEF Shape
    <2> QED
      BY <2>1 DEF Row
  <1>3. /\ \A j \in Issues \ {i} : rows'[j] = rows[j]
        /\ rows'[i].state = "live" /\ rows'[i].sprint = k /\ rows' \in [Issues -> Row]
    <2>1. rows' = [rows EXCEPT ![i] = [state |-> "live", sprint |-> k, rev |-> rows[i].rev + 1]]
      BY <1>1
    <2> QED
      BY <1>2, <2>1 DEF Shape
  <1>4. Shape'
    BY <1>1, <1>3 DEF Shape
  <1>5. StepInv'
    BY <1>1, <1>3 DEF StepInv, Kept
  <1>6. CachedInv'
    BY <1>1, <1>3 DEF CachedInv
  <1>7. EntitiesCurrent'
    BY <1>1, <1>3 DEF EntitiesCurrent, ToDrop
  <1>8. BoardsCurrent'
    <2>1. ASSUME NEW l \in Keys, <<"board", l>> \notin excused'
          PROVE  OnBoard(l)' = OnBoard(l)
      <3>1. (IF l = Blank THEN None ELSE l) \notin {k, rows[i].sprint}
        BY <1>1, <2>1 DEF CachesAssumption
      <3>2. InSprint(l)' = InSprint(l)
        BY <1>1, <1>3, <3>1 DEF InSprint
      <3>3. i \notin InSprint(l)
        BY <1>1, <3>1 DEF InSprint
      <3> QED
        BY <1>3, <3>2, <3>3 DEF OnBoard
    <2> QED
      BY <1>1, <2>1 DEF BoardsCurrent, ToSweep
  <1> QED
    BY <1>4, <1>5, <1>6, <1>7, <1>8

LEMMA ExpireInv ==
  ASSUME IInv, \/ \E k \in Keys : ExpireBoard(k) \/ ExpireIndex(k)
               \/ \E i \in Issues : ExpireEntity(i)
  PROVE  IInv'
  <1> USE DEF IInv, Base
  <1>1. /\ rows' = rows /\ pc' = pc /\ job' = job /\ local' = local
        /\ index' \in [Keys -> SUBSET Issues]
    BY DEF ExpireBoard, ExpireIndex, ExpireEntity, Forget, indexes, Shape
  <1>2. /\ \A k \in Keys : \/ board'[k] = NoBoard
                           \/ /\ board'[k] = board[k]
                              /\ <<"board", k>> \in excused => <<"board", k>> \in excused'
        /\ board' \in [Keys -> Board \cup {NoBoard}]
    BY DEF ExpireBoard, ExpireIndex, ExpireEntity, indexes, Shape
  <1>3. /\ \A i \in Issues : \/ entity'[i] = NoRow
                             \/ /\ entity'[i] = entity[i]
                                /\ <<"entity", i>> \in excused => <<"entity", i>> \in excused'
        /\ entity' \in [Issues -> Row]
    BY Subtypes DEF ExpireBoard, ExpireIndex, ExpireEntity, indexes, Shape
  <1>4. Shape'
    BY <1>1, <1>2, <1>3 DEF Shape
  <1>5. StepInv' /\ CachedInv'
    BY <1>1, <1>2, <1>3 DEF StepInv, Kept, CachedInv
  <1>6. EntitiesCurrent'
    BY <1>1, <1>3 DEF EntitiesCurrent, ToDrop
  <1>7. BoardsCurrent'
    BY <1>1, <1>2 DEF BoardsCurrent, ToSweep, OnBoard, InSprint
  <1> QED
    BY <1>4, <1>5, <1>6, <1>7

LEMMA StutterInv ==
  ASSUME IInv, UNCHANGED vars
  PROVE  IInv'
  BY DEF vars, IInv, Base, Shape, StepInv, Kept, CachedInv, EntitiesCurrent, BoardsCurrent,
     ToDrop, ToSweep, OnBoard, InSprint

LEMMA NextInv ==
  ASSUME CachesAssumption, IInv, [Next]_vars
  PROVE  IInv'
  <1>1. ASSUME NEW r \in Requests, Arrive(r)
        PROVE  IInv'
    BY <1>1, ArriveInv, TypeArrive DEF IInv, Base
  <1>2. ASSUME NEW r \in Requests, Work(r)
        PROVE  IInv'
    BY <1>2, TypeWork, WorkStep, WorkCached, WorkBoards, WorkEntities DEF IInv, Base
  <1> QED
    BY <1>1, <1>2, MoveInv, ExpireInv, StutterInv DEF Next

LEMMA Inductive ==
  ASSUME CachesAssumption
  PROVE  Spec => []IInv
  <1>1. Init => IInv
    BY InitInv
  <1>2. IInv /\ [Next]_vars => IInv'
    BY NextInv
  <1> QED
    BY <1>1, <1>2, PTL DEF Spec

-----------------------------------------------------------------------------
(***************************************************************************)
(* Pages.  While nobody writes, and the database alone serves its pages, a *)
(* client has seen every issue of the sprint but for what follows its      *)
(* cursor and for what an earlier cursor has clipped.                      *)
(***************************************************************************)
ListSteps == {"exists", "range", "mget", "fetch", "page", "index", "done", "refused"}

(* What is left to be read. *)
Unread(step, j, w) ==
  IF step = "done" \/ (step = "index" /\ w.cursor = None) THEN {} ELSE Following(j.key, w.cursor)

HasRead(step, j, w) ==
  /\ w.seen \subseteq InSprint(j.key)
  /\ \A i \in InSprint(j.key) \ (w.seen \cup Unread(step, j, w)) : \E e \in w.seen : Clipped(e, i)

(* Only the index hands out scores; who refuses a cursor has been given the other's. *)
Walks(step, j, w) ==
  /\ step \notin ListSteps => w.cursor = None /\ w.seen = {} /\ w.sources = {}
  /\ step \in {"mget", "fetch", "refused"} => "index" \in w.sources
  /\ "index" \notin w.sources /\ w.cursor # None => w.cursor.form = "iso"
  /\ step \in ListSteps /\ w.quiet /\ "index" \notin w.sources => HasRead(step, j, w)

WalkInv ==
  /\ walk \in [Requests -> Walk]
  /\ \A r \in Requests : Walks(pc[r], job[r], walk[r])

ByTime(time) == {p \in Issues \X Issues : Precedes(time, p[1], p[2])}

LEMMA ByTimeOrders ==
  ASSUME CachesAssumption, NEW time \in [Issues -> Nat], NEW S, S \subseteq Issues
  PROVE  IsOrder(ByTime(time), S) /\ IsFiniteSet(S)
<1>1. \A x, y \in Issues : <<x, y>> \in ByTime(time) <=> Precedes(time, x, y)
  BY DEF ByTime
<1>2. \A x \in Issues : x \in Nat /\ time[x] \in Nat
  BY DEF CachesAssumption
<1>3. IsOrder(ByTime(time), S)
  BY <1>1, <1>2 DEF IsOrder, Precedes
<1>4. IsFiniteSet(S)
  BY FS_Subset DEF CachesAssumption
<1> QED
  BY <1>3, <1>4

LEMMA ScoresType == ASSUME CachesAssumption PROVE Scores \in [Issues -> Nat]
BY DEF CachesAssumption, Scores

LEMMA TopFirst ==
  ASSUME NEW time, NEW S, S \subseteq Issues, NEW k
  PROVE  Top(S, k, time) = FirstOf(ByTime(time), k, S)
<1>1. ASSUME NEW x \in S PROVE {y \in S : Precedes(time, y, x)} = Before(ByTime(time), x, S)
  BY DEF ByTime, Before
<1> QED
  BY <1>1 DEF Top, FirstOf

LEMMA LastIsLast ==
  ASSUME CachesAssumption, NEW time \in [Issues -> Nat], NEW S, S \subseteq Issues, S # {}
  PROVE  Last(S, time) \in S
<1>1. PICK x \in S : \A y \in S : y = x \/ <<y, x>> \in ByTime(time)
  BY ByTimeOrders, LastExists
<1>2. \A y \in S \ {x} : Precedes(time, y, x)
  BY <1>1 DEF ByTime
<1> QED
  BY <1>2 DEF Last

LEMMA CursorType ==
  ASSUME CachesAssumption, NEW l \in Issues, NEW form \in {"score", "iso"}
  PROVE  [form |-> form, ms |-> Scores[l], id |-> l] \in Cursor \ {None}
<1>1. Scores[l] \in Nat
  BY ScoresType
<1> QED
  BY <1>1 DEF Cursor, CachesAssumption

(* What a page of the database leaves: nothing, or what comes after its last issue. *)
LEMMA DbPage ==
  ASSUME CachesAssumption, NEW S, S \subseteq Issues,
         NEW items, items = Top(S, PageLimit, CreatedAt)
  PROVE  /\ items \subseteq S
         /\ ~(Cardinality(S) > PageLimit) => items = S
         /\ Cardinality(S) > PageLimit =>
              /\ Last(items, CreatedAt) \in items
              /\ \A y \in S \ items : Precedes(CreatedAt, Last(items, CreatedAt), y)
<1>1. CreatedAt \in [Issues -> Nat] /\ PageLimit \in Nat \ {0}
  BY DEF CachesAssumption
<1>2. PICK R : R = ByTime(CreatedAt)
  OBVIOUS
<1>3. IsOrder(R, S) /\ IsFiniteSet(S) /\ items = FirstOf(R, PageLimit, S)
  BY <1>1, <1>2, ByTimeOrders, TopFirst
<1>4. items \subseteq S /\ Cardinality(S) \in Nat
  BY <1>3, FirstFinite, FS_CardinalityType
<1>5. ASSUME ~(Cardinality(S) > PageLimit) PROVE items = S
  BY <1>1, <1>3, <1>5, FirstShort
<1>6. ASSUME Cardinality(S) > PageLimit
      PROVE  /\ Last(items, CreatedAt) \in items
             /\ \A y \in S \ items : Precedes(CreatedAt, Last(items, CreatedAt), y)
  <2>1. S # {}
    BY <1>1, <1>6, FS_EmptySet
  <2>2. items # {}
    BY <1>1, <1>3, <2>1, FirstNonempty
  <2>3. PICK l \in items : l = Last(items, CreatedAt)
    BY <1>1, <1>4, <2>2, LastIsLast
  <2>4. \A y \in S \ items : <<l, y>> \in R
    BY <1>1, <1>3, <2>3, FirstClosed
  <2> QED
    BY <1>2, <2>3, <2>4 DEF ByTime
<1> QED
  BY <1>4, <1>5, <1>6

(* The cursor is cut to milliseconds: what comes after it may not follow the cursor. *)
LEMMA CursorCut ==
  ASSUME CachesAssumption, NEW k, NEW l \in Issues, NEW i \in InSprint(k), Precedes(CreatedAt, l, i),
         NEW c, c = [form |-> "iso", ms |-> Scores[l], id |-> l]
  PROVE  i \in Following(k, c) \/ Clipped(l, i)
<1>1. i \in Issues /\ i \in Nat /\ l \in Nat /\ CreatedAt[i] \in Nat /\ CreatedAt[l] \in Nat
  BY DEF InSprint, CachesAssumption
<1>2. PICK at \in Nat : at = Scores[l]
  BY ScoresType
<1>3. c.ms = at /\ c.id = l
  BY <1>2
<1>4. /\ at * 1000 <= CreatedAt[l] /\ CreatedAt[l] < at * 1000 + 1000
      /\ Scores[i] = CreatedAt[i] \div 1000
  BY <1>1, <1>2 DEF Scores
<1>5. CreatedAt[i] < CreatedAt[l] \/ (CreatedAt[i] = CreatedAt[l] /\ i < l)
  BY <1>1 DEF Precedes
<1>6. CASE CreatedAt[i] < at * 1000 \/ (CreatedAt[i] = at * 1000 /\ i < l)
  BY <1>3, <1>6 DEF Following
<1>7. CASE ~(CreatedAt[i] < at * 1000 \/ (CreatedAt[i] = at * 1000 /\ i < l))
  <2>1. at * 1000 <= CreatedAt[i] /\ CreatedAt[i] < at * 1000 + 1000
    BY <1>1, <1>2, <1>4, <1>5, <1>7
  <2>2. Scores[i] = at
    BY <1>1, <1>2, <1>4, <2>1
  <2>3. CreatedAt[l] # at * 1000
    BY <1>1, <1>2, <1>5, <1>7, <2>1
  <2> QED
    BY <1>2, <2>2, <2>3 DEF Clipped
<1> QED
  BY <1>6, <1>7

-----------------------------------------------------------------------------
(* The rows stay as they are, and one request goes on. *)
LEMMA WalkLocal ==
  ASSUME Shape, WalkInv, rows' = rows, NEW r \in Requests, NEW step, NEW j, NEW w \in Walk,
         Walks(step, j, w), pc' = [pc EXCEPT ![r] = step], job' = [job EXCEPT ![r] = j],
         walk' = [walk EXCEPT ![r] = w]
  PROVE  WalkInv'
<1>1. /\ pc'[r] = step /\ job'[r] = j /\ walk'[r] = w /\ walk' \in [Requests -> Walk]
      /\ \A q \in Requests \ {r} : pc'[q] = pc[q] /\ job'[q] = job[q] /\ walk'[q] = walk[q]
  BY DEF Shape, WalkInv
<1>2. ASSUME NEW p, NEW k, NEW v, Walks(p, k, v)
      PROVE  Walks(p, k, v)'
  BY <1>2 DEF Walks, HasRead, Unread, Following, InSprint
<1>3. ASSUME NEW q \in Requests PROVE Walks(pc[q], job[q], walk[q])'
  BY <1>1, <1>2 DEF WalkInv
<1> QED
  BY <1>1, <1>3 DEF WalkInv

(* A request that lists nothing goes on. *)
LEMMA OtherWalks ==
  ASSUME Shape, WalkInv, rows' = rows, walk' = walk, NEW r \in Requests, NEW step, NEW j,
         pc[r] \notin ListSteps, step \notin ListSteps,
         pc' = [pc EXCEPT ![r] = step], job' = [job EXCEPT ![r] = j]
  PROVE  WalkInv'
<1>1. PICK w \in Walk : w = walk[r]
  BY DEF WalkInv
<1>2. Walks(step, j, w) /\ walk' = [walk EXCEPT ![r] = w]
  BY <1>1 DEF WalkInv, Walks, ListSteps
<1> QED
  BY <1>2, WalkLocal

LEMMA GotoWalks ==
  ASSUME Shape, WalkInv, rows' = rows, walk' = walk, job' = job, NEW r \in Requests, NEW step,
         pc[r] \notin ListSteps, step \notin ListSteps, Goto(r, step)
  PROVE  WalkInv'
<1>1. PICK j : j = job[r]
  OBVIOUS
<1>2. job' = [job EXCEPT ![r] = j]
  BY <1>1 DEF Shape
<1> QED
  BY <1>2, OtherWalks DEF Goto

LEMMA ReplyWalks ==
  ASSUME Shape, WalkInv, rows' = rows, NEW r \in Requests, Reply(r)
  PROVE  WalkInv'
<1>1. NoWalk \in Walk /\ Walks("idle", NoJob, NoWalk)
  BY DEF NoWalk, Walk, Walks, ListSteps
<1> QED
  BY <1>1, WalkLocal DEF Reply, Goto

(* A write: only walks that have not begun count as quiet. *)
LEMMA DisturbWalks ==
  ASSUME Shape, WalkInv, Disturb,
         \A q \in Requests : \/ pc'[q] = pc[q] /\ job'[q] = job[q]
                             \/ pc[q] = "idle" /\ pc'[q] \notin ListSteps
  PROVE  WalkInv'
<1>1. ASSUME NEW q \in Requests
      PROVE  /\ walk'[q] \in Walk
             /\ walk'[q].seen = walk[q].seen /\ walk'[q].cursor = walk[q].cursor
             /\ walk'[q].sources = walk[q].sources
             /\ walk'[q].quiet => pc[q] = "idle"
  <2>1. PICK w \in Walk : w = walk[q]
    BY DEF WalkInv
  <2>2. walk'[q] = [w EXCEPT !.quiet = (pc[q] = "idle")]
    BY <2>1 DEF Disturb
  <2>3. (pc[q] = "idle") \in BOOLEAN
    OBVIOUS
  <2>4. \A b \in BOOLEAN : /\ [w EXCEPT !.quiet = b] \in Walk /\ [w EXCEPT !.quiet = b].seen = w.seen
                           /\ [w EXCEPT !.quiet = b].cursor = w.cursor
                           /\ [w EXCEPT !.quiet = b].sources = w.sources
                           /\ [w EXCEPT !.quiet = b].quiet => b
    BY DEF Walk
  <2>5. /\ walk'[q] \in Walk /\ walk'[q].seen = w.seen /\ walk'[q].cursor = w.cursor
        /\ walk'[q].sources = w.sources
    BY <2>2, <2>3, <2>4
  <2>6. walk'[q].quiet => pc[q] = "idle"
    BY <2>2, <2>3, <2>4
  <2> QED
    BY <2>1, <2>5, <2>6
<1>2. walk' \in [Requests -> Walk]
  BY <1>1 DEF Disturb
<1>3. ASSUME NEW q \in Requests PROVE Walks(pc[q], job[q], walk[q])'
  <2>1. Walks(pc[q], job[q], walk[q])
    BY DEF WalkInv
  <2>2. pc'[q] \in ListSteps => pc'[q] = pc[q] /\ ~walk'[q].quiet
    BY <1>1 DEF ListSteps
  <2>3. pc'[q] \notin ListSteps => pc[q] \notin ListSteps
    BY DEF ListSteps
  <2> QED
    BY <1>1, <2>1, <2>2, <2>3 DEF Walks, ListSteps
<1> QED
  BY <1>2, <1>3 DEF WalkInv

LEMMA WriteWalks ==
  ASSUME Shape, WalkInv, NEW r \in Requests, NEW op, NEW i, NEW row, NEW named,
         Write(r, op, i, row, named)
  PROVE  WalkInv'
<1>1. Disturb /\ pc[r] = "idle" /\ pc' = [pc EXCEPT ![r] = "scan"]
  BY DEF Write, Start, Goto
<1>2. \A q \in Requests \ {r} : pc'[q] = pc[q] /\ job'[q] = job[q]
  BY DEF Write, Start, Goto, Shape
<1>3. pc'[r] = "scan"
  BY <1>1 DEF Shape
<1> QED
  BY <1>1, <1>2, <1>3, DisturbWalks DEF ListSteps

(* A walk begins with everything still to read. *)
LEMMA ListWalks ==
  ASSUME Shape, WalkInv, NEW r \in Requests, NEW k, ListIssues(r, k)
  PROVE  WalkInv'
<1>1. PICK j : j = [NoJob EXCEPT !.op = "list", !.key = k]
  OBVIOUS
<1>2. PICK w \in Walk : w = walk[r]
  BY DEF WalkInv
<1>3. /\ pc[r] = "idle" /\ pc' = [pc EXCEPT ![r] = "exists"] /\ job' = [job EXCEPT ![r] = j]
      /\ rows' = rows /\ walk' = [walk EXCEPT ![r] = w]
  BY <1>1, <1>2 DEF ListIssues, Start, Goto, WalkInv
<1>4. w.cursor = None /\ w.seen = {} /\ w.sources = {}
  BY <1>2, <1>3 DEF WalkInv, Walks, ListSteps
<1>5. Following(j.key, None) = InSprint(j.key)
  BY DEF Following
<1>6. Walks("exists", j, w)
  BY <1>4, <1>5 DEF Walks, ListSteps, HasRead, Unread
<1> QED
  BY <1>3, <1>6, WalkLocal

LEMMA ArriveWalks ==
  ASSUME Shape, WalkInv, NEW r \in Requests, Arrive(r)
  PROVE  WalkInv'
<1>1. ASSUME NEW j, NEW step \in {"query", "find"}, Start(r, j, step), rows' = rows, walk' = walk
      PROVE  WalkInv'
  BY <1>1, OtherWalks DEF Start, Goto, ListSteps
<1> QED
  BY <1>1, WriteWalks, ListWalks DEF Arrive, Create, Update, Transition, Delete, GetIssue, GetBoard

-----------------------------------------------------------------------------
(* A request that lists goes on with what it remembers, and the same is left to it. *)
LEMMA SameWalks ==
  ASSUME Shape, WalkInv, rows' = rows, walk' = walk, job' = job, NEW r \in Requests, NEW step,
         Goto(r, step), pc[r] \in ListSteps, step \in {"range", "page", "fetch", "exists", "done"},
         step = "fetch" => pc[r] = "mget",
         pc[r] # "done",
         step = "exists" => pc[r] = "index" /\ walk[r].cursor # None,
         step = "done" => pc[r] = "index" /\ walk[r].cursor = None,
         pc[r] = "index" => step \in {"exists", "done"}
  PROVE  WalkInv'
<1>0. PICK j : j = job[r]
  OBVIOUS
<1>1. PICK w \in Walk : j = job[r] /\ w = walk[r]
  BY <1>0 DEF WalkInv
<1>2. Walks(pc[r], j, w)
  BY <1>1 DEF WalkInv
<1>3. Unread(step, j, w) = Unread(pc[r], j, w)
  BY <1>1 DEF Unread
<1>4. Walks(step, j, w)
  BY <1>2, <1>3 DEF Walks, HasRead, ListSteps
<1>5. job' = [job EXCEPT ![r] = j] /\ walk' = [walk EXCEPT ![r] = w]
  BY <1>1 DEF Shape, WalkInv
<1> QED
  BY <1>4, <1>5, WalkLocal DEF Goto

(* The index: the walk is not the database's any more. *)
LEMMA IndexedWalks ==
  ASSUME Shape, WalkInv, rows' = rows, job' = job, NEW r \in Requests, NEW step, Goto(r, step),
         step \in ListSteps, NEW w \in Walk, "index" \in w.sources, walk' = [walk EXCEPT ![r] = w]
  PROVE  WalkInv'
<1>1. PICK j : j = job[r]
  OBVIOUS
<1>2. job' = [job EXCEPT ![r] = j]
  BY <1>1 DEF Shape
<1>3. Walks(step, j, w)
  BY DEF Walks
<1> QED
  BY <1>2, <1>3, WalkLocal DEF Goto

LEMMA RangeWalks ==
  ASSUME Shape, WalkInv, NEW r \in Requests, RangeByScore(r)
  PROVE  WalkInv'
<1>1. PICK old \in Walk : old = walk[r]
  BY DEF WalkInv
<1>2. PICK w : w = [old EXCEPT !.sources = @ \cup {"index"}]
  OBVIOUS
<1>3. w \in Walk /\ "index" \in w.sources
  BY <1>1, <1>2 DEF Walk
<1>4. walk' = [walk EXCEPT ![r] = w] /\ rows' = rows /\ job' = job
  BY <1>1, <1>2 DEF RangeByScore
<1>5. Goto(r, "refused") \/ Goto(r, "mget")
  BY DEF RangeByScore
<1> QED
  BY <1>3, <1>4, <1>5, IndexedWalks DEF ListSteps

LEMMA FetchWalks ==
  ASSUME CachesAssumption, Shape, WalkInv, NEW r \in Requests, FetchIssues(r)
  PROVE  WalkInv'
<1>1. PICK old \in Walk : old = walk[r]
  BY DEF WalkInv
<1>2. PICK items : items = {i \in local[r].ids : local[r].page[i] # NoRow \/ rows[i].state = "live"}
  OBVIOUS
<1>3. items \subseteq Issues
  <2>1. local[r].ids \subseteq Issues
    BY DEF Shape, Local
  <2> QED
    BY <1>2, <2>1
<1>4. PICK next : next = IF local[r].more /\ items # {}
                           THEN [form |-> "score", ms |-> Scores[Last(items, Scores)],
                                 id |-> Last(items, Scores)] ELSE None
  OBVIOUS
<1>5. next \in Cursor \cup {None}
  <2>1. CASE items # {}
    <3>1. Last(items, Scores) \in Issues
      BY <1>3, <2>1, LastIsLast, ScoresType
    <3> QED
      BY <1>4, <3>1, CursorType
  <2> QED
    BY <1>4, <2>1
<1>6. PICK w : w = [old EXCEPT !.seen = @ \cup items, !.cursor = next]
  OBVIOUS
<1>7. "index" \in old.sources
  BY <1>1 DEF FetchIssues, WalkInv, Walks
<1>8. w \in Walk /\ "index" \in w.sources
  BY <1>3, <1>5, <1>6, <1>7 DEF Walk
<1>9. /\ walk' = [walk EXCEPT ![r] = w] /\ rows' = rows /\ job' = job
      /\ Goto(r, IF next # None THEN "exists" ELSE "done")
  BY <1>1, <1>2, <1>4, <1>6 DEF FetchIssues
<1> QED
  BY <1>8, <1>9, IndexedWalks DEF ListSteps

(* A page of the database. *)
LEMMA DbPageRead ==
  ASSUME CachesAssumption, NEW j, NEW old \in Walk, Walks("page", j, old),
         "index" \notin old.sources, NEW rest, rest = Following(j.key, old.cursor),
         NEW items, items = Top(rest, PageLimit, CreatedAt),
         NEW last, last = Last(items, CreatedAt),
         NEW next, next = IF Cardinality(rest) > PageLimit
                            THEN [form |-> "iso", ms |-> Scores[last], id |-> last] ELSE None,
         NEW w, w = [old EXCEPT !.sources = @ \cup {"db"}, !.seen = @ \cup items, !.cursor = next]
  PROVE  w \in Walk /\ Walks("index", j, w)
<1>1. rest \subseteq InSprint(j.key) /\ InSprint(j.key) \subseteq Issues
  BY DEF Following, InSprint
<1>2. /\ items \subseteq rest
      /\ ~(Cardinality(rest) > PageLimit) => items = rest
      /\ Cardinality(rest) > PageLimit =>
           last \in items /\ \A y \in rest \ items : Precedes(CreatedAt, last, y)
  BY <1>1, DbPage
<1>3. next \in Cursor \cup {None} /\ (next # None => next.form = "iso")
  <2>1. CASE Cardinality(rest) > PageLimit
    <3>1. last \in Issues
      BY <1>1, <1>2, <2>1
    <3> QED
      BY <2>1, <3>1, CursorType
  <2> QED
    BY <2>1
<1>4. /\ w \in Walk /\ w.seen = old.seen \cup items /\ w.cursor = next /\ w.quiet = old.quiet
      /\ w.sources = old.sources \cup {"db"}
  BY <1>1, <1>2, <1>3 DEF Walk
<1>5. ASSUME old.quiet
      PROVE  HasRead("index", j, w)
  <2>1. /\ old.seen \subseteq InSprint(j.key)
        /\ \A i \in InSprint(j.key) \ (old.seen \cup rest) : \E e \in old.seen : Clipped(e, i)
    BY <1>5 DEF Walks, HasRead, Unread, ListSteps
  <2>2. ASSUME NEW i \in InSprint(j.key) \ (w.seen \cup Unread("index", j, w))
        PROVE  \E e \in w.seen : Clipped(e, i)
    <3>1. CASE i \notin rest
      BY <1>4, <2>1, <2>2, <3>1
    <3>2. CASE i \in rest
      <4>1. i \notin items /\ Cardinality(rest) > PageLimit
        BY <1>2, <1>4, <2>2, <3>2
      <4>2. last \in items /\ last \in Issues /\ Precedes(CreatedAt, last, i)
        BY <1>1, <1>2, <3>2, <4>1
      <4>3. next # None /\ next = [form |-> "iso", ms |-> Scores[last], id |-> last]
        BY <4>1, <4>2, CursorType
      <4>4. i \notin Following(j.key, next)
        BY <1>4, <2>2, <4>3 DEF Unread
      <4>5. Clipped(last, i)
        BY <4>2, <4>3, <4>4, CursorCut
      <4> QED
        BY <1>4, <4>2, <4>5
    <3> QED
      BY <3>1, <3>2
  <2> QED
    BY <1>1, <1>2, <1>4, <2>1, <2>2 DEF HasRead
<1> QED
  BY <1>3, <1>4, <1>5 DEF Walks, ListSteps

LEMMA PageWalks ==
  ASSUME CachesAssumption, Shape, WalkInv, NEW r \in Requests, PageFromDb(r)
  PROVE  WalkInv'
<1>0. PICK j : j = job[r]
  OBVIOUS
<1>1. PICK old \in Walk : old = walk[r] /\ j = job[r]
  BY <1>0 DEF WalkInv
<1>2. Walks("page", j, old)
  BY <1>1 DEF PageFromDb, WalkInv
<1>3. rows' = rows /\ job' = job /\ job' = [job EXCEPT ![r] = j]
  BY <1>1 DEF PageFromDb, Shape
<1>4. CASE old.cursor # None /\ old.cursor.form # "iso"
  <2>1. PICK w : w = [old EXCEPT !.sources = @ \cup {"db"}]
    OBVIOUS
  <2>2. "index" \in old.sources
    BY <1>2, <1>4 DEF Walks
  <2>3. w \in Walk /\ "index" \in w.sources
    BY <2>1, <2>2 DEF Walk
  <2>4. walk' = [walk EXCEPT ![r] = w] /\ Goto(r, "refused")
    BY <1>1, <1>4, <2>1 DEF PageFromDb
  <2> QED
    BY <1>3, <2>3, <2>4, IndexedWalks DEF ListSteps
<1>5. CASE ~(old.cursor # None /\ old.cursor.form # "iso")
  <2>1. PICK rest : rest = Following(j.key, old.cursor)
    OBVIOUS
  <2>2. PICK items : items = Top(rest, PageLimit, CreatedAt)
    OBVIOUS
  <2>3. PICK last : last = Last(items, CreatedAt)
    OBVIOUS
  <2>4. PICK next : next = IF Cardinality(rest) > PageLimit
                             THEN [form |-> "iso", ms |-> Scores[last], id |-> last] ELSE None
    OBVIOUS
  <2>5. PICK w : w = [old EXCEPT !.sources = @ \cup {"db"}, !.seen = @ \cup items, !.cursor = next]
    OBVIOUS
  <2>6. walk' = [walk EXCEPT ![r] = w] /\ Goto(r, "index")
    <3>1. /\ Goto(r, "index")
          /\ walk' = [walk EXCEPT ![r].sources = @ \cup {"db"},
                                  ![r].seen = @ \cup items, ![r].cursor = next]
      BY <1>1, <1>5, <2>1, <2>2, <2>3, <2>4 DEF PageFromDb
    <3> QED
      BY <1>1, <2>5, <3>1 DEF WalkInv
  <2>7. CASE "index" \notin old.sources
    <3>1. w \in Walk /\ Walks("index", j, w)
      BY <1>2, <2>1, <2>2, <2>3, <2>4, <2>5, <2>7, DbPageRead
    <3> QED
      BY <1>3, <2>6, <3>1, WalkLocal DEF Goto
  <2>8. CASE "index" \in old.sources
    <3>1. items \subseteq Issues
      BY <2>1, <2>2 DEF Top, Following, InSprint
    <3>2. next \in Cursor \cup {None}
      <4>1. CASE Cardinality(rest) > PageLimit
        <5>1. rest \subseteq Issues
          BY <2>1 DEF Following, InSprint
        <5>2. last \in items
          BY <2>2, <2>3, <4>1, <5>1, DbPage
        <5> QED
          BY <2>4, <3>1, <4>1, <5>2, CursorType
      <4> QED
        BY <2>4, <4>1
    <3>3. w \in Walk /\ "index" \in w.sources
      BY <2>5, <2>8, <3>1, <3>2 DEF Walk
    <3> QED
      BY <1>3, <2>6, <3>3, IndexedWalks DEF ListSteps
  <2> QED
    BY <2>7, <2>8
<1> QED
  BY <1>4, <1>5

LEMMA WorkWalks ==
  ASSUME CachesAssumption, Shape, WalkInv, NEW r \in Requests, Work(r)
  PROVE  WalkInv'
<1>1. CASE Scan(r)
  BY <1>1, GotoWalks DEF Scan, ListSteps
<1>2. CASE DropEntity(r)
  BY <1>2, GotoWalks DEF DropEntity, ListSteps
<1>3. CASE MaintainIndex(r)
  BY <1>3, GotoWalks DEF MaintainIndex, ListSteps
<1>4. CASE Sweep(r)
  BY <1>4, GotoWalks, ReplyWalks DEF Sweep, ListSteps
<1>5. CASE SweepFails(r)
  BY <1>5, GotoWalks, ReplyWalks DEF SweepFails, ListSteps
<1>6. CASE QueryBoard(r)
  BY <1>6, GotoWalks DEF QueryBoard, ListSteps
<1>7. CASE WarmIndex(r)
  BY <1>7, GotoWalks DEF WarmIndex, ListSteps
<1>8. CASE FindIssue(r)
  BY <1>8, GotoWalks, ReplyWalks DEF FindIssue, ListSteps
<1>9. CASE FillBoard(r) \/ KeepEntity(r) \/ ReadFails(r) \/ ListEnds(r)
  BY <1>9, ReplyWalks DEF FillBoard, KeepEntity, ReadFails, ListEnds
<1>10. CASE Exists(r)
  BY <1>10, SameWalks DEF Exists, ListSteps
<1>11. CASE MGet(r)
  BY <1>11, SameWalks DEF MGet, ListSteps
<1>12. CASE IndexPage(r)
  BY <1>12, SameWalks DEF IndexPage, ListSteps
<1> QED
  BY <1>1, <1>2, <1>3, <1>4, <1>5, <1>6, <1>7, <1>8, <1>9, <1>10, <1>11, <1>12, RangeWalks,
     FetchWalks, PageWalks DEF Work

LEMMA NextWalks ==
  ASSUME CachesAssumption, Shape, WalkInv, [Next]_vars
  PROVE  WalkInv'
<1>1. ASSUME NEW r \in Requests, Arrive(r) \/ Work(r) PROVE WalkInv'
  BY <1>1, ArriveWalks, WorkWalks
<1>2. ASSUME NEW i \in Issues, NEW k \in Places, CompleteMoves(i, k) PROVE WalkInv'
  BY <1>2, DisturbWalks DEF CompleteMoves
<1>3. CASE UNCHANGED <<rows, pc, job, walk>>
  BY <1>3 DEF WalkInv, Walks, HasRead, Unread, Following, InSprint
<1> QED
  BY <1>1, <1>2, <1>3 DEF Next, ExpireBoard, ExpireIndex, ExpireEntity, vars

LEMMA InitWalks == Init => WalkInv
BY DEF Init, WalkInv, Walks, NoWalk, Walk, ListSteps

(* Once its last page has come, a walk has nothing left to read. *)
LEMMA WalkedComplete == WalkInv => DbPagesComplete
<1> SUFFICES ASSUME WalkInv, NEW r \in Requests,
                    pc[r] \in {"done", "refused"}, walk[r].quiet, walk[r].sources = {"db"}
             PROVE  /\ pc[r] = "done" /\ walk[r].seen \subseteq InSprint(job[r].key)
                    /\ \A i \in InSprint(job[r].key) \ walk[r].seen : \E j \in walk[r].seen : Clipped(j, i)
  BY DEF DbPagesComplete
<1>1. Walks(pc[r], job[r], walk[r]) /\ "index" \notin walk[r].sources
  BY DEF WalkInv
<1>2. pc[r] = "done" /\ HasRead("done", job[r], walk[r])
  BY <1>1 DEF Walks, ListSteps
<1> QED
  BY <1>2 DEF HasRead, Unread

-----------------------------------------------------------------------------
(* The indexes that have a TTL are there, and history excuses entries of the caches. *)
TtlInv ==
  /\ expiring \subseteq {k \in Keys : index[k] # {}}
  /\ excused \subseteq Entries

LEMMA NextTtl ==
  ASSUME CachesAssumption, Base, TtlInv, [Next]_vars
  PROVE  TtlInv'
<1> USE DEF Base
<1>0. \A r \in Requests : job[r] \in Job /\ job[r].key \in Keys /\ local[r] \in Local
  BY DEF Shape, Job
<1>1. ASSUME NEW k \in Keys, NEW ids, ids \subseteq Issues, Populate(k, ids) \/ Forget(k, ids)
      PROVE  expiring' \subseteq {l \in Keys : index'[l] # {}}
  BY <1>1 DEF Populate, Forget, indexes, TtlInv, Shape
<1>2. ASSUME UNCHANGED indexes
      PROVE  expiring' \subseteq {l \in Keys : index'[l] # {}}
  BY <1>2 DEF indexes, TtlInv
<1>3. ASSUME NEW k \in Keys, NEW i, AddIssue(i, k)
      PROVE  expiring' \subseteq {l \in Keys : index'[l] # {}}
  BY <1>3 DEF AddIssue, TtlInv, Shape
<1>4. ASSUME NEW r \in Requests, Arrive(r) PROVE TtlInv'
  <2>1. UNCHANGED <<redis, excused>>
    BY <1>4 DEF Arrive, Create, Update, Transition, Delete, Write, GetIssue, GetBoard, ListIssues
  <2> QED
    BY <1>2, <2>1 DEF redis, indexes, TtlInv
<1>5. ASSUME NEW r \in Requests, Work(r) PROVE TtlInv'
  <2>1. expiring' \subseteq {l \in Keys : index'[l] # {}}
    <3>1. CASE MaintainIndex(r)
      <4>1. job[r].issue \in Issues
        BY <3>1 DEF MaintainIndex, StepInv, Kept, Invalidating
      <4> QED
        BY <1>0, <1>1, <1>2, <1>3, <3>1, <4>1 DEF MaintainIndex
    <3>2. CASE WarmIndex(r)
      <4>1. {i \in Issues : local[r].page[i] # NoRow} \subseteq Issues
        OBVIOUS
      <4> QED
        BY <1>0, <1>1, <1>2, <3>2, <4>1 DEF WarmIndex
    <3>3. CASE IndexPage(r)
      <4>1. local[r].ids \subseteq Issues
        BY <1>0 DEF Local
      <4> QED
        BY <1>0, <1>1, <1>2, <3>3, <4>1 DEF IndexPage
    <3>4. CASE UNCHANGED indexes
      BY <1>2, <3>4
    <3> QED
      BY <1>5, <3>1, <3>2, <3>3, <3>4 DEF Work, Scan, DropEntity, Sweep, SweepFails, QueryBoard,
         FillBoard, FindIssue, KeepEntity, Exists, RangeByScore, MGet, FetchIssues, PageFromDb,
         ReadFails, ListEnds, redis, indexes
  <2>2. excused' \subseteq Entries
    <3>1. CASE DropEntity(r)
      <4>1. job[r].issue \in Issues
        BY <3>1 DEF DropEntity, StepInv, Kept, Invalidating
      <4> QED
        BY <3>1, <4>1 DEF DropEntity, TtlInv, Entries
    <3>2. CASE Sweep(r)
      BY <3>2 DEF Sweep, TtlInv
    <3>3. CASE SweepFails(r)
      <4>1. local[r].left \cup local[r].found \subseteq Keys
        BY <1>0 DEF Local
      <4> QED
        BY <3>3, <4>1 DEF SweepFails, TtlInv, Entries
    <3>4. CASE FillBoard(r)
      BY <1>0, <3>4 DEF FillBoard, TtlInv, Entries
    <3>5. CASE KeepEntity(r)
      <4>1. job[r].issue \in Issues
        BY <3>5 DEF KeepEntity, StepInv, Kept, Invalidating
      <4> QED
        BY <3>5, <4>1 DEF KeepEntity, TtlInv, Entries
    <3>6. CASE excused' = excused
      BY <3>6 DEF TtlInv
    <3> QED
      BY <1>5, <3>1, <3>2, <3>3, <3>4, <3>5, <3>6 DEF Work, Scan, MaintainIndex, QueryBoard,
         WarmIndex, FindIssue, Exists, RangeByScore, MGet, FetchIssues, PageFromDb, IndexPage,
         ReadFails, ListEnds
  <2> QED
    BY <2>1, <2>2 DEF TtlInv
<1>6. ASSUME NEW i \in Issues, NEW k \in Places, CompleteMoves(i, k) PROVE TtlInv'
  <2>1. rows[i].sprint \in Keys /\ k \in Keys /\ None \in Keys /\ Blank \in Keys
    BY <1>6 DEF Shape, Row, Keys, Places
  <2>2. excused' \subseteq Entries
    BY <1>6, <2>1 DEF CompleteMoves, TtlInv, Entries
  <2> QED
    BY <1>2, <1>6, <2>2 DEF CompleteMoves, redis, indexes, TtlInv
<1>7. ASSUME NEW k \in Keys, ExpireBoard(k) \/ ExpireIndex(k) PROVE TtlInv'
  BY <1>1, <1>2, <1>7 DEF ExpireBoard, ExpireIndex, TtlInv
<1>8. ASSUME NEW i \in Issues, ExpireEntity(i) PROVE TtlInv'
  BY <1>2, <1>8 DEF ExpireEntity, TtlInv
<1>9. CASE UNCHANGED vars
  BY <1>9 DEF vars, TtlInv
<1> QED
  BY <1>4, <1>5, <1>6, <1>7, <1>8, <1>9 DEF Next

-----------------------------------------------------------------------------
(* Whatever requests race on however many issues: once a write is answered, no    *)
(* cached copy of its issue is older (IssueManager.ts:56, IssueEntityCache.del).  *)
THEOREM EntitiesStayCurrent ==
  ASSUME CachesAssumption
  PROVE  Spec => []EntitiesCurrent
  <1>1. IInv => EntitiesCurrent
    BY DEF IInv
  <1> QED
    BY <1>1, Inductive, PTL

(* However SCAN divides the boards into answers, each one cached when a write is *)
(* answered shows it (RedisCache.invalidatePattern).                            *)
THEOREM BoardsStayCurrent ==
  ASSUME CachesAssumption
  PROVE  Spec => []BoardsCurrent
  <1>1. IInv => BoardsCurrent
    BY DEF IInv
  <1> QED
    BY <1>1, Inductive, PTL

(* However many clients page through however many issues: one that reads a quiet sprint  *)
(* from the database alone sees every issue but those of a millisecond it has cut a      *)
(* cursor in (IssueQueryService.listFromDb, encodeCursor).                               *)
THEOREM PagesFitTogether ==
  ASSUME CachesAssumption
  PROVE  Spec => []DbPagesComplete
  <1>1. IInv /\ WalkInv /\ [Next]_vars => IInv' /\ WalkInv'
    BY NextInv, NextWalks DEF IInv, Base
  <1>2. Init => IInv /\ WalkInv
    BY InitInv, InitWalks
  <1> QED
    BY <1>1, <1>2, WalkedComplete, PTL DEF Spec

(* Every variable keeps its type, and no index has a TTL that does not exist             *)
(* (IssueIndexCache, RedisCache).                                                        *)
THEOREM TypesKept ==
  ASSUME CachesAssumption
  PROVE  Spec => []TypeOK
  <1>1. IInv /\ WalkInv /\ TtlInv /\ [Next]_vars => IInv' /\ WalkInv' /\ TtlInv'
    BY NextInv, NextWalks, NextTtl DEF IInv, Base
  <1>2. Init => IInv /\ WalkInv /\ TtlInv
    <2>1. Init => TtlInv
      BY DEF Init, TtlInv
    <2> QED
      BY <2>1, InitInv, InitWalks
  <1>3. IInv /\ WalkInv /\ TtlInv => TypeOK
    BY DEF IInv, Base, Shape, WalkInv, TtlInv, TypeOK
  <1> QED
    BY <1>1, <1>2, <1>3, PTL DEF Spec
=============================================================================
