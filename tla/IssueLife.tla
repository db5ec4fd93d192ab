------------------------------ MODULE IssueLife ------------------------------
(***************************************************************************)
(* What the issue endpoints promise about one issue: every write is one    *)
(* indivisible step.  A PATCH changes the fields it names and never the    *)
(* status; the status moves only along the project's workflow; a deleted   *)
(* issue stays as it was.                                                  *)
(***************************************************************************)
EXTENDS Naturals

CONSTANTS
  Issues, Statuses,
  Allowed,   \* the workflow transitions, pairs of statuses
  Done,      \* the statuses of category DONE
  Stories    \* the issues that need story points to be done

VARIABLE card   \* card[i]: the row of issue i; its version is not looked at

Fields == {"state", "status", "sprint", "points", "assignee"}

(* Of the fields of issue i, only those of F may change. *)
Only(i, F) == \A f \in Fields \ F : card'[i][f] = card[i][f]

Create(i) == card[i].state = "none" /\ card'[i].state = "live"

Live(i) == card[i].state = "live"

Edit(i) == Live(i) /\ Only(i, {"sprint", "points", "assignee"})

Move(i) ==
  /\ Live(i)
  /\ Only(i, {"status"})
  /\ <<card[i].status, card'[i].status>> \in Allowed
  /\ card'[i].status \in Done /\ i \in Stories => card[i].points

Delete(i) == Live(i) /\ card'[i].state = "deleted" /\ Only(i, {"state"})

(* A sprint that completes moves its issues, the deleted ones left alone. *)
IssueStep(i) == Create(i) \/ Edit(i) \/ Move(i) \/ Delete(i) \/ Only(i, {})
=============================================================================
