----------------------------- MODULE SprintBoard -----------------------------
(***************************************************************************)
(* What the sprint service promises: the life of the sprints of a project  *)
(* as a team sees it, with every operation one indivisible step.           *)
(* A sprint is created in PLANNING, started when no sprint of its project  *)
(* is ACTIVE, completed when it is ACTIVE, and then never changes again.   *)
(***************************************************************************)
EXTENDS Naturals, FiniteSets

CONSTANTS Sprints, Projects, ProjectOf

VARIABLE board   \* board[s]: the status of sprint s

Status == {"NONE", "PLANNING", "ACTIVE", "COMPLETED"}

SprintsOf(p) == {s \in Sprints : ProjectOf[s] = p}

ActiveSprints(p) == {s \in SprintsOf(p) : board[s] = "ACTIVE"}

Init == board = [s \in Sprints |-> "NONE"]

Moves(s, from, to) ==
  /\ board[s] = from
  /\ board' = [board EXCEPT ![s] = to]

Create(s) == Moves(s, "NONE", "PLANNING")

Start(s) ==
  /\ ActiveSprints(ProjectOf[s]) = {}
  /\ Moves(s, "PLANNING", "ACTIVE")

Complete(s) == Moves(s, "ACTIVE", "COMPLETED")

Next == \E s \in Sprints : Create(s) \/ Start(s) \/ Complete(s)

Spec == Init /\ [][Next]_board

(***************************************************************************)
(* A step as one project sees it: one of its sprints takes an allowed      *)
(* step, or none of them changes.                                          *)
(***************************************************************************)
ProjectStep(p) ==
  \/ \E s \in SprintsOf(p) : Create(s) \/ Start(s) \/ Complete(s)
  \/ \A s \in SprintsOf(p) : board'[s] = board[s]

(* Only one ACTIVE sprint is allowed per project at a time. *)
OneActivePerProject ==
  \A p \in Projects : Cardinality(ActiveSprints(p)) <= 1
=============================================================================
