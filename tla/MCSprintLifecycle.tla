-------------------------- MODULE MCSprintLifecycle --------------------------
(* Instances of SprintLifecycle for TLC. *)
EXTENDS SprintLifecycle, TLC

CONSTANTS TheProject, OtherProject, s1, s2, OtherSprint

(* The sprints of two projects are created, started and completed ... *)
Racing == [ops |-> {"create", "start", "complete"}, sprints |-> Sprints, issues |-> {}]

(* ... the sprints of one are listed as well ... *)
Listing == [Racing EXCEPT !.ops = Endpoints, !.sprints = {s1, s2}]

(* ... a sprint is completed with an issue that others write. *)
Splitting == [Racing EXCEPT !.sprints = {OtherSprint}, !.issues = Issues]

MCWorkloads == {Racing, Listing, Splitting}
MCRacing == {Racing}
MCFair == {[Listing EXCEPT !.sprints = {s1}], Splitting}

TwoProjects ==
  [s \in Sprints |-> IF s = OtherSprint THEN OtherProject ELSE TheProject]

(* No workload tells s1 from s2. *)
Symmetry == Permutations(Requests) \cup Permutations({s1, s2})
=============================================================================
