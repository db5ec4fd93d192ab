--------------------------- MODULE MCIssueCommands ---------------------------
(* Instances of IssueCommands: a three-column workflow without a way back to  *)
(* the first column, and a limit on the second.                              *)
EXTENDS IssueCommands, TLC

CONSTANTS todo, doing, done, story

(* One issue: every endpoint, a sprint that completes, stale versions, faults ... *)
Racing == [ops |-> Endpoints, issues |-> {story}, editable |-> {"sprint", "points"},
           faults |-> TRUE, keys |-> 1, versions |-> 2]

(* ... or several, that are created and moved. *)
Moving == [ops |-> {"create", "transition"}, issues |-> Issues \ {story}, editable |-> {},
           faults |-> FALSE, keys |-> 3, versions |-> 3]

(* One client, and the version it sends. *)
Editing == [Racing EXCEPT !.ops = {"create", "update"}, !.editable = {"points"},
                          !.faults = FALSE, !.versions = 3]

MCWorkloads == {Racing, Moving}
MCEditing == {Editing}

Kanban == {<<todo, doing>>, <<doing, done>>, <<done, doing>>}
Limits == [s \in Statuses |-> IF s = doing THEN 1 ELSE 0]
Finish == {<<doing, done>>}

(* No workload tells the issues that are no stories from each other. *)
Symmetry == Permutations(Requests) \cup Permutations(Issues \ {story})
=============================================================================
