--------------------------- MODULE MCNotifications ---------------------------
EXTENDS Notifications

(* One user is mentioned, and a server dies. *)
Dying == [clients |-> {"r1"}, servers |-> {"s1", "s2"}, ops |-> {"create"}, texts |-> {<<"u1">>},
          replies |-> FALSE, existing |-> {}, fresh |-> {1}, queue |-> TRUE, crashes |-> 1]

(* Two users are mentioned in one comment. *)
Mentioning == [Dying EXCEPT !.texts = {<<"u1", "u2">>}, !.servers = {"s1"}, !.crashes = 0]

(* Two comments that mention two users each, without a queue. *)
Unqueued == [Mentioning EXCEPT !.servers = {"s1", "s2"}, !.fresh = {1, 2}, !.queue = FALSE]

(* Two authors write, edit and delete comments and replies. *)
Editing == [clients |-> {"r1", "r2"}, servers |-> {"s1"}, ops |-> {"create", "update", "delete"},
            texts |-> {<<>>}, replies |-> TRUE, existing |-> {1}, fresh |-> {2},
            queue |-> FALSE, crashes |-> 0]

(* A thread is read page by page while somebody writes. *)
Reading == [Editing EXCEPT !.ops = {"list", "create"}, !.existing = {1, 2, 3}, !.fresh = {4}]

MCWorkloads == {Dying, Mentioning, Unqueued, Editing, Reading}
MCCreatedAt == [c \in Comments |-> <<8, 3, 5, 9>>[c]]
=============================================================================
