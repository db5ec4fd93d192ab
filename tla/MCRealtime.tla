------------------------------ MODULE MCRealtime ------------------------------
EXTENDS Realtime

(* Events are published while a client comes and goes: more than the buffer holds ... *)
Replaying == [parts |-> {"sockets"}, kinds |-> {"SprintUpdated"}, servers |-> {"s1"},
              requests |-> {"r1"}, clients |-> {"t3"}, events |-> {1, 2, 3}, rows |-> {},
              connections |-> 2, faults |-> FALSE, crashes |-> FALSE]

(* ... and on two processes, with a Redis that may fail. *)
Crossing == [Replaying EXCEPT !.servers = Servers, !.events = {1, 2}, !.faults = TRUE]

(* Two tabs of one user, that come and go ... *)
Presence == [Replaying EXCEPT !.clients = {"t1", "t2"}, !.events = {}, !.requests = {}]

(* ... on processes that may die, with a Redis that may fail. *)
Failing == [Presence EXCEPT !.servers = Servers, !.connections = 1, !.faults = TRUE,
                            !.crashes = TRUE]

(* A process shuts down while requests, some aborted, and a socket are open. *)
Stopping == [Replaying EXCEPT !.parts = {"requests", "shutdown", "sockets", "pings"},
                              !.requests = {"r1", "r2"}, !.events = {},
                              !.clients = {"t1"}]

(* The log is read while events are logged. *)
Reading == [Replaying EXCEPT !.parts = {"feed"}, !.events = {1},
                             !.clients = {}, !.kinds = Kinds, !.rows = 1..5, !.crashes = TRUE]

MCWorkloads == {Replaying, Crossing, Presence, Failing, Stopping, Reading}
MCStopping == {Stopping}
MCReading == {Reading}
MCCreatedAt == [n \in Entries |-> <<4, 4, 4, 7, 6, 8, 9>>[n]]
MCUserOf == [c \in Clients |-> IF c = "t3" THEN None ELSE "u1"]
=============================================================================
