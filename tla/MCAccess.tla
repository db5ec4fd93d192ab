------------------------------- MODULE MCAccess -------------------------------
EXTENDS Access, TLC

CONSTANTS c1, c2

Symmetry == Permutations(Calls)

Ask == [op |-> "listProjects", token |-> "t1", email |-> None, project |-> None, key |-> None,
        target |-> None, role |-> None, field |-> None, issue |-> None, value |-> None,
        allowed |-> None]

InProject == [Ask EXCEPT !.project = "p1"]

OnField == [InProject EXCEPT !.field = "f1", !.issue = "i1", !.value = "v1"]

(* One address calls and calls; or Redis fails it, while the clock runs less far. *)
Limiting == [asks |-> {[Ask EXCEPT !.token = None]},
             calls |-> {c1, c2}, limited |-> TRUE, until |-> 4, faults |-> FALSE]

Failing == [Limiting EXCEPT !.until = 2, !.faults = TRUE]

Alone == [Failing EXCEPT !.calls = {c1}, !.until = 3]

(* Two people register and log in ... *)
Registering ==
  [asks |-> {[Ask EXCEPT !.op = "register", !.token = None, !.email = "e3"],
             [Ask EXCEPT !.op = "register", !.token = None, !.email = "e1"],
             [Ask EXCEPT !.op = "login", !.token = None, !.email = "e1"],
             [Ask EXCEPT !.op = "listProjects", !.token = "t3"]},
   calls |-> {c1, c2}, limited |-> FALSE, until |-> 0, faults |-> TRUE]

(* ... and log out, while their tokens expire. *)
Leaving ==
  [asks |-> {[Ask EXCEPT !.op = "logout"], [Ask EXCEPT !.op = "listValues", !.issue = "i1"],
             [Ask EXCEPT !.op = "listValues", !.issue = "i1", !.token = None]},
   calls |-> {c1, c2}, limited |-> FALSE, until |-> 4, faults |-> TRUE]

(* A member is removed, added with another role and works, or is listed. *)
Removing ==
  [asks |-> {[InProject EXCEPT !.op = "addMember", !.target = "u2", !.role = "VIEWER"],
             [InProject EXCEPT !.op = "removeMember", !.target = "u2"],
             [InProject EXCEPT !.op = "listMembers", !.token = "t2"]},
   calls |-> {c1, c2}, limited |-> FALSE, until |-> 0, faults |-> TRUE]

(* A project comes and goes ... *)
Listing ==
  [asks |-> {[Ask EXCEPT !.op = "createProject", !.key = "k1"],
             [Ask EXCEPT !.op = "createProject", !.key = "k2"],
             [InProject EXCEPT !.op = "updateProject"],
             [InProject EXCEPT !.op = "deleteProject"]},
   calls |-> {c1, c2}, limited |-> FALSE, until |-> 0, faults |-> TRUE]

(* ... and somebody is added to it who may not be there. *)
Adding ==
  [asks |-> {[InProject EXCEPT !.op = "addMember", !.target = "u3", !.role = "MEMBER"],
             [Ask EXCEPT !.op = "register", !.token = None, !.email = "e3"],
             [InProject EXCEPT !.op = "getProject", !.token = "t2"],
             [InProject EXCEPT !.op = "deleteProject"]},
   calls |-> {c1, c2}, limited |-> FALSE, until |-> 0, faults |-> TRUE]

(* Fields and values are changed at once. *)
Filling ==
  [asks |-> {[OnField EXCEPT !.op = "setValue"], [OnField EXCEPT !.op = "clearValue"],
             [OnField EXCEPT !.op = "deleteDefinition"],
             [OnField EXCEPT !.op = "updateDefinition"]},
   calls |-> {c1, c2}, limited |-> FALSE, until |-> 0, faults |-> TRUE]

Defining ==
  [asks |-> {[OnField EXCEPT !.op = "updateDefinition", !.allowed = {"v2"}],
             [OnField EXCEPT !.op = "updateDefinition", !.allowed = {}],
             [OnField EXCEPT !.op = "deleteDefinition", !.project = "p2"],
             [InProject EXCEPT !.op = "createDefinition", !.allowed = {"v1"}],
             [InProject EXCEPT !.op = "createDefinition", !.allowed = {}],
             [OnField EXCEPT !.op = "clearValue", !.issue = "i2"],
             [OnField EXCEPT !.op = "setValue"], [OnField EXCEPT !.op = "setValue", !.issue = "i2"],
             [OnField EXCEPT !.op = "listDefinitions"]},
   calls |-> {c1, c2}, limited |-> FALSE, until |-> 0, faults |-> TRUE]

MCWorkloads ==
  {Limiting, Failing, Alone, Registering, Leaving, Removing, Listing, Adding, Filling, Defining}
MCUsers == [u \in Users |-> CASE u = "u1" -> "e1" [] u = "u2" -> "e2" [] OTHER -> None]
MCTokens == [t \in Tokens |-> CASE t = "t1" -> [user |-> "u1", exp |-> TokenLife]
                                [] t = "t2" -> [user |-> "u2", exp |-> TokenLife]
                                [] OTHER -> None]
MCProjects == [p \in ProjectIds |-> IF p = "p1" THEN [key |-> "k1", deleted |-> FALSE] ELSE None]
MCMembers == [k \in Pairs |-> CASE k = <<"p1", "u1">> -> "ADMIN"
                                [] k = <<"p1", "u2">> -> "MEMBER"
                                [] OTHER -> None]
MCFields == [f \in Fields |->
  IF f = "f1" THEN [project |-> "p1", allowed |-> {"v1", "v2"}] ELSE None]
MCProjectOf == [i \in Issues |-> IF i = "i1" THEN "p1" ELSE None]
=============================================================================
