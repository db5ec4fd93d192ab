----------------------------- MODULE CustomFields -----------------------------
(***************************************************************************)
(* Custom fields of a project and their values in its issues               *)
(* (src/src/modules/customFields).  A definition is its project and the    *)
(* values it allows; that they are options, numbers or dates is left out,  *)
(* and so are its name and position.                                       *)
(***************************************************************************)
EXTENDS Projects

CONSTANTS
  Fields,
  Issues, ProjectOf,   \* None: there is no such issue
  Rows,                \* uuids of rows of custom_field_values
  Gone                 \* a definition that was deleted

VARIABLES
  fields,   \* custom_field_definitions: [project, allowed], None, or Gone
  values    \* custom_field_values: [row, value] for a field and an issue, or None

fieldVars == <<fields, values>>

Exists(f) == fields[f] \notin {None, Gone}

ValuesOf(f) == {i \in Issues : values[<<f, i>>] # None}

(* Other rows than those of the table and those a call is about to save. *)
FreeRows ==
  {n \in Rows : /\ \A f \in Fields, i \in Issues : values[<<f, i>>] = None \/ values[<<f, i>>].row # n
                /\ \A q \in Calls : ~(At(q, "setValue", "save") /\ call[q].found = n)}

Others ==
  UNCHANGED <<clock, hits, recorded, admitted, expiry, users, tokens, revoked, loggedOut, projectVars>>

-----------------------------------------------------------------------------
(* Definitions *)

ListDefinitions(q) ==
  /\ At(q, "listDefinitions", "handler")
  /\ Answer(q, 200)
  /\ Others /\ UNCHANGED fieldVars

CreateDefinition(q) ==
  LET r == call[q].request
      free == {f \in Fields : fields[f] = None} IN
    /\ At(q, "createDefinition", "handler")
    /\ \/ /\ r.allowed = {}
          /\ Answer(q, 400)
          /\ UNCHANGED fields
       \/ /\ r.allowed # {} /\ free # {}
          /\ fields' = [fields EXCEPT ![CHOOSE f \in free : TRUE] =
               [project |-> r.project, allowed |-> r.allowed]]
          /\ Answer(q, 201)
    /\ Others /\ UNCHANGED values

(* updateDefinition and deleteDefinition look for the field first. *)
FindDefinition(q) ==
  LET r == call[q].request IN
    /\ \E op \in {"updateDefinition", "deleteDefinition"} : At(q, op, "handler")
    /\ IF ~Exists(r.field) THEN Answer(q, 404)
       ELSE IF fields[r.field].project # r.project THEN Answer(q, 403)
       ELSE IF r.op = "updateDefinition" /\ r.allowed = {} THEN Answer(q, 400)
       ELSE Keep(q, "found", fields[r.field])
    /\ Others /\ UNCHANGED fieldVars

(* The definition found is saved whole: if it was deleted since, it is inserted anew. *)
UpdateDefinition(q) ==
  LET r == call[q].request IN
    /\ At(q, "updateDefinition", "found")
    /\ fields' = [fields EXCEPT ![r.field] =
         IF r.allowed = None THEN call[q].found ELSE [call[q].found EXCEPT !.allowed = r.allowed]]
    /\ Answer(q, 200)
    /\ Others /\ UNCHANGED values

(* The two DELETEs have no transaction. *)
DeleteValues(q) ==
  LET f == call[q].request.field IN
    /\ At(q, "deleteDefinition", "found")
    /\ values' = [k \in Fields \X Issues |-> IF k[1] = f THEN None ELSE values[k]]
    /\ Become(q, [call[q] EXCEPT !.step = "emptied"], {<<"values", f>>}, {<<"emptied", f>>})
    /\ Others /\ UNCHANGED fields

(* The foreign key of the values is RESTRICT. *)
DeleteDefinition(q) ==
  LET f == call[q].request.field IN
    /\ At(q, "deleteDefinition", "emptied")
    /\ IF ValuesOf(f) # {} THEN Answer(q, 500) /\ UNCHANGED fields
       ELSE /\ fields' = [fields EXCEPT ![f] = Gone]
            /\ AnswerWriting(q, 204, {<<"field", f>>})
    /\ Others /\ UNCHANGED values

-----------------------------------------------------------------------------
(* Values: any user may ask for them. *)

NoIssue(q) == ProjectOf[call[q].request.issue] = None

ListValues(q) ==
  /\ At(q, "listValues", "handler")
  /\ Answer(q, IF NoIssue(q) THEN 404 ELSE 200)
  /\ Others /\ UNCHANGED fieldVars

(* The issue and the definition are read together. *)
CheckValue(q) ==
  LET r == call[q].request IN
    /\ At(q, "setValue", "handler")
    /\ IF NoIssue(q) \/ ~Exists(r.field) THEN Answer(q, 404)
       ELSE IF fields[r.field].project # ProjectOf[r.issue] THEN Answer(q, 403)
       ELSE IF r.value \notin fields[r.field].allowed THEN Answer(q, 400)
       ELSE GotoReading(q, "value", {<<"field", r.field>>})
    /\ Others /\ UNCHANGED fieldVars

(* The row to save is the one there is, or a new one. *)
FindValue(q) ==
  LET r == call[q].request
      old == values[<<r.field, r.issue>>]
      Found(n) == Become(q, [call[q] EXCEPT !.step = "save", !.found = n],
                         {<<"value", r.field, r.issue>>}, {}) IN
    /\ At(q, "setValue", "value")
    /\ IF old # None THEN Found(old.row)
       ELSE FreeRows # {} /\ Found(CHOOSE n \in FreeRows : TRUE)
    /\ Others /\ UNCHANGED fieldVars

(* The table has one row for a field and an issue, and the field must exist. *)
ValueRefused(f, i, row) ==
  IF values[<<f, i>>] = None THEN ~Exists(f) ELSE values[<<f, i>>].row # row

(* A row that is not in the table is inserted, another updated. *)
SaveValue(q) ==
  LET r == call[q].request IN
    /\ At(q, "setValue", "save")
    /\ IF ValueRefused(r.field, r.issue, call[q].found)
         THEN Answer(q, 500) /\ UNCHANGED values
         ELSE /\ values' = [values EXCEPT ![<<r.field, r.issue>>] =
                   [row |-> call[q].found, value |-> r.value]]
              /\ AnswerWriting(q, 200, {<<"value", r.field, r.issue>>, <<"values", r.field>>})
    /\ Others /\ UNCHANGED fields

ClearValue(q) ==
  LET r == call[q].request IN
    /\ At(q, "clearValue", "handler")
    /\ IF NoIssue(q) THEN Answer(q, 404) /\ UNCHANGED values
       ELSE Answer(q, 204) /\ values' = [values EXCEPT ![<<r.field, r.issue>>] = None]
    /\ Others /\ UNCHANGED fields

Field(q) ==
  \/ ListDefinitions(q) \/ CreateDefinition(q) \/ FindDefinition(q) \/ UpdateDefinition(q)
  \/ DeleteValues(q) \/ DeleteDefinition(q)
  \/ ListValues(q) \/ CheckValue(q) \/ FindValue(q) \/ SaveValue(q) \/ ClearValue(q)
=============================================================================
