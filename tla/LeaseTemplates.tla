--------------------------- MODULE LeaseTemplates ---------------------------
(***************************************************************************)
(* The lease templates of an organization and which one is the default:    *)
(* app/billing/services.py, lines 303 to 461.                              *)
(*                                                                         *)
(* A request loads the template, writes and commits; the UPDATE that takes *)
(* the mark from the others waits for rows another request has written and *)
(* sees what was committed when it starts.  A row that is set to what it   *)
(* was loaded with is not written.                                         *)
(*                                                                         *)
(* Left out: names and texts, whose checks come before anything is done.   *)
(***************************************************************************)
EXTENDS FiniteSets

CONSTANTS Templates, Workers

VARIABLES
  template,   \* the committed rows: is_default of those that exist
  req         \* what each worker has written and not committed yet

vars == <<template, req>>

Idle == [op |-> "idle"]
Pending ==
  [op : {"create", "update"}, t : Templates, mark : BOOLEAN, cleared : SUBSET Templates] \cup
  [op : {"set"}, t : Templates, was : BOOLEAN, cleared : SUBSET Templates]

TemplatesTypeOK ==
  /\ \E S \in SUBSET Templates : template \in [S -> BOOLEAN]
  /\ req \in [Workers -> {Idle} \cup Pending]

Init == template = [t \in {} |-> FALSE] /\ req = [w \in Workers |-> Idle]

Rows == DOMAIN template

(* The rows a request has written: no other may write them before it ends. *)
Locked(w) == UNION {req[v].cleared \cup {req[v].t} :
                      v \in {x \in Workers \ {w} : req[x] # Idle}}

(* Writes of w: the mark is taken from "others", template t gets its own.  *)
Write(w, pending) ==
  /\ req[w] = Idle
  /\ (pending.cleared \cup {pending.t}) \cap Locked(w) = {}
  /\ req' = [req EXCEPT ![w] = pending] /\ UNCHANGED template

(* create_lease_template.                                                  *)
Create(w) ==
  \E t \in Templates \ (Rows \cup Locked(w)), mark \in BOOLEAN :
    Write(w, [op |-> "create", t |-> t, mark |-> mark,
              cleared |-> IF mark THEN Rows ELSE {}])

(* Seeded fault: the others keep their mark.                               *)
UpdateOneOnly(w) ==
  \E t \in Rows, mark \in BOOLEAN :
    Write(w, [op |-> "update", t |-> t, mark |-> mark, cleared |-> {}])

(* update_lease_template.                                                  *)
Update(w) ==
  \E t \in Rows, mark \in BOOLEAN :
    Write(w, [op |-> "update", t |-> t, mark |-> mark,
              cleared |-> IF mark THEN Rows \ {t} ELSE {}])

(* set_default_lease_template: the UPDATE takes the mark from every row,   *)
(* the template's own too.                                                 *)
SetDefault(w) ==
  \E t \in Rows :
    Write(w, [op |-> "set", t |-> t, was |-> template[t], cleared |-> Rows])

(* The template a request leaves marked or not.  "set" writes it only if   *)
(* it was loaded without the mark.                                         *)
MarkOf(p) == IF p.op = "set" THEN ~p.was ELSE p.mark

Commit(w) ==
  /\ req[w] # Idle
  /\ LET p == req[w]
     IN  template' = [t \in Rows \cup (IF p.op = "create" THEN {p.t} ELSE {}) |->
                        IF t = p.t THEN MarkOf(p)
                        ELSE template[t] /\ t \notin p.cleared]
  /\ req' = [req EXCEPT ![w] = Idle]

(* The process ends before the commit.                                     *)
Crash(w) ==
  /\ req[w] # Idle /\ req' = [req EXCEPT ![w] = Idle] /\ UNCHANGED template

(* delete_lease_template.                                                  *)
Delete(w) ==
  /\ req[w] = Idle
  /\ \E t \in Rows \ Locked(w) :
       template' = [s \in Rows \ {t} |-> template[s]]
  /\ UNCHANGED req

(* The four pages of the superadmin.                                       *)
TemplatePages(w) == Create(w) \/ Update(w) \/ SetDefault(w) \/ Delete(w)

Serve(w) == TemplatePages(w) \/ Commit(w) \/ Crash(w)

Next == \E w \in Workers : Serve(w)
Spec == Init /\ [][Next]_vars

-----------------------------------------------------------------------------
(* Of an organization's templates at most one is the default, over every   *)
(* order of creating, editing, choosing and deleting them, as long as one  *)
(* worker serves them (README.md: "vain yksi oletuspohja kerrallaan").     *)
AtMostOneDefault ==
  \A t, u \in Rows : template[t] /\ template[u] => t = u
=============================================================================
