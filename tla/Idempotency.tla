---------------------------- MODULE Idempotency ----------------------------
(***************************************************************************)
(* One Idempotency-Key and the requests that carry it:                     *)
(* app/idempotency/services.py and decorators.py, the daily job of         *)
(* scheduler.py, and the form of app/admin/routes.py that cancels several  *)
(* reservations at once.                                                   *)
(*                                                                         *)
(* The row of a key is inserted without a commit: the first commit of the  *)
(* view makes it visible, and until then the unique index makes another    *)
(* insert of the key wait.  A key is used with one endpoint.  A request    *)
(* takes far less time than a key lives (24 hours).                        *)
(*                                                                         *)
(* Left out: the text of answers and its redaction, the organization of    *)
(* the row, requests without a key, which are refused or get a fresh one.  *)
(***************************************************************************)
EXTENDS FiniteSetsExt, Integers

CONSTANTS
  Requests,   \* the threads that serve requests
  Bodies,     \* what the requests may say: the hashes of their bodies
  Ids         \* the reservations a bulk request names

IdempotencyAssumption ==
  /\ Ids \subseteq Nat /\ IsFiniteSet(Ids) /\ IsFiniteSet(Requests)

VARIABLES
  endpoint,   \* "checkout" or "bulk", the one the key is used with
  foreign,    \* the reservations that are another organization's
  row,        \* the committed row of idempotency_keys
  writer,     \* the requests that hold an uncommitted insert of the key
  req,        \* what each request is doing
  effects,    \* checkouts made under the present row
  cancelled   \* the reservations the bulk request has cancelled

vars == <<endpoint, foreign, row, writer, req, effects, cancelled>>

NoKey == [st |-> "none"]
Rows  == {NoKey} \cup
         [st : {"open", "answered"}, body : Bodies, live : BOOLEAN]
Idle  == [at |-> "idle"]
Reqs  == {Idle} \cup
         [at : {"view", "done", "refused"}, body : Bodies] \cup
         [at : {"loop"}, body : Bodies, left : SUBSET Ids]

IdempotencyTypeOK ==
  /\ endpoint \in {"checkout", "bulk"} /\ foreign \subseteq Ids
  /\ row \in Rows /\ writer \subseteq Requests /\ req \in [Requests -> Reqs]
  /\ effects \in 0..Cardinality(Requests) /\ cancelled \subseteq Ids

Init ==
  /\ endpoint \in {"checkout", "bulk"} /\ foreign \in SUBSET Ids
  /\ row = NoKey /\ writer = {} /\ req = [r \in Requests |-> Idle]
  /\ effects = 0 /\ cancelled = {}

Live == row.st # "none" /\ row.live

(* Seeded fault: the schema has no unique index on the key.                *)
MayInsertUnindexed == ~Live

(* get_or_create: no row, or one that has expired and is replaced.  While  *)
(* another insert of the key is uncommitted this one waits.                *)
MayInsert == ~Live /\ writer = {}

Start(b) ==
  IF endpoint = "bulk" THEN [at |-> "loop", body |-> b, left |-> Ids]
                       ELSE [at |-> "view", body |-> b]

(* The key is new: the request goes on to its view.                        *)
Insert(r) ==
  /\ req[r] = Idle /\ MayInsert
  /\ \E b \in Bodies : req' = [req EXCEPT ![r] = Start(b)]
  /\ writer' = writer \cup {r}
  /\ UNCHANGED <<endpoint, foreign, row, effects, cancelled>>

(* The bulk form goes on when the key is there and has no answer yet;      *)
(* idempotent_post answers 503.  The other answers (the recorded one, 409  *)
(* for another body) change nothing.                                       *)
GoOnWithOpenKey(r) ==
  /\ endpoint = "bulk" /\ req[r] = Idle /\ Live /\ row.st = "open"
  /\ req' = [req EXCEPT ![r] = Start(row.body)]
  /\ UNCHANGED <<endpoint, foreign, row, writer, effects, cancelled>>

-----------------------------------------------------------------------------
(* The view of a checkout.                                                 *)

(* A commit of r carries the insert it may still hold; the expired row it  *)
(* replaces goes with it.                                                  *)
Committed(r, b) ==
  IF r \in writer THEN [st |-> "open", body |-> b, live |-> TRUE] ELSE row

(* create_checkout has its session from the provider and commits the       *)
(* payment, and the key with it.                                           *)
ViewCommit(r) ==
  /\ req[r].at = "view"
  /\ row' = Committed(r, req[r].body) /\ writer' = writer \ {r}
  /\ effects' = effects + 1
  /\ req' = [req EXCEPT ![r] = [at |-> "done", body |-> @.body]]
  /\ UNCHANGED <<endpoint, foreign, cancelled>>

(* create_checkout refuses the invoice or the provider: 400, 403, 404, 503.*)
ViewRefuse(r) ==
  /\ req[r].at = "view"
  /\ req' = [req EXCEPT ![r] = [at |-> "refused", body |-> @.body]]
  /\ UNCHANGED <<endpoint, foreign, row, writer, effects, cancelled>>

(* record_response: the answer is kept with the key, an error that may     *)
(* pass (5xx, 4xx but 422) takes the key away.                             *)
Record(r) ==
  /\ req[r].at \in {"done", "refused"}
  /\ IF req[r].at = "refused" THEN row' = NoKey ELSE
       row' = [Committed(r, req[r].body) EXCEPT !.st = "answered"]
  /\ writer' = writer \ {r} /\ req' = [req EXCEPT ![r] = Idle]
  /\ UNCHANGED <<endpoint, foreign, effects, cancelled>>

(* The view or record_response raises, or the process dies: what was not   *)
(* committed is undone, a committed key stays without an answer.           *)
Break(r) ==
  /\ req[r] # Idle
  /\ writer' = writer \ {r} /\ req' = [req EXCEPT ![r] = Idle]
  /\ UNCHANGED <<endpoint, foreign, row, effects, cancelled>>

-----------------------------------------------------------------------------
(* The bulk form: reservations_bulk with the action "cancel".              *)

(* The lowest id first, each with commits of its own; the first of these   *)
(* also commits the key.  A reservation of another organization ends the   *)
(* request with 403, and the key stays open.                               *)
BulkCancel(r) ==
  /\ req[r].at = "loop" /\ req[r].left # {}
  /\ LET i == Min(req[r].left)
     IN  IF i \in foreign
         THEN /\ req' = [req EXCEPT ![r] = Idle]
              /\ UNCHANGED <<row, cancelled>>
         ELSE /\ req' = [req EXCEPT ![r].left = @ \ {i}]
              /\ row' = Committed(r, req[r].body)
              /\ cancelled' = cancelled \cup {i}
  /\ writer' = writer \ {r}
  /\ UNCHANGED <<endpoint, foreign, effects>>

(* All are cancelled: the answer is kept with the key.  If the key is gone *)
(* meanwhile nothing is kept.                                              *)
BulkRecord(r) ==
  /\ req[r].at = "loop" /\ req[r].left = {}
  /\ row' = LET c == Committed(r, req[r].body)
            IN  IF c.st = "none" THEN c ELSE [c EXCEPT !.st = "answered"]
  /\ writer' = writer \ {r} /\ req' = [req EXCEPT ![r] = Idle]
  /\ UNCHANGED <<endpoint, foreign, effects, cancelled>>

-----------------------------------------------------------------------------
(* 24 hours pass.                                                          *)
Expire ==
  /\ Live /\ \A r \in Requests : req[r] = Idle
  /\ row' = [row EXCEPT !.live = FALSE] /\ effects' = 0
  /\ UNCHANGED <<endpoint, foreign, writer, req, cancelled>>

(* The daily job (prune_expired) deletes the expired rows.  The row that a *)
(* request is replacing is locked until that request commits.              *)
Prune ==
  /\ row.st # "none" /\ ~row.live /\ writer = {}
  /\ row' = NoKey
  /\ UNCHANGED <<endpoint, foreign, writer, req, effects, cancelled>>

Serve(r) ==
  \/ Insert(r) \/ GoOnWithOpenKey(r)
  \/ ViewCommit(r) \/ ViewRefuse(r) \/ Record(r)
  \/ BulkCancel(r) \/ BulkRecord(r) \/ Break(r)

Next == Expire \/ Prune \/ \E r \in Requests : Serve(r)

Spec == Init /\ [][Next]_vars

-----------------------------------------------------------------------------
(* A client that repeats its checkout with the same key, because the       *)
(* answer was lost or late, gets at most one checkout while the key lives, *)
(* whatever fails on the way (idempotent_post, get_or_create).             *)
OneCheckoutPerKey == Live => effects <= 1

(* An answer that is replayed is true: the checkout it reports was made,   *)
(* and of the reservations it counts none is left (record_response).       *)
ReplayedAnswerIsTrue ==
  Live /\ row.st = "answered" =>
    IF endpoint = "bulk" THEN Ids \subseteq cancelled ELSE effects = 1

(* What a key promises to the client that repeats a request.               *)
KeysAreSound == OneCheckoutPerKey /\ ReplayedAnswerIsTrue
=============================================================================
