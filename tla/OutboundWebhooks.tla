-------------------------- MODULE OutboundWebhooks --------------------------
(***************************************************************************)
(* Outgoing webhooks: app/webhooks/publisher.py, which hands a business    *)
(* event to the subscriptions of an organization, dispatch and             *)
(* retry_pending_deliveries of app/webhooks/services.py, and the retry job *)
(* of app/webhooks/scheduler.py.                                           *)
(*                                                                         *)
(* The first subscribers are served by the worker that publishes, the rest *)
(* by a thread pool whose queue is in memory only.  A POST takes up to     *)
(* four seconds, between what the sender has read of the subscription and  *)
(* what it commits; it writes the columns that differ from what it read.   *)
(*                                                                         *)
(* The receiver is external: it may refuse, or accept and have its answer  *)
(* lost, which is the same to the sender.  Left out: signatures, the       *)
(* delays between attempts (a delivery that waits may be due at any time), *)
(* attempt_number, which only chooses the delay.                           *)
(***************************************************************************)
EXTENDS Integers, FiniteSets, Sequences

CONSTANTS
  Subs,         \* subscriptions: their ids, numbers in the order of creation
  Events,       \* business events
  MaxFailures,  \* failures after which a subscription is disabled (5)
  SyncMax,      \* _SYNC_MAX_SUBSCRIBERS, 0 with WEBHOOK_PUBLISH_ASYNC
  Publishers,   \* web workers
  Executors,    \* threads of the publisher's pool
  Jobs          \* scheduler threads, one per process

ASSUME WebhooksAssumption ==
  /\ Subs \subseteq Nat
  /\ MaxFailures \in Nat \ {0}
  /\ SyncMax \in Nat
  /\ Publishers \cap Jobs = {} /\ Executors \cap Jobs = {}

VARIABLES
  sub,       \* the rows of webhook_subscriptions
  event,     \* whether an event has been published
  delivery,  \* the committed rows of webhook_deliveries
  queue,     \* the pool's queue
  req        \* what each thread is doing

vars == <<sub, event, delivery, queue, req>>

Threads    == Publishers \cup Executors \cup Jobs
Deliveries == Events \X Subs

(* A delivery that is "waiting" has next_retry_at, one that is "dropped"   *)
(* has neither that nor delivered_at.                                      *)
DeliveryStatus == {"none", "waiting", "delivered", "dropped"}
Subscription == [st : {"none", "active", "inactive"}, failures : 0..MaxFailures]

(* What is left of a round of POSTs: "first" attempts of one event, for    *)
(* whose later subscribers "tail" the pool is asked in the end, or a batch *)
(* of "retry" attempts.                                                    *)
Rounds == {"first", "retry"}
Idle == [op |-> "idle"]
Request ==
  {Idle}
    \cup [op : {"round"}, kind : Rounds, todo : SUBSET Deliveries,
          tail : SUBSET Deliveries]
    \cup [op : {"posting"}, kind : Rounds, todo : SUBSET Deliveries,
          tail : SUBSET Deliveries, d : Deliveries, seen : 0..MaxFailures]

TypeOK ==
  /\ sub      \in [Subs -> Subscription]
  /\ event    \in [Events -> BOOLEAN]
  /\ delivery \in [Deliveries -> DeliveryStatus]
  /\ queue    \in Seq(SUBSET Deliveries)
  /\ req      \in [Threads -> Request]

Init ==
  /\ sub      = [s \in Subs |-> [st |-> "none", failures |-> 0]]
  /\ event    = [e \in Events |-> FALSE]
  /\ delivery = [d \in Deliveries |-> "none"]
  /\ queue    = <<>>
  /\ req      = [t \in Threads |-> Idle]

-----------------------------------------------------------------------------
(* create_outbound_subscription and deactivate_outbound_subscription.      *)
Subscribe(s) ==
  /\ sub[s].st = "none"
  /\ sub' = [sub EXCEPT ![s].st = "active"]
  /\ UNCHANGED <<event, delivery, queue, req>>

Deactivate(s) ==
  /\ sub[s].st = "active"
  /\ sub' = [sub EXCEPT ![s].st = "inactive"]
  /\ UNCHANGED <<event, delivery, queue, req>>

(* publish looks up the active subscriptions in the order of their ids.    *)
Matching == {s \in Subs : sub[s].st = "active"}
FirstOf(subs) == {s \in subs : Cardinality({q \in subs : q < s}) < SyncMax}

Publish(w, e) ==
  /\ req[w] = Idle
  /\ ~event[e]
  /\ event' = [event EXCEPT ![e] = TRUE]
  /\ req' = [req EXCEPT ![w] =
       [op |-> "round", kind |-> "first",
        todo |-> {e} \X FirstOf(Matching),
        tail |-> {e} \X (Matching \ FirstOf(Matching))]]
  /\ UNCHANGED <<sub, delivery, queue>>

(* The administrator's test event: one subscription, in the request.       *)
SendTest(w, e, s) ==
  /\ req[w] = Idle
  /\ ~event[e]
  /\ sub[s].st = "active"
  /\ event' = [event EXCEPT ![e] = TRUE]
  /\ req' = [req EXCEPT ![w] =
       [op |-> "round", kind |-> "first", todo |-> {<<e, s>>}, tail |-> {}]]
  /\ UNCHANGED <<sub, delivery, queue>>

(* The pool takes a round for which publish had no time.                   *)
Take(x) ==
  /\ req[x] = Idle
  /\ queue # <<>>
  /\ queue' = Tail(queue)
  /\ req' = [req EXCEPT ![x] =
       [op |-> "round", kind |-> "first", todo |-> Head(queue), tail |-> {}]]
  /\ UNCHANGED <<sub, event, delivery>>

(* Seeded fault: what has arrived is due like the rest.                    *)
ReadDueAll(j, due) ==
  /\ req[j] = Idle
  /\ due # {}
  /\ \A d \in due : delivery[d] \in {"waiting", "delivered"}
  /\ req' = [req EXCEPT ![j] =
       [op |-> "round", kind |-> "retry", todo |-> due, tail |-> {}]]
  /\ UNCHANGED <<sub, event, delivery, queue>>

(* retry_pending_deliveries reads the deliveries that are due.             *)
ReadDue(j, due) ==
  /\ req[j] = Idle
  /\ due # {}
  /\ \A d \in due : delivery[d] = "waiting"
  /\ req' = [req EXCEPT ![j] =
       [op |-> "round", kind |-> "retry", todo |-> due, tail |-> {}]]
  /\ UNCHANGED <<sub, event, delivery, queue>>

(* First attempts go in the order of the ids, retries in that of the time. *)
IsNext(t, d) ==
  /\ req[t].op = "round"
  /\ d \in req[t].todo
  /\ req[t].kind = "first" => \A c \in req[t].todo : d[2] <= c[2]

(* Seeded fault: a disabled subscription is posted to like any other.      *)
PostAny(t, d) ==
  /\ IsNext(t, d)
  /\ sub[d[2]].st # "none"
  /\ req' = [req EXCEPT ![t] =
       [op |-> "posting", kind |-> @.kind, todo |-> @.todo \ {d},
        tail |-> @.tail, d |-> d, seen |-> sub[d[2]].failures]]
  /\ UNCHANGED <<sub, event, delivery, queue>>

(* The POST begins: dispatch after its checks, or the next retry.          *)
Post(t, d) ==
  /\ IsNext(t, d)
  /\ sub[d[2]].st = "active"
  /\ req' = [req EXCEPT ![t] =
       [op |-> "posting", kind |-> @.kind, todo |-> @.todo \ {d},
        tail |-> @.tail, d |-> d, seen |-> sub[d[2]].failures]]
  /\ UNCHANGED <<sub, event, delivery, queue>>

(* Seeded fault: a retry is passed over and stays scheduled.               *)
SkipOnly(t, d) ==
  /\ IsNext(t, d)
  /\ sub[d[2]].st # "active"
  /\ req' = [req EXCEPT ![t].todo = @ \ {d}]
  /\ UNCHANGED <<sub, event, delivery, queue>>

(* A subscription that has been disabled: dispatch raises, which the       *)
(* publisher logs, and a retry is called off.                              *)
Skip(t, d) ==
  /\ IsNext(t, d)
  /\ sub[d[2]].st # "active"
  /\ delivery' = IF req[t].kind = "retry" /\ delivery[d] = "waiting"
                 THEN [delivery EXCEPT ![d] = "dropped"] ELSE delivery
  /\ req' = [req EXCEPT ![t].todo = @ \ {d}]
  /\ UNCHANGED <<sub, event, queue>>

(* The commit after the receiver has answered, or the time is over.  The   *)
(* count is the one read before the POST plus one; a success only writes   *)
(* it when it has read another count than 0.                               *)
Accepted(t) ==
  LET d == req[t].d IN
  /\ req[t].op = "posting"
  /\ delivery' = [delivery EXCEPT ![d] = "delivered"]
  /\ sub' = [sub EXCEPT ![d[2]].failures = IF req[t].seen = 0 THEN @ ELSE 0]
  /\ req' = [req EXCEPT ![t] = [op |-> "round", kind |-> @.kind,
                                todo |-> @.todo, tail |-> @.tail]]
  /\ UNCHANGED <<event, queue>>

(* Seeded fault: one failure too many, at the limit itself.                *)
ReachedLate(n) == n > MaxFailures

Reached(n) == n >= MaxFailures

(* Seeded fault: at the limit the delivery ends, the subscription does not. *)
DisabledNever(row, n) == [row EXCEPT !.failures = n]

Disabled(row, n) ==
  [st |-> IF Reached(n) THEN "inactive" ELSE row.st, failures |-> n]

Refused(t) ==
  LET d == req[t].d
      n == req[t].seen + 1
  IN
  /\ req[t].op = "posting"
  /\ sub' = [sub EXCEPT ![d[2]] = Disabled(@, n)]
  /\ delivery' = [delivery EXCEPT ![d] =
                     IF @ = "delivered" THEN @
                     ELSE IF Reached(n) THEN "dropped" ELSE "waiting"]
  /\ req' = [req EXCEPT ![t] = [op |-> "round", kind |-> @.kind,
                                todo |-> @.todo, tail |-> @.tail]]
  /\ UNCHANGED <<event, queue>>

(* The round is over; publish now leaves the rest to the pool.             *)
Finish(t) ==
  /\ req[t].op = "round"
  /\ req[t].todo = {}
  /\ queue' = IF req[t].tail = {} THEN queue ELSE Append(queue, req[t].tail)
  /\ req' = [req EXCEPT ![t] = Idle]
  /\ UNCHANGED <<sub, event, delivery>>

(* A process ends, with the queue of its pool.                             *)
Underway(t) ==
  \/ req[t].op = "posting"
  \/ req[t].op = "round" /\ req[t].todo \cup req[t].tail # {}

Crash(t) ==
  /\ Underway(t) \/ (t \in Executors /\ queue # <<>>)
  /\ req' = [req EXCEPT ![t] = Idle]
  /\ queue' = IF t \in Executors THEN <<>> ELSE queue
  /\ UNCHANGED <<sub, event, delivery>>

Next ==
  \/ \E s \in Subs : Subscribe(s) \/ Deactivate(s)
  \/ \E w \in Publishers, e \in Events :
       Publish(w, e) \/ \E s \in Subs : SendTest(w, e, s)
  \/ \E x \in Executors : Take(x)
  \/ \E j \in Jobs, due \in SUBSET Deliveries : ReadDue(j, due)
  \/ \E t \in Threads :
       \/ \E d \in Deliveries : Post(t, d) \/ Skip(t, d)
       \/ Accepted(t) \/ Refused(t) \/ Finish(t) \/ Crash(t)

Spec == Init /\ [][Next]_vars

(* The retry job runs every minute and goes on with its batch, a waiting   *)
(* delivery is due sooner or later, and the job is not cut short for ever. *)
Fairness ==
  \A j \in Jobs :
    /\ WF_vars(Accepted(j) \/ Refused(j) \/ Finish(j)
                 \/ \E d \in Deliveries : Post(j, d) \/ Skip(j, d))
    /\ \A d \in Deliveries :
         SF_vars(\E due \in SUBSET Deliveries : d \in due /\ ReadDue(j, due))
    /\ <>[][~Crash(j)]_vars

FairSpec == Spec /\ Fairness

-----------------------------------------------------------------------------
(* Properties.                                                             *)

(* A delivery is only given up together with its subscription: no pair of  *)
(* requests and jobs, no crash and no lost count leaves one behind that    *)
(* has neither arrived nor a next attempt while the subscriber listens.    *)
OnlyDisabledAreDropped ==
  \A d \in Deliveries : delivery[d] = "dropped" => sub[d[2]].st = "inactive"

(* The last failure allowed disables the subscription in the same commit,  *)
(* so that an active one always has failures left.                         *)
LimitDisables ==
  \A s \in Subs : sub[s].failures >= MaxFailures => sub[s].st = "inactive"

(* With one retry job: what the receiver is known to have accepted is not  *)
(* posted to it again.                                                     *)
AcceptedIsNotReposted ==
  [][\A t \in Threads, d \in Deliveries :
       Post(t, d) => delivery[d] # "delivered"]_vars

(* After a subscription has been disabled, by hand or by its failures, its *)
(* deliveries all come to rest, those too whose POST was under way.        *)
DisabledComesToRest ==
  \A s \in Subs :
    sub[s].st = "inactive" ~> [](\A e \in Events : delivery[<<e, s>>] # "waiting")
=============================================================================
