----------------------- MODULE OutboundWebhooksProofs -----------------------
(***************************************************************************)
(* What holds of OutboundWebhooks for any number of subscriptions, events, *)
(* workers, pool threads and jobs, and for every limit of failures.        *)
(*                                                                         *)
(* CountInv: a POST only begins with failures left, so that the count it   *)
(* commits, though others may have committed theirs meanwhile, is at most  *)
(* the limit, and disables the subscription when it is the limit.          *)
(***************************************************************************)
EXTENDS OutboundWebhooks, TLAPS

(* A POST under way has begun with failures left.                          *)
FailuresLeft ==
  \A t \in Threads : req[t].op = "posting" => req[t].seen < MaxFailures

(* Only subscriptions that exist are posted to.                            *)
Known ==
  /\ \A d \in Deliveries : delivery[d] # "none" => sub[d[2]].st # "none"
  /\ \A t \in Threads : req[t].op = "posting" => sub[req[t].d[2]].st # "none"

CountInv ==
  TypeOK /\ FailuresLeft /\ Known /\ OnlyDisabledAreDropped /\ LimitDisables

-----------------------------------------------------------------------------
LEMMA RequestFields ==
  ASSUME NEW q \in Request
  PROVE  /\ q.op \in {"idle", "round", "posting"}
         /\ q.op # "idle" => /\ q.kind \in Rounds
                             /\ q.todo \in SUBSET Deliveries
                             /\ q.tail \in SUBSET Deliveries
         /\ q.op = "posting" => q.d \in Deliveries /\ q.seen \in 0..MaxFailures
  BY DEF Request, Idle

(* What a thread may turn to.                                              *)
LEMMA RoundIsRequest ==
  ASSUME NEW k \in Rounds, NEW todo \in SUBSET Deliveries,
         NEW tail \in SUBSET Deliveries
  PROVE  [op |-> "round", kind |-> k, todo |-> todo, tail |-> tail] \in Request
  BY DEF Request

LEMMA PostIsRequest ==
  ASSUME NEW k \in Rounds, NEW todo \in SUBSET Deliveries,
         NEW tail \in SUBSET Deliveries, NEW d \in Deliveries,
         NEW n \in 0..MaxFailures
  PROVE  [op |-> "posting", kind |-> k, todo |-> todo, tail |-> tail,
          d |-> d, seen |-> n] \in Request
  BY DEF Request

(* A thread that posts nothing afterwards disturbs nothing, if rows and    *)
(* subscriptions stay as they are.                                         *)
LEMMA QuietStep ==
  ASSUME CountInv, NEW t \in Threads, NEW q \in Request, q.op # "posting",
         req' = [req EXCEPT ![t] = q], queue' \in Seq(SUBSET Deliveries),
         event' \in [Events -> BOOLEAN], UNCHANGED <<sub, delivery>>
  PROVE  CountInv'
<1>1. TypeOK'
  BY DEF CountInv, TypeOK
<1>2. FailuresLeft'
  BY DEF CountInv, FailuresLeft, TypeOK
<1>3. Known'
  BY DEF CountInv, Known, TypeOK
<1>4. QED
  BY <1>1, <1>2, <1>3 DEF CountInv, OnlyDisabledAreDropped, LimitDisables

(* The end of a POST: one row, and its subscription.                       *)
LEMMA CommitStep ==
  ASSUME CountInv, NEW t \in Threads, req[t].op = "posting",
         NEW d \in Deliveries, d = req[t].d,
         NEW new \in {"waiting", "delivered", "dropped"}, NEW row \in Subscription,
         delivery' = [delivery EXCEPT ![d] = new],
         sub' = [sub EXCEPT ![d[2]] = row],
         row.st = sub[d[2]].st \/ row.st = "inactive",
         new = "dropped" => row.st = "inactive" \/ delivery[d] = "dropped",
         row.failures >= MaxFailures => row.st = "inactive",
         req' = [req EXCEPT ![t] = [op |-> "round", kind |-> req[t].kind,
                                    todo |-> req[t].todo, tail |-> req[t].tail]],
         UNCHANGED <<event, queue>>
  PROVE  CountInv'
<1>0. d[2] \in Subs /\ sub[d[2]].st # "none" /\ row.st # "none"
  BY DEF CountInv, Known, Deliveries
<1>1. TypeOK'
  <2>1. [op |-> "round", kind |-> req[t].kind, todo |-> req[t].todo,
         tail |-> req[t].tail] \in Request
    BY RoundIsRequest, RequestFields DEF CountInv, TypeOK
  <2>2. QED
    BY <1>0, <2>1 DEF CountInv, TypeOK, DeliveryStatus
<1>2. FailuresLeft'
  BY DEF CountInv, FailuresLeft, TypeOK
<1>3. \A s \in Subs : /\ sub[s].st # "none" => sub'[s].st # "none"
                      /\ sub[s].st = "inactive" => sub'[s].st = "inactive"
  BY <1>0 DEF CountInv, TypeOK
<1>4. Known'
  <2>1. \A c \in Deliveries : c[2] \in Subs
    BY DEF Deliveries
  <2>2. ASSUME NEW c \in Deliveries, delivery'[c] # "none" PROVE sub'[c[2]].st # "none"
    BY <1>0, <1>3, <2>1, <2>2 DEF CountInv, Known, TypeOK
  <2>3. ASSUME NEW u \in Threads, req'[u].op = "posting"
        PROVE  sub'[req'[u].d[2]].st # "none"
    <3>1. u # t /\ req'[u] = req[u]
      BY <2>3 DEF CountInv, TypeOK
    <3>2. req[u].d \in Deliveries
      BY <2>3, <3>1, RequestFields DEF CountInv, TypeOK
    <3>3. QED
      BY <1>3, <2>1, <2>3, <3>1, <3>2 DEF CountInv, Known
  <2>4. QED
    BY <2>2, <2>3 DEF Known
<1>5. OnlyDisabledAreDropped'
  <2>1. ASSUME NEW c \in Deliveries, delivery'[c] = "dropped"
        PROVE  sub'[c[2]].st = "inactive"
    <3>1. c[2] \in Subs
      BY DEF Deliveries
    <3>2. CASE c = d
      BY <1>0, <1>3, <2>1, <3>1, <3>2 DEF CountInv, TypeOK, OnlyDisabledAreDropped
    <3>3. CASE c # d
      BY <1>3, <2>1, <3>1, <3>3 DEF CountInv, TypeOK, OnlyDisabledAreDropped
    <3>4. QED
      BY <3>2, <3>3
  <2>2. QED
    BY <2>1 DEF OnlyDisabledAreDropped
<1>6. LimitDisables'
  BY <1>0 DEF CountInv, TypeOK, LimitDisables
<1>7. QED
  BY <1>1, <1>2, <1>4, <1>5, <1>6 DEF CountInv

LEMMA CountStep == CountInv /\ [Next]_vars => CountInv'
<1> SUFFICES ASSUME CountInv, [Next]_vars PROVE CountInv'
  OBVIOUS
<1> USE WebhooksAssumption
<1>0. TypeOK /\ \A t \in Threads : req[t] \in Request
  BY DEF CountInv, TypeOK
<1>1. CASE UNCHANGED vars
  BY <1>1 DEF vars, CountInv, TypeOK, FailuresLeft, Known, OnlyDisabledAreDropped,
              LimitDisables
<1>2. ASSUME NEW s \in Subs, Subscribe(s) \/ Deactivate(s) PROVE CountInv'
  <2>1. PICK st \in {"active", "inactive"} :
          /\ sub' = [sub EXCEPT ![s].st = st]
          /\ sub[s].st # "inactive"
          /\ UNCHANGED <<event, delivery, queue, req>>
    BY <1>2 DEF Subscribe, Deactivate
  <2>2. \A q \in Subs : /\ sub'[q] \in Subscription
                        /\ sub[q].st # "none" => sub'[q].st # "none"
                        /\ sub[q].st = "inactive" => sub'[q].st = "inactive"
                        /\ sub'[q].failures = sub[q].failures
    BY <1>0, <2>1 DEF TypeOK, Subscription
  <2>3. TypeOK'
    BY <1>0, <2>1, <2>2 DEF TypeOK
  <2>4. \A d \in Deliveries : d[2] \in Subs
    BY DEF Deliveries
  <2>5. Known'
    <3>1. ASSUME NEW u \in Threads, req[u].op = "posting"
          PROVE  sub'[req[u].d[2]].st # "none"
      <4>1. req[u].d \in Deliveries
        BY <1>0, <3>1, RequestFields
      <4>2. QED
        BY <2>2, <2>4, <3>1, <4>1 DEF CountInv, Known
    <3>2. QED
      BY <2>1, <2>2, <2>4, <3>1 DEF CountInv, Known
  <2>6. OnlyDisabledAreDropped' /\ LimitDisables' /\ FailuresLeft'
    BY <2>1, <2>2, <2>4 DEF CountInv, OnlyDisabledAreDropped, LimitDisables, FailuresLeft
  <2>7. QED
    BY <2>3, <2>5, <2>6 DEF CountInv
<1>3. ASSUME NEW w \in Publishers, NEW e \in Events, Publish(w, e) PROVE CountInv'
  <2> DEFINE todo == {e} \X FirstOf(Matching)
             tail == {e} \X (Matching \ FirstOf(Matching))
             q == [op |-> "round", kind |-> "first", todo |-> todo, tail |-> tail]
  <2>1. todo \in SUBSET Deliveries /\ tail \in SUBSET Deliveries
    BY DEF FirstOf, Matching, Deliveries
  <2>2. q \in Request /\ q.op = "round"
    BY <2>1, RoundIsRequest DEF Rounds
  <2>3. req' = [req EXCEPT ![w] = q] /\ w \in Threads
    BY <1>3 DEF Publish, Threads
  <2> HIDE DEF q
  <2>4. QED
    BY <1>0, <1>3, <2>2, <2>3, QuietStep DEF Publish, TypeOK
<1>4. ASSUME NEW w \in Publishers, NEW e \in Events, NEW s \in Subs, SendTest(w, e, s)
      PROVE  CountInv'
  <2> DEFINE q == [op |-> "round", kind |-> "first", todo |-> {<<e, s>>}, tail |-> {}]
  <2>1. q \in Request /\ q.op = "round"
    BY RoundIsRequest DEF Rounds, Deliveries
  <2>2. req' = [req EXCEPT ![w] = q] /\ w \in Threads
    BY <1>4 DEF SendTest, Threads
  <2> HIDE DEF q
  <2>3. QED
    BY <1>0, <1>4, <2>1, <2>2, QuietStep DEF SendTest, TypeOK
<1>5. ASSUME NEW x \in Executors, Take(x) PROVE CountInv'
  <2> DEFINE q == [op |-> "round", kind |-> "first", todo |-> Head(queue), tail |-> {}]
  <2>1. Head(queue) \in SUBSET Deliveries /\ queue' \in Seq(SUBSET Deliveries)
    BY <1>0, <1>5 DEF Take, TypeOK
  <2>2. q \in Request /\ q.op = "round"
    BY <2>1, RoundIsRequest DEF Rounds
  <2>3. req' = [req EXCEPT ![x] = q] /\ x \in Threads
    BY <1>5 DEF Take, Threads
  <2> HIDE DEF q
  <2>4. QED
    BY <1>0, <1>5, <2>1, <2>2, <2>3, QuietStep DEF Take, TypeOK
<1>6. ASSUME NEW j \in Jobs, NEW due \in SUBSET Deliveries, ReadDue(j, due)
      PROVE  CountInv'
  <2> DEFINE q == [op |-> "round", kind |-> "retry", todo |-> due, tail |-> {}]
  <2>1. q \in Request /\ q.op = "round"
    BY RoundIsRequest DEF Rounds
  <2>2. req' = [req EXCEPT ![j] = q] /\ j \in Threads
    BY <1>6 DEF ReadDue, Threads
  <2> HIDE DEF q
  <2>3. QED
    BY <1>0, <1>6, <2>1, <2>2, QuietStep DEF ReadDue, TypeOK
<1>7. ASSUME NEW t \in Threads, NEW d \in Deliveries, Post(t, d) PROVE CountInv'
  <2> DEFINE q == [op |-> "posting", kind |-> req[t].kind, todo |-> req[t].todo \ {d},
                   tail |-> req[t].tail, d |-> d, seen |-> sub[d[2]].failures]
  <2>1. /\ d[2] \in Subs /\ sub[d[2]] \in Subscription /\ sub[d[2]].st = "active"
        /\ sub[d[2]].failures < MaxFailures
    <3>1. d[2] \in Subs /\ sub[d[2]] \in Subscription /\ sub[d[2]].st = "active"
      BY <1>0, <1>7 DEF Post, Deliveries, TypeOK
    <3>2. ~(sub[d[2]].failures >= MaxFailures)
      BY <3>1 DEF CountInv, LimitDisables
    <3>3. QED
      BY <3>1, <3>2 DEF Subscription
  <2>2. q \in Request
    BY <1>0, <1>7, <2>1, PostIsRequest, RequestFields DEF Post, IsNext, Subscription
  <2>3. q.d = d /\ q.seen < MaxFailures
    BY <2>1
  <2>4. req' = [req EXCEPT ![t] = q] /\ UNCHANGED <<sub, event, delivery, queue>>
    BY <1>7 DEF Post
  <2> HIDE DEF q
  <2>5. TypeOK' /\ FailuresLeft'
    BY <1>0, <2>2, <2>3, <2>4 DEF TypeOK, CountInv, FailuresLeft
  <2>6. Known'
    BY <1>0, <2>1, <2>3, <2>4 DEF TypeOK, CountInv, Known
  <2>7. QED
    BY <2>4, <2>5, <2>6 DEF CountInv, OnlyDisabledAreDropped, LimitDisables
<1>8. ASSUME NEW t \in Threads, NEW d \in Deliveries, Skip(t, d) PROVE CountInv'
  <2> DEFINE q == [req[t] EXCEPT !.todo = @ \ {d}]
  <2>1. req[t].op = "round" /\ req[t].todo \in SUBSET Deliveries
    BY <1>0, <1>8, RequestFields DEF Skip, IsNext
  <2>2. q \in Request /\ q.op = "round"
    BY <1>0, <2>1 DEF Request, Idle
  <2>3. req' = [req EXCEPT ![t] = q] /\ UNCHANGED <<sub, event, queue>>
    BY <1>8 DEF Skip
  <2> HIDE DEF q
  <2>4. /\ d[2] \in Subs
        /\ \A c \in Deliveries :
             delivery'[c] = delivery[c]
               \/ (c = d /\ delivery[d] = "waiting" /\ delivery'[d] = "dropped")
        /\ delivery' \in [Deliveries -> DeliveryStatus]
    BY <1>0, <1>8 DEF Skip, TypeOK, DeliveryStatus, Deliveries
  <2>5. delivery[d] = "waiting" => sub[d[2]].st = "inactive"
    BY <1>0, <1>8, <2>4 DEF Skip, CountInv, Known, TypeOK, Subscription
  <2>6. TypeOK' /\ FailuresLeft'
    BY <1>0, <2>2, <2>3, <2>4 DEF TypeOK, CountInv, FailuresLeft
  <2>7. Known'
    BY <1>0, <2>2, <2>3, <2>4 DEF TypeOK, CountInv, Known
  <2>8. OnlyDisabledAreDropped' /\ LimitDisables'
    BY <2>3, <2>4, <2>5 DEF CountInv, OnlyDisabledAreDropped, LimitDisables
  <2>9. QED
    BY <2>6, <2>7, <2>8 DEF CountInv
<1>9. ASSUME NEW t \in Threads, Accepted(t) PROVE CountInv'
  <2> DEFINE d == req[t].d
             row == [sub[d[2]] EXCEPT !.failures = IF req[t].seen = 0 THEN @ ELSE 0]
  <2>1. d \in Deliveries /\ d[2] \in Subs /\ sub[d[2]] \in Subscription
    BY <1>0, <1>9, RequestFields DEF Accepted, Deliveries, TypeOK
  <2>2. /\ row \in Subscription /\ row.st = sub[d[2]].st
        /\ row.failures \in {0, sub[d[2]].failures}
    BY <2>1 DEF Subscription
  <2>3. row.failures >= MaxFailures => row.st = "inactive"
    BY <2>1, <2>2 DEF CountInv, LimitDisables
  <2>4. sub' = [sub EXCEPT ![d[2]] = row]
    BY <1>0, <1>9, <2>1 DEF Accepted, TypeOK
  <2>5. /\ req[t].op = "posting"
        /\ delivery' = [delivery EXCEPT ![d] = "delivered"]
        /\ req' = [req EXCEPT ![t] = [op |-> "round", kind |-> req[t].kind,
                                      todo |-> req[t].todo, tail |-> req[t].tail]]
        /\ UNCHANGED <<event, queue>>
    BY <1>9 DEF Accepted
  <2> HIDE DEF row
  <2>6. QED
    BY <2>1, <2>2, <2>3, <2>4, <2>5, CommitStep
<1>10. ASSUME NEW t \in Threads, Refused(t) PROVE CountInv'
  <2> DEFINE d == req[t].d
             n == req[t].seen + 1
             row == Disabled(sub[d[2]], n)
             new == IF delivery[d] = "delivered" THEN "delivered"
                    ELSE IF Reached(n) THEN "dropped" ELSE "waiting"
  <2>1. /\ d = req[t].d
        /\ d \in Deliveries /\ d[2] \in Subs /\ sub[d[2]] \in Subscription
        /\ req[t].seen \in 0..MaxFailures /\ req[t].seen < MaxFailures
    BY <1>0, <1>10, RequestFields DEF Refused, Deliveries, TypeOK, CountInv, FailuresLeft
  <2>2. n \in 0..MaxFailures
    BY <2>1
  <2>3. /\ row \in Subscription
        /\ row.st = sub[d[2]].st \/ row.st = "inactive"
        /\ row.failures >= MaxFailures => row.st = "inactive"
        /\ Reached(n) => row.st = "inactive"
    BY <2>1, <2>2 DEF Disabled, Reached, Subscription
  <2>4. /\ new \in {"waiting", "delivered", "dropped"}
        /\ new = "dropped" => row.st = "inactive"
    BY <2>3
  <2>5. /\ req[t].op = "posting"
        /\ sub' = [sub EXCEPT ![d[2]] = row]
        /\ delivery' = [delivery EXCEPT ![d] = new]
        /\ req' = [req EXCEPT ![t] = [op |-> "round", kind |-> req[t].kind,
                                      todo |-> req[t].todo, tail |-> req[t].tail]]
        /\ UNCHANGED <<event, queue>>
    BY <1>0, <1>10, <2>1 DEF Refused, TypeOK
  <2> HIDE DEF row, new, n, d
  <2>6. QED
    BY <2>1, <2>3, <2>4, <2>5, CommitStep
<1>11. ASSUME NEW t \in Threads, Finish(t) \/ Crash(t) PROVE CountInv'
  <2>1. Idle \in Request /\ Idle.op # "posting"
    BY DEF Request, Idle
  <2>2. queue' \in Seq(SUBSET Deliveries)
    <3>1. CASE Crash(t)
      BY <1>0, <3>1 DEF Crash, TypeOK
    <3>2. CASE Finish(t)
      <4>1. req[t].tail \in SUBSET Deliveries
        BY <1>0, <3>2, RequestFields DEF Finish
      <4>2. QED
        BY <1>0, <3>2, <4>1 DEF Finish, TypeOK
    <3>3. QED
      BY <1>11, <3>1, <3>2
  <2>3. req' = [req EXCEPT ![t] = Idle] /\ UNCHANGED <<sub, event, delivery>>
    BY <1>11 DEF Finish, Crash
  <2>4. QED
    BY <1>0, <2>1, <2>2, <2>3, QuietStep DEF TypeOK
<1>12. QED
  BY <1>1, <1>2, <1>3, <1>4, <1>5, <1>6, <1>7, <1>8, <1>9, <1>10, <1>11 DEF Next

LEMMA CountInvariance == Spec => []CountInv
<1>1. Init => CountInv
  BY WebhooksAssumption DEF Init, CountInv, TypeOK, FailuresLeft, Known, DeliveryStatus,
     Subscription, Request, Idle, OnlyDisabledAreDropped, LimitDisables
<1>2. QED
  BY <1>1, CountStep, PTL DEF Spec

(* The rows, the queue of the pool and what each thread does are typed at  *)
(* every moment.                                                           *)
THEOREM TypeCorrect == Spec => []TypeOK
<1>1. CountInv => TypeOK
  BY DEF CountInv
<1>2. QED
  BY <1>1, CountInvariance, PTL

(* Whoever posts at the same time: a delivery is only given up together    *)
(* with its subscription.                                                  *)
THEOREM DroppedOnlyWhenDisabled == Spec => []OnlyDisabledAreDropped
<1>1. CountInv => OnlyDisabledAreDropped
  BY DEF CountInv
<1>2. QED
  BY <1>1, CountInvariance, PTL

(* The last failure allowed disables a subscription, though counts of      *)
(* others may have been lost.                                              *)
THEOREM DisabledAtLimit == Spec => []LimitDisables
<1>1. CountInv => LimitDisables
  BY DEF CountInv
<1>2. QED
  BY <1>1, CountInvariance, PTL

-----------------------------------------------------------------------------
(* With one retry job.  A delivery that is claimed for a first attempt, by *)
(* a thread or in the pool's queue, is claimed once and has no row yet; a  *)
(* delivery that is claimed for a retry has not arrived.  As an event is   *)
(* published once and a row is written when the claim is given up, the two *)
(* never meet.                                                             *)
OneJob == \A i, j \in Jobs : i = j

Claim(q, kind) ==
  IF q.op = "idle" \/ q.kind # kind THEN {}
  ELSE IF q.op = "posting" THEN {q.d} \cup q.todo \cup q.tail
  ELSE q.todo \cup q.tail
First(t) == Claim(req[t], "first")
Again(t) == Claim(req[t], "retry")

(* What a round holds, it holds once.                                      *)
Once(q) ==
  /\ q.op # "idle" => q.todo \cap q.tail = {}
  /\ q.op = "posting" => q.d \notin q.todo \cup q.tail

Untried(d) == delivery[d] = "none" /\ event[d[1]]

ClaimInv ==
  /\ \A t \in Threads : Once(req[t])
  /\ \A t \in Threads :
       req[t].op # "idle" /\ req[t].kind = "retry" => t \in Jobs /\ req[t].tail = {}
  /\ \A t \in Threads : \A d \in First(t) : Untried(d)
  /\ \A t \in Threads : \A d \in Again(t) : delivery[d] \in {"waiting", "dropped"}
  /\ \A t, u \in Threads : t # u => First(t) \cap First(u) = {}
  /\ \A i \in 1..Len(queue) : \A d \in queue[i] : Untried(d)
  /\ \A i \in 1..Len(queue), t \in Threads : First(t) \cap queue[i] = {}
  /\ \A i, k \in 1..Len(queue) : i # k => queue[i] \cap queue[k] = {}

LEMMA ClaimFields ==
  ASSUME NEW q \in Request, NEW kind \in Rounds
  PROVE  Claim(q, kind) \in SUBSET Deliveries
  BY RequestFields DEF Claim

(* A thread gives up some of its claims and makes no new ones: only rows   *)
(* of what it gives up are written.                                        *)
LEMMA GiveUp ==
  ASSUME TypeOK, OneJob, ClaimInv, NEW t \in Threads, NEW q \in Request,
         req' = [req EXCEPT ![t] = q], Once(q),
         q.op # "idle" => /\ req[t].op # "idle"
                          /\ q.kind = req[t].kind /\ q.tail = req[t].tail,
         Claim(q, "first") \subseteq First(t), Claim(q, "retry") \subseteq Again(t),
         \A d \in Deliveries :
           \/ delivery'[d] = delivery[d]
           \/ d \in First(t) \ Claim(q, "first")
           \/ d \in Again(t) \ Claim(q, "retry"),
         event' = event, queue' = queue \/ queue' = <<>>
  PROVE  ClaimInv'
<1>1. /\ req'[t] = q
      /\ \A u \in Threads : u # t => req'[u] = req[u]
      /\ \A u \in Threads : req[u] \in Request
  BY DEF TypeOK
<1>2. \A u \in Threads : First(u) \subseteq Deliveries /\ Again(u) \subseteq Deliveries
  BY <1>1, ClaimFields DEF First, Again, Rounds
<1>3. /\ \A u \in Threads : First(u)' \subseteq First(u) /\ Again(u)' \subseteq Again(u)
      /\ First(t)' = Claim(q, "first") /\ Again(t)' = Claim(q, "retry")
  BY <1>1 DEF First, Again
<1>4. \A u \in Threads : Again(u) # {} => u \in Jobs
  BY DEF ClaimInv, Again, Claim
<1>5. \A u \in Threads : \A d \in First(u)' : Untried(d)'
  <2>1. ASSUME NEW u \in Threads, NEW d \in First(u)' PROVE Untried(d)'
    <3>1. d \in First(u) /\ d \in Deliveries /\ Untried(d)
      BY <1>2, <1>3, <2>1 DEF ClaimInv
    <3>2. d \notin First(t) \ Claim(q, "first")
      BY <1>3, <2>1, <3>1 DEF ClaimInv
    <3>3. d \notin Again(t)
      BY <3>1 DEF ClaimInv, Untried
    <3>4. QED
      BY <3>1, <3>2, <3>3 DEF Untried
  <2>2. QED
    BY <2>1
<1>6. \A u \in Threads : \A d \in Again(u)' : delivery'[d] \in {"waiting", "dropped"}
  <2>1. ASSUME NEW u \in Threads, NEW d \in Again(u)'
        PROVE  delivery'[d] \in {"waiting", "dropped"}
    <3>1. d \in Again(u) /\ d \in Deliveries /\ delivery[d] \in {"waiting", "dropped"}
      BY <1>2, <1>3, <2>1 DEF ClaimInv
    <3>2. d \notin First(t)
      BY <3>1 DEF ClaimInv, Untried
    <3>3. d \notin Again(t) \ Claim(q, "retry")
      BY <1>3, <1>4, <2>1, <3>1 DEF OneJob
    <3>4. QED
      BY <3>1, <3>2, <3>3
  <2>2. QED
    BY <2>1
<1>0. \A i \in 1..Len(queue') : i \in 1..Len(queue) /\ queue'[i] = queue[i]
  OBVIOUS
<1>7. \A i \in 1..Len(queue') : \A d \in queue'[i] : Untried(d)'
  <2>1. ASSUME NEW i \in 1..Len(queue'), NEW d \in queue'[i] PROVE Untried(d)'
    <3>0. i \in 1..Len(queue) /\ d \in queue[i]
      BY <1>0
    <3>1. d \in Deliveries /\ Untried(d) /\ d \notin First(t) /\ d \notin Again(t)
      BY <3>0 DEF ClaimInv, TypeOK, Untried
    <3>2. QED
      BY <3>1 DEF Untried
  <2>2. QED
    BY <2>1
<1>8. /\ \A u \in Threads : Once(req'[u])
      /\ \A u \in Threads : req'[u].op # "idle" /\ req'[u].kind = "retry"
                              => u \in Jobs /\ req'[u].tail = {}
  BY <1>1 DEF ClaimInv
<1>9. /\ \A u, v \in Threads : u # v => First(u)' \cap First(v)' = {}
      /\ \A i \in 1..Len(queue'), u \in Threads : First(u)' \cap queue'[i] = {}
      /\ \A i, k \in 1..Len(queue') : i # k => queue'[i] \cap queue'[k] = {}
  BY <1>0, <1>3 DEF ClaimInv
<1>10. QED
  BY <1>5, <1>6, <1>7, <1>8, <1>9 DEF ClaimInv

(* A new round for pairs that nobody claims.                               *)
LEMMA TakeUp ==
  ASSUME TypeOK, OneJob, ClaimInv, NEW t \in Threads, NEW q \in Request,
         req' = [req EXCEPT ![t] = q], req[t] = Idle, Once(q),
         q.op = "round", q.kind = "retry" => t \in Jobs /\ q.tail = {},
         \A d \in Claim(q, "retry") : delivery[d] \in {"waiting", "dropped"},
         \A d \in Claim(q, "first") : Untried(d)',
         \A u \in Threads \ {t} : Claim(q, "first") \cap First(u) = {},
         UNCHANGED delivery, \A e \in Events : event[e] => event'[e],
         \A i \in 1..Len(queue') : /\ queue'[i] \cap Claim(q, "first") = {}
                                   /\ \E k \in 1..Len(queue) : queue'[i] = queue[k],
         \A i, k \in 1..Len(queue') : i # k => queue'[i] \cap queue'[k] = {}
  PROVE  ClaimInv'
<1>1. /\ req'[t] = q
      /\ \A u \in Threads : u # t => req'[u] = req[u]
      /\ \A u \in Threads : req[u] \in Request
  BY DEF TypeOK
<1>2. /\ \A u \in Threads \ {t} : First(u)' = First(u) /\ Again(u)' = Again(u)
      /\ First(t)' = Claim(q, "first") /\ Again(t)' = Claim(q, "retry")
  BY <1>1 DEF First, Again
<1>3. \A d \in Deliveries : Untried(d) => Untried(d)'
  BY DEF Untried, Deliveries
<1>4. \A u \in Threads : First(u) \subseteq Deliveries
  BY <1>1, ClaimFields DEF First, Rounds
<1>5. \A i \in 1..Len(queue') : \A d \in queue'[i] : Untried(d)'
  BY <1>3 DEF ClaimInv, TypeOK
<1>6. \A u \in Threads : \A d \in First(u)' : Untried(d)'
  BY <1>2, <1>3, <1>4 DEF ClaimInv
<1>7. \A u \in Threads : \A d \in Again(u)' : delivery'[d] \in {"waiting", "dropped"}
  BY <1>2 DEF ClaimInv
<1>8. /\ \A u \in Threads : Once(req'[u])
      /\ \A u \in Threads : req'[u].op # "idle" /\ req'[u].kind = "retry"
                              => u \in Jobs /\ req'[u].tail = {}
  BY <1>1 DEF ClaimInv
<1>9. \A u, v \in Threads : u # v => First(u)' \cap First(v)' = {}
  BY <1>2 DEF ClaimInv
<1>10. \A i \in 1..Len(queue'), u \in Threads : First(u)' \cap queue'[i] = {}
  BY <1>2 DEF ClaimInv
<1>11. QED
  BY <1>5, <1>6, <1>7, <1>8, <1>9, <1>10 DEF ClaimInv

(* The pairs of an event that has not been published are not claimed.      *)
LEMMA NewEvent ==
  ASSUME TypeOK, ClaimInv, NEW e \in Events, ~event[e], NEW D \in SUBSET Deliveries,
         \A d \in D : d[1] = e
  PROVE  /\ \A u \in Threads : D \cap First(u) = {}
         /\ \A i \in 1..Len(queue) : queue[i] \cap D = {}
  BY DEF ClaimInv, Untried

(* A published event has no rows yet.                                      *)
EventRows == \A d \in Deliveries : delivery[d] # "none" => event[d[1]]

LEMMA EventStep == TypeOK /\ ClaimInv /\ EventRows /\ [Next]_vars => EventRows'
<1> SUFFICES ASSUME TypeOK, ClaimInv, EventRows, [Next]_vars PROVE EventRows'
  OBVIOUS
<1>0. \A t \in Threads : req[t] \in Request
  BY DEF TypeOK
<1>1. \A e \in Events : event[e] => event'[e]
  BY DEF Next, vars, Subscribe, Deactivate, Publish, SendTest, Take, ReadDue, Post, Skip,
         Accepted, Refused, Finish, Crash, TypeOK
<1>2. ASSUME NEW t \in Threads, Accepted(t) \/ Refused(t), NEW d \in Deliveries
      PROVE  delivery'[d] # "none" => event[d[1]]
  <2>1. req[t].op = "posting" /\ req[t].d \in Deliveries
    BY <1>0, <1>2, RequestFields DEF Accepted, Refused
  <2>2. delivery[req[t].d] # "none" \/ event[req[t].d[1]]
    <3>1. req[t].d \in First(t) \/ req[t].d \in Again(t)
      BY <1>0, <2>1, RequestFields DEF First, Again, Claim, Rounds
    <3>2. QED
      BY <3>1 DEF ClaimInv, Untried
  <2>3. d # req[t].d => delivery'[d] = delivery[d]
    BY <1>2, <2>1 DEF Accepted, Refused, TypeOK
  <2>4. QED
    BY <2>1, <2>2, <2>3 DEF EventRows
<1>3. ASSUME NEW t \in Threads, NEW c \in Deliveries, Skip(t, c), NEW d \in Deliveries
      PROVE  delivery'[d] # "none" => delivery[d] # "none"
  BY <1>3 DEF Skip, TypeOK
<1>4. \/ UNCHANGED delivery
      \/ \E t \in Threads : Accepted(t) \/ Refused(t)
      \/ \E t \in Threads, c \in Deliveries : Skip(t, c)
  BY DEF Next, vars, Subscribe, Deactivate, Publish, SendTest, Take, ReadDue, Post,
         Finish, Crash
<1>5. \A d \in Deliveries : d[1] \in Events
  BY DEF Deliveries
<1>6. QED
  BY <1>1, <1>2, <1>3, <1>4, <1>5 DEF EventRows

LEMMA ClaimStep ==
  TypeOK /\ OneJob /\ ClaimInv /\ EventRows /\ [Next]_vars => ClaimInv'
<1> SUFFICES ASSUME TypeOK, OneJob, ClaimInv, EventRows, [Next]_vars PROVE ClaimInv'
  OBVIOUS
<1> USE WebhooksAssumption
<1>0. \A t \in Threads : req[t] \in Request
  BY DEF TypeOK
<1>1. CASE UNCHANGED <<event, delivery, queue, req>>
  BY <1>1 DEF ClaimInv, First, Again, Untried
<1>2. ASSUME NEW w \in Publishers, NEW e \in Events, ~event[e], req[w] = Idle,
             NEW M \in SUBSET Subs, NEW L \in SUBSET Subs, M \cap L = {},
             event' = [event EXCEPT ![e] = TRUE],
             req' = [req EXCEPT ![w] = [op |-> "round", kind |-> "first",
                                        todo |-> {e} \X M, tail |-> {e} \X L]],
             UNCHANGED <<delivery, queue>>
      PROVE  ClaimInv'
  <2> DEFINE q == [op |-> "round", kind |-> "first", todo |-> {e} \X M,
                   tail |-> {e} \X L]
             D == {e} \X (M \cup L)
  <2>1. {e} \X M \in SUBSET Deliveries /\ {e} \X L \in SUBSET Deliveries
    BY DEF Deliveries
  <2>2. /\ q \in Request /\ q.op = "round" /\ q.kind = "first" /\ Once(q)
        /\ Claim(q, "retry") = {} /\ Claim(q, "first") = D
    BY <1>2, <2>1, RoundIsRequest DEF Rounds, Once, Claim
  <2>3. D \in SUBSET Deliveries /\ \A d \in D : d[1] = e
    BY <2>1
  <2> HIDE DEF D
  <2>4. /\ \A u \in Threads : D \cap First(u) = {}
        /\ \A i \in 1..Len(queue) : queue[i] \cap D = {}
    BY <1>2, <2>3, NewEvent
  <2>5. \A d \in D : Untried(d)'
    BY <1>2, <2>3 DEF EventRows, Untried, TypeOK
  <2>6. w \in Threads /\ req' = [req EXCEPT ![w] = q]
    BY <1>2 DEF Threads
  <2>7. \A x \in Events : event[x] => event'[x]
    BY <1>2 DEF TypeOK
  <2>8. \A i \in 1..Len(queue') : /\ queue'[i] \cap D = {}
                                  /\ \E k \in 1..Len(queue) : queue'[i] = queue[k]
    BY <1>2, <2>4
  <2>9. \A i, k \in 1..Len(queue') : i # k => queue'[i] \cap queue'[k] = {}
    BY <1>2 DEF ClaimInv
  <2> HIDE DEF q
  <2>10. QED
    BY <1>2, <2>2, <2>4, <2>5, <2>6, <2>7, <2>8, <2>9, TakeUp
<1>3. ASSUME NEW w \in Publishers, NEW e \in Events, Publish(w, e) PROVE ClaimInv'
  <2>1. /\ FirstOf(Matching) \in SUBSET Subs
        /\ Matching \ FirstOf(Matching) \in SUBSET Subs
        /\ FirstOf(Matching) \cap (Matching \ FirstOf(Matching)) = {}
    BY DEF FirstOf, Matching
  <2>2. QED
    BY <1>2, <1>3, <2>1 DEF Publish
<1>4. ASSUME NEW w \in Publishers, NEW e \in Events, NEW s \in Subs, SendTest(w, e, s)
      PROVE  ClaimInv'
  <2>1. {e} \X {s} = {<<e, s>>} /\ {e} \X {} = {}
    OBVIOUS
  <2>2. {s} \in SUBSET Subs /\ {} \in SUBSET Subs /\ {s} \cap {} = {}
    OBVIOUS
  <2>3. QED
    BY <1>2, <1>4, <2>1, <2>2 DEF SendTest
<1>5. ASSUME NEW x \in Executors, Take(x) PROVE ClaimInv'
  <2> DEFINE q == [op |-> "round", kind |-> "first", todo |-> Head(queue), tail |-> {}]
  <2>1. /\ queue \in Seq(SUBSET Deliveries) /\ queue # <<>> /\ queue' = Tail(queue)
        /\ req[x] = Idle /\ x \in Threads /\ req' = [req EXCEPT ![x] = q]
        /\ UNCHANGED <<sub, event, delivery>>
    BY <1>5 DEF Take, TypeOK, Threads
  <2>2. /\ Head(queue) = queue[1] /\ 1 \in 1..Len(queue)
        /\ Len(queue') = Len(queue) - 1
        /\ \A i \in 1..Len(queue') : i + 1 \in 1..Len(queue) /\ queue'[i] = queue[i + 1]
    BY <2>1
  <2>3. /\ q \in Request /\ q.op = "round" /\ q.kind = "first" /\ Once(q)
        /\ Claim(q, "retry") = {} /\ Claim(q, "first") = queue[1]
    BY <2>1, <2>2, RoundIsRequest DEF Rounds, Once, Claim
  <2> HIDE DEF q
  <2>4. \A d \in queue[1] : Untried(d)'
    BY <2>1, <2>2 DEF ClaimInv, Untried
  <2>5. \A u \in Threads : queue[1] \cap First(u) = {}
    BY <2>2 DEF ClaimInv
  <2>6. \A i \in 1..Len(queue') : /\ queue'[i] \cap queue[1] = {}
                                  /\ \E k \in 1..Len(queue) : queue'[i] = queue[k]
    <3>1. ASSUME NEW i \in 1..Len(queue') PROVE i + 1 # 1 /\ queue'[i] = queue[i + 1]
      BY <2>2
    <3>2. QED
      BY <2>2, <3>1 DEF ClaimInv
  <2>7. \A i, k \in 1..Len(queue') : i # k => queue'[i] \cap queue'[k] = {}
    <3>1. ASSUME NEW i \in 1..Len(queue'), NEW k \in 1..Len(queue'), i # k
          PROVE  /\ i + 1 # k + 1
                 /\ i + 1 \in 1..Len(queue) /\ queue'[i] = queue[i + 1]
                 /\ k + 1 \in 1..Len(queue) /\ queue'[k] = queue[k + 1]
      BY <2>2, <3>1
    <3>2. QED
      BY <3>1 DEF ClaimInv
  <2>8. QED
    BY <2>1, <2>3, <2>4, <2>5, <2>6, <2>7, TakeUp
<1>6. ASSUME NEW j \in Jobs, NEW due \in SUBSET Deliveries, ReadDue(j, due)
      PROVE  ClaimInv'
  <2> DEFINE q == [op |-> "round", kind |-> "retry", todo |-> due, tail |-> {}]
  <2>1. /\ q \in Request /\ q.op = "round" /\ q.kind = "retry" /\ Once(q)
        /\ q.tail = {} /\ Claim(q, "retry") = due /\ Claim(q, "first") = {}
    BY RoundIsRequest DEF Rounds, Once, Claim
  <2>2. /\ req[j] = Idle /\ j \in Threads /\ req' = [req EXCEPT ![j] = q]
        /\ UNCHANGED <<sub, event, delivery, queue>>
        /\ \A d \in due : delivery[d] = "waiting"
    BY <1>6 DEF ReadDue, Threads
  <2> HIDE DEF q
  <2>3. \A i, k \in 1..Len(queue') : i # k => queue'[i] \cap queue'[k] = {}
    BY <2>2 DEF ClaimInv
  <2>4. QED
    BY <2>1, <2>2, <2>3, TakeUp
<1>7. ASSUME NEW t \in Threads, NEW d \in Deliveries, Post(t, d) PROVE ClaimInv'
  <2> DEFINE q == [op |-> "posting", kind |-> req[t].kind, todo |-> req[t].todo \ {d},
                   tail |-> req[t].tail, d |-> d, seen |-> sub[d[2]].failures]
  <2>1. /\ req[t].op = "round" /\ d \in req[t].todo /\ req[t].kind \in Rounds
        /\ req[t].todo \in SUBSET Deliveries /\ req[t].tail \in SUBSET Deliveries
        /\ sub[d[2]].failures \in 0..MaxFailures
        /\ req[t].todo \cap req[t].tail = {}
    BY <1>0, <1>7, RequestFields
       DEF Post, IsNext, TypeOK, Subscription, Deliveries, ClaimInv, Once
  <2>2. q \in Request
    BY <2>1, PostIsRequest
  <2>3. /\ q.op # "idle" /\ q.kind = req[t].kind /\ q.tail = req[t].tail /\ Once(q)
        /\ Claim(q, "first") = First(t) /\ Claim(q, "retry") = Again(t)
    BY <2>1 DEF Once, Claim, First, Again, Rounds
  <2>4. req' = [req EXCEPT ![t] = q] /\ UNCHANGED <<sub, event, delivery, queue>>
    BY <1>7 DEF Post
  <2> HIDE DEF q
  <2>5. QED
    BY <2>1, <2>2, <2>3, <2>4, GiveUp
<1>8. ASSUME NEW t \in Threads, NEW d \in Deliveries, Skip(t, d) PROVE ClaimInv'
  <2> DEFINE q == [req[t] EXCEPT !.todo = @ \ {d}]
  <2>1. /\ req[t].op = "round" /\ d \in req[t].todo /\ req[t].kind \in Rounds
        /\ req[t].todo \in SUBSET Deliveries /\ req[t].tail \in SUBSET Deliveries
        /\ req[t].todo \cap req[t].tail = {}
    BY <1>0, <1>8, RequestFields DEF Skip, IsNext, ClaimInv, Once
  <2>2. /\ q \in Request /\ q.op = "round" /\ q.kind = req[t].kind
        /\ q.todo = req[t].todo \ {d} /\ q.tail = req[t].tail
    BY <1>0, <2>1 DEF Request, Idle
  <2>3. /\ req' = [req EXCEPT ![t] = q] /\ event' = event /\ queue' = queue
        /\ \A c \in Deliveries :
             delivery'[c] = delivery[c] \/ (c = d /\ req[t].kind = "retry")
    BY <1>8 DEF Skip, TypeOK
  <2> HIDE DEF q
  <2>4. /\ Once(q) /\ Claim(q, "first") \subseteq First(t)
        /\ Claim(q, "retry") \subseteq Again(t)
        /\ req[t].kind = "retry" => d \in Again(t) \ Claim(q, "retry")
    BY <2>1, <2>2 DEF Once, Claim, First, Again
  <2>5. QED
    BY <2>1, <2>2, <2>3, <2>4, GiveUp
<1>9. ASSUME NEW t \in Threads, Accepted(t) \/ Refused(t) PROVE ClaimInv'
  <2> DEFINE q == [op |-> "round", kind |-> req[t].kind, todo |-> req[t].todo,
                   tail |-> req[t].tail]
  <2>1. /\ req[t].op = "posting" /\ req[t].d \in Deliveries /\ req[t].kind \in Rounds
        /\ req[t].todo \in SUBSET Deliveries /\ req[t].tail \in SUBSET Deliveries
        /\ Once(req[t])
    BY <1>0, <1>9, RequestFields DEF Accepted, Refused, ClaimInv
  <2>2. q \in Request
    BY <2>1, RoundIsRequest
  <2>3. /\ q.op = "round" /\ q.kind = req[t].kind /\ q.tail = req[t].tail /\ Once(q)
        /\ Claim(q, "first") \subseteq First(t) /\ Claim(q, "retry") \subseteq Again(t)
        /\ \/ req[t].d \in First(t) \ Claim(q, "first")
           \/ req[t].d \in Again(t) \ Claim(q, "retry")
    BY <2>1 DEF Once, Claim, First, Again, Rounds
  <2>4. /\ req' = [req EXCEPT ![t] = q] /\ event' = event /\ queue' = queue
        /\ \A c \in Deliveries : delivery'[c] = delivery[c] \/ c = req[t].d
    BY <1>9, <2>1 DEF Accepted, Refused, TypeOK
  <2> HIDE DEF q
  <2>5. QED
    BY <2>1, <2>2, <2>3, <2>4, GiveUp
<1>10. ASSUME NEW t \in Threads, Crash(t) \/ (Finish(t) /\ req[t].tail = {})
       PROVE  ClaimInv'
  <2>1. /\ Idle \in Request /\ Idle.op = "idle" /\ Once(Idle)
        /\ Claim(Idle, "first") = {} /\ Claim(Idle, "retry") = {}
    BY DEF Request, Idle, Once, Claim
  <2>2. /\ req' = [req EXCEPT ![t] = Idle] /\ UNCHANGED <<event, delivery>>
        /\ queue' = queue \/ queue' = <<>>
    BY <1>10 DEF Crash, Finish
  <2>3. QED
    BY <2>1, <2>2, GiveUp

<1>11. ASSUME NEW t \in Threads, Finish(t), req[t].tail # {} PROVE ClaimInv'
  <2> DEFINE L == Len(queue)
             T == req[t].tail
  <2>1. /\ req[t].op = "round" /\ req[t].todo = {} /\ req[t].kind \in Rounds
        /\ T \in SUBSET Deliveries
        /\ queue \in Seq(SUBSET Deliveries) /\ queue' = Append(queue, T)
        /\ req' = [req EXCEPT ![t] = Idle] /\ UNCHANGED <<sub, event, delivery>>
    BY <1>0, <1>11, RequestFields DEF Finish, TypeOK
  <2>2. First(t) = T
    BY <1>11, <2>1 DEF ClaimInv, First, Claim, Rounds
  <2>3. /\ req'[t] = Idle
        /\ \A u \in Threads : u # t => req'[u] = req[u]
    BY <2>1 DEF TypeOK
  <2>4. /\ First(t)' = {} /\ Again(t)' = {}
        /\ \A u \in Threads \ {t} : First(u)' = First(u) /\ Again(u)' = Again(u)
    BY <2>3 DEF First, Again, Claim, Idle
  <2>5. /\ \A i \in 1..Len(queue') : (i \in 1..L /\ queue'[i] = queue[i])
                                       \/ (i = L + 1 /\ queue'[i] = T)
        /\ L \in Nat
    BY <2>1
  <2> HIDE DEF L, T
  <2>6. /\ \A u \in Threads : Once(req'[u])
        /\ \A u \in Threads : req'[u].op # "idle" /\ req'[u].kind = "retry"
                                => u \in Jobs /\ req'[u].tail = {}
    BY <2>3 DEF ClaimInv, Once, Idle
  <2>7. \A i \in 1..Len(queue') : \A d \in queue'[i] : Untried(d)'
    BY <2>1, <2>2, <2>5 DEF ClaimInv, Untried, L
  <2>8. /\ \A u \in Threads : \A d \in First(u)' : Untried(d)'
        /\ \A u \in Threads : \A d \in Again(u)' : delivery'[d] \in {"waiting", "dropped"}
    BY <2>1, <2>4 DEF ClaimInv, Untried
  <2>9. /\ \A u, v \in Threads : u # v => First(u)' \cap First(v)' = {}
        /\ \A i \in 1..Len(queue'), u \in Threads : First(u)' \cap queue'[i] = {}
    BY <2>2, <2>4, <2>5 DEF ClaimInv, L
  <2>10. \A i, k \in 1..Len(queue') : i # k => queue'[i] \cap queue'[k] = {}
    <3>1. \A i \in 1..L : queue[i] \cap T = {}
      BY <2>2 DEF ClaimInv, L
    <3>2. QED
      BY <2>5, <3>1 DEF ClaimInv, L
  <2>11. QED
    BY <2>6, <2>7, <2>8, <2>9, <2>10 DEF ClaimInv
<1>12. ASSUME NEW s \in Subs, Subscribe(s) \/ Deactivate(s) PROVE ClaimInv'
  BY <1>1, <1>12 DEF Subscribe, Deactivate
<1>13. ASSUME UNCHANGED vars PROVE ClaimInv'
  BY <1>1, <1>13 DEF vars
<1>14. QED
  BY <1>3, <1>4, <1>5, <1>6, <1>7, <1>8, <1>9, <1>10, <1>11, <1>12, <1>13
     DEF Next, Finish

(* With one retry job no delivery that has arrived is posted again,        *)
(* whatever workers and pool threads do and whenever a process ends.       *)
THEOREM AcceptedOnce ==
  ASSUME OneJob
  PROVE  Spec => AcceptedIsNotReposted
<1>1. Init => ClaimInv /\ EventRows
  BY DEF Init, ClaimInv, EventRows, First, Again, Claim, Once, Idle
<1>2. TypeOK /\ ClaimInv /\ EventRows /\ [Next]_vars => (ClaimInv /\ EventRows)'
  BY ClaimStep, EventStep
<1>3. TypeOK /\ ClaimInv => \A t \in Threads, d \in Deliveries :
                               Post(t, d) => delivery[d] # "delivered"
  <2> SUFFICES ASSUME TypeOK, ClaimInv, NEW t \in Threads, NEW d \in Deliveries,
                      Post(t, d)
               PROVE  delivery[d] # "delivered"
    OBVIOUS
  <2>1. req[t].op = "round" /\ d \in req[t].todo /\ req[t].kind \in Rounds
    BY RequestFields DEF TypeOK, Post, IsNext
  <2>2. d \in First(t) \/ d \in Again(t)
    BY <2>1 DEF First, Again, Claim, Rounds
  <2>3. QED
    BY <2>2 DEF ClaimInv, Untried
<1>4. TypeOK /\ ClaimInv => [\A t \in Threads, d \in Deliveries :
                               Post(t, d) => delivery[d] # "delivered"]_vars
  BY <1>3
<1>5. QED
  BY <1>1, <1>2, <1>4, TypeCorrect, PTL DEF Spec, AcceptedIsNotReposted
=============================================================================
