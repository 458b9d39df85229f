-------------------------- MODULE InboundWebhooks --------------------------
(***************************************************************************)
(* One event that a provider (Visma Pay, Pindora) sends, perhaps several   *)
(* times: the route of app/webhooks/routes.py, the events and their stale  *)
(* ones in app/webhooks/services.py, the job of app/webhooks/scheduler.py. *)
(*                                                                         *)
(* A delivery reserves the key of the event and inserts the event in one   *)
(* transaction, runs the handler inside it and commits; another delivery   *)
(* waits for that commit at the unique index of the keys.  The handler may *)
(* succeed, raise, or succeed after the deadline of 4.5 s.                 *)
(*                                                                         *)
(* Left out: what is refused before anything is written (unknown provider, *)
(* size, signature, JSON), events without an id, which are stored each     *)
(* time they come, and the Stripe and Paytrail routes (module Payments).   *)
(***************************************************************************)
EXTENDS Integers, FiniteSets

CONSTANTS
  Deliveries,  \* the threads that serve deliveries of the event
  Contents,    \* the payloads the event has come with
  GiveUp       \* failures of the handler before the event is given up: 5

InboundAssumption == GiveUp \in Nat \ {0}

VARIABLES
  key,       \* the committed idempotency row: the payload it was made with
  event,     \* the committed row of webhook_events
  dlv,       \* what each delivery is doing
  scan,      \* the event as the job has read it
  handled    \* has the handler succeeded for this event?

vars == <<key, event, dlv, scan, handled>>

None  == "none"
Idle  == [at |-> "idle"]
Event == [content : Contents, processed : BOOLEAN, tries : 0..GiveUp,
          error : BOOLEAN, old : BOOLEAN]
NoRow == [content |-> None]

InboundTypeOK ==
  /\ key \in Contents \cup {None}
  /\ event \in Event \cup {NoRow}
  /\ dlv \in [Deliveries ->
       {Idle} \cup [at : {"handler"}, new : BOOLEAN, content : Contents,
                    error : BOOLEAN]]
  /\ scan \in Event \cup {NoRow}
  /\ handled \in BOOLEAN

Init ==
  /\ key = None /\ event = NoRow /\ dlv = [d \in Deliveries |-> Idle]
  /\ scan = NoRow /\ handled = FALSE

Settled == event # NoRow /\ event.processed

(* A transaction that has inserted the key and not ended yet.              *)
Reserving == \E d \in Deliveries : dlv[d] # Idle /\ dlv[d].new

(* apply_idempotency_for_inbound and record_inbound_event: the key is new  *)
(* or belongs to this payload (409 otherwise, and nothing changes), the    *)
(* event is new or there and not processed (otherwise it is acknowledged). *)
Receive(d) ==
  /\ dlv[d] = Idle /\ ~Reserving
  /\ \E c \in Contents :
       /\ key \in {None, c}
       /\ ~Settled
       /\ dlv' = [dlv EXCEPT ![d] = [at |-> "handler", content |-> c,
                                     new |-> event = NoRow,
                                     error |-> event # NoRow /\ event.error]]
  /\ UNCHANGED <<key, event, scan, handled>>

(* A column that is set to the value it was read with is not written.      *)
Column(read, new, stored) == IF new = read THEN stored ELSE new

(* What the commit of a delivery leaves, its own insert included.          *)
Stored(d) ==
  IF dlv[d].new
  THEN [content |-> dlv[d].content, processed |-> FALSE, tries |-> 0,
        error |-> FALSE, old |-> FALSE]
  ELSE event

Commit(d, row) ==
  /\ key' = dlv[d].content /\ event' = row
  /\ dlv' = [dlv EXCEPT ![d] = Idle] /\ UNCHANGED scan

(* Seeded fault: the error of the handler is not passed on.                *)
HandledWithoutError(d) ==
  /\ dlv[d] # Idle
  /\ \E ok \in BOOLEAN :
       /\ Commit(d, [Stored(d) EXCEPT !.processed = TRUE, !.error = FALSE])
       /\ handled' = (handled \/ ok)

(* The handler ends in time: the event is processed, with the error of the *)
(* handler if it raised one.                                               *)
HandledInTime(d) ==
  /\ dlv[d] # Idle
  /\ \E ok \in BOOLEAN :
       /\ Commit(d, [Stored(d) EXCEPT !.processed = TRUE,
                       !.error = Column(dlv[d].error, ~ok, @)])
       /\ handled' = (handled \/ ok)

(* The handler ends after the deadline: what it did is committed, and the  *)
(* event is left for the job.                                              *)
HandledLate(d) ==
  /\ dlv[d] # Idle /\ Commit(d, Stored(d)) /\ handled' = TRUE

(* The process ends: nothing of the transaction stays.                     *)
Crash(d) ==
  /\ dlv[d] # Idle /\ dlv' = [dlv EXCEPT ![d] = Idle]
  /\ UNCHANGED <<key, event, scan, handled>>

-----------------------------------------------------------------------------
(* 30 seconds pass.                                                        *)
Age ==
  /\ event # NoRow /\ ~event.old
  /\ event' = [event EXCEPT !.old = TRUE]
  /\ UNCHANGED <<key, dlv, scan, handled>>

(* The job reads the events that were left (process_stale_...).            *)
Scan ==
  /\ scan = NoRow /\ event # NoRow /\ event.old /\ ~Settled
  /\ scan' = event
  /\ UNCHANGED <<key, event, dlv, handled>>

(* An event that has failed GiveUp times is processed already, so that the *)
(* branch of the job that finds one has nothing to do.                     *)
JobSucceeds ==
  /\ scan # NoRow
  /\ event' = [event EXCEPT !.processed = TRUE,
                 !.error = Column(scan.error, FALSE, @)]
  /\ handled' = TRUE /\ scan' = NoRow
  /\ UNCHANGED <<key, dlv>>

(* Seeded fault: the failure is not counted.                               *)
JobFailsUncounted ==
  /\ scan # NoRow
  /\ event' = [event EXCEPT !.error = TRUE]
  /\ scan' = NoRow
  /\ UNCHANGED <<key, dlv, handled>>

(* Seeded fault: the event is never given up.                              *)
JobFailsForever ==
  /\ scan # NoRow
  /\ event' = [event EXCEPT !.tries = scan.tries + 1,
                 !.error = Column(scan.error, TRUE, @)]
  /\ scan' = NoRow
  /\ UNCHANGED <<key, dlv, handled>>

(* The handler raises: one more failure, and the event is given up at the  *)
(* last.  The count is that of the row the job has read.                   *)
JobFails ==
  /\ scan # NoRow
  /\ event' = [event EXCEPT !.tries = scan.tries + 1,
                 !.error = Column(scan.error, TRUE, @),
                 !.processed = @ \/ scan.tries + 1 >= GiveUp]
  /\ scan' = NoRow
  /\ UNCHANGED <<key, dlv, handled>>

(* The process ends while the job runs.                                    *)
JobCrash ==
  /\ scan # NoRow /\ scan' = NoRow
  /\ UNCHANGED <<key, event, dlv, handled>>

(* 24 hours pass: the row of the key expires and is taken away.  The row   *)
(* of the event stays.                                                     *)
KeyExpires ==
  /\ key # None /\ \A d \in Deliveries : dlv[d] = Idle
  /\ key' = None
  /\ UNCHANGED <<event, dlv, scan, handled>>

Serve(d) == Receive(d) \/ HandledInTime(d) \/ HandledLate(d) \/ Crash(d)
Handle   == JobSucceeds \/ JobFails

Next ==
  \/ \E d \in Deliveries : Serve(d)
  \/ Age \/ Scan \/ Handle \/ JobCrash \/ KeyExpires

(* Time passes, and the job runs every few minutes; it need not end.       *)
Fairness == WF_vars(Age) /\ WF_vars(Scan) /\ SF_vars(Handle)

Spec == Init /\ [][Next]_vars /\ Fairness

-----------------------------------------------------------------------------
(* An event that is on record as processed without an error was handled:   *)
(* a repeated delivery, an expired key, a late handler and the job do not  *)
(* make it look done (record_inbound_event, mark_processed).               *)
ProcessedWasHandled ==
  Settled /\ ~event.error => handled

(* An event the provider was told is accepted is processed or given up in  *)
(* the end, when its handler was late and the job fails or dies, as long   *)
(* as the job does not die every time                                      *)
(* (process_stale_inbound_webhook_events).                                 *)
AcceptedEventEnds == event # NoRow ~> Settled
=============================================================================
