------------------------------ MODULE MCQueues ------------------------------
(* The queues of outgoing messages for TLC.  OutboundWebhooks and          *)
(* EmailQueue share no state, so that a behaviour of both is a behaviour   *)
(* of each beside the other's: "part" says which one moves.                *)
EXTENDS OutboundWebhooks

CONSTANTS Mails, MaxAttempts, Senders, Admins

VARIABLES part, mail, cut, mailReq
mailVars == <<mail, cut, mailReq>>

Email == INSTANCE EmailQueue WITH req <- mailReq

QueuesInit == part \in {"webhooks", "mail"} /\ Init /\ Email!Init

QueuesNext ==
  \/ part = "webhooks" /\ Next /\ UNCHANGED <<part, mailVars>>
  \/ part = "mail" /\ Email!Next /\ UNCHANGED <<part, vars>>

(* What does not move has nothing that its fairness could ask for.         *)
QueuesSpec ==
  /\ QueuesInit /\ [][QueuesNext]_<<part, vars, mailVars>>
  /\ Fairness /\ Email!Fairness

-----------------------------------------------------------------------------
(* A mail on record as sent is not sent again (process_email_queue).       *)
SentIsNotResent == Email!SentIsNotResent

(* A queued mail is sent, given up or cancelled in the end, unless its     *)
(* sending was cut short (_deliver_row).                                   *)
EveryMailEnds == Email!EveryMailEnds
=============================================================================
