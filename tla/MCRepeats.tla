----------------------------- MODULE MCRepeats ------------------------------
(* What protects against calls that come again, for TLC: the keys of       *)
(* requests (Idempotency), the records of incoming webhooks, the lockout   *)
(* of the login page and the tokens that let one in.  They share no state; *)
(* "part" says which of them moves, as in MCQueues.                        *)
EXTENDS Idempotency

CONSTANTS
  Deliveries, Contents, GiveUp,              \* InboundWebhooks
  Workers, MaxAttempts, Window, MaxRecords,  \* Lockout
  Guests, Admins, Clerks, Life, Codes, MaxLinks, MaxSets, MaxLost   \* SignIn

VARIABLES
  part,
  key, event, dlv, scan, handled,
  failed, guessed, login,
  token, taken, lost, active, enabled, session, clerk

inVars   == <<key, event, dlv, scan, handled>>
lockVars == <<failed, guessed, login>>
signVars == <<token, taken, lost, active, enabled, session, clerk>>

Inbox == INSTANCE InboundWebhooks
Lock  == INSTANCE Lockout
Sign  == INSTANCE SignIn WITH Workers <- Clerks

ASSUME Assumptions ==
  /\ IdempotencyAssumption /\ Inbox!InboundAssumption /\ Lock!LockoutAssumption
  /\ Sign!SignInAssumption

(* Values of the functions among the constants.                            *)
OneTick == [kind \in {"reset", "magic", "mail"} |-> 1]

(* Idempotency has an initial state for every endpoint and every choice of *)
(* foreign reservations; the other parts need one of them.                 *)
RepeatsInit ==
  /\ part \in {"keys", "inbox", "lockout", "signin"}
  /\ Init /\ Inbox!Init /\ Lock!Init /\ Sign!Init
  /\ part # "keys" => endpoint = "checkout" /\ foreign = {}

RepeatsNext ==
  \/ part = "keys" /\ Next /\ UNCHANGED <<part, inVars, lockVars, signVars>>
  \/ part = "inbox" /\ Inbox!Next /\ UNCHANGED <<part, vars, lockVars, signVars>>
  \/ part = "lockout" /\ Lock!Next /\ UNCHANGED <<part, vars, inVars, signVars>>
  \/ part = "signin" /\ Sign!Next /\ UNCHANGED <<part, vars, inVars, lockVars>>

(* What does not move has nothing that its fairness could ask for.         *)
RepeatsSpec ==
  RepeatsInit /\ [][RepeatsNext]_<<part, vars, inVars, lockVars, signVars>> /\
  Inbox!Fairness

-----------------------------------------------------------------------------
(* Every variable keeps its type.                                          *)
RepeatsTypeOK ==
  /\ IdempotencyTypeOK /\ Inbox!InboundTypeOK /\ Lock!LockoutTypeOK
  /\ Sign!SignInTypeOK

(* An event that was delivered several times and is on record as processed *)
(* without an error was handled (mark_processed).                          *)
ProcessedWasHandled == Inbox!ProcessedWasHandled

(* Wrong passwords that were looked at within 15 minutes are limited,      *)
(* however many logins overlap (_is_locked_out); a link or a code lets one *)
(* in until it is spent, replaced or too old, and once, with one worker,   *)
(* beside the command that deletes old ones (find_active_by_raw,           *)
(* consume_active_code, consume_backup_code).                              *)
LoginsAreSound ==
  /\ Lock!GuessesAreLimited
  /\ part = "signin" => Sign!SpentOnce /\ Sign!ServesUntilSpent

(* An event that was accepted is processed or given up in the end          *)
(* (process_stale_inbound_webhook_events).                                 *)
AcceptedEventEnds == Inbox!AcceptedEventEnds
=============================================================================
