----------------------------- MODULE EmailQueue -----------------------------
(***************************************************************************)
(* The queue of outgoing e-mail: rows that app/email/services.py           *)
(* (send_template) inserts, the job of app/email/scheduler.py that sends   *)
(* them every 30 seconds, and the administrator's buttons "retry" and      *)
(* "cancel" (app/admin/routes.py).                                         *)
(*                                                                         *)
(* Every process runs the job in a thread of its own.  The job reads its   *)
(* batch first and takes the rows one after the other; a row is committed  *)
(* as "sending", the mail provider is called, and the row is committed     *)
(* again with the outcome.  The commits make the session read a row anew,  *)
(* but not decide anew whether it should be sent.                          *)
(*                                                                         *)
(* Left out: templates, the immediate sending of single-use links          *)
(* (send_template_sync), and the clock: a row that waits for its next      *)
(* attempt may be due at any time.                                         *)
(***************************************************************************)
EXTENDS Integers

CONSTANTS
  Mails,        \* ids of queue rows
  MaxAttempts,  \* MAX_ATTEMPTS
  Senders,      \* scheduler threads, one per process
  Admins        \* web workers that serve the administration pages

VARIABLES
  mail,     \* the rows of outgoing_emails
  cut,      \* history: mails whose sending the end of a process cut short
  req       \* what each thread is doing

vars == <<mail, cut, req>>

Threads == Senders \cup Admins

(* attempt_count, and whether sent_at is set.                              *)
MailRow ==
  [st    : {"pending", "sending", "sent", "failed", "cancelled"},
   tries : 0..MaxAttempts, sentAt : BOOLEAN]
NoRow == [st |-> "none"]
Answers == {"accepted", "refused", "raised"}
Queued(m) == mail[m] # NoRow

Idle == [op |-> "idle"]
Request ==
  {Idle}
    \cup [op : {"batch"}, todo : SUBSET Mails]
    \cup [op : {"sending"}, mail : Mails, tries : 0..MaxAttempts,
          todo : SUBSET Mails]
    \cup [op : {"retry", "cancel"}, mail : Mails]

TypeOK ==
  /\ mail \in [Mails -> MailRow \cup {NoRow}]
  /\ cut  \subseteq Mails
  /\ req  \in [Threads -> Request]

Init ==
  /\ mail = [m \in Mails |-> NoRow]
  /\ cut  = {}
  /\ req  = [t \in Threads |-> Idle]

-----------------------------------------------------------------------------
(* send_template commits the row before it returns.                        *)
Enqueue(m) ==
  /\ ~Queued(m)
  /\ mail' = [mail EXCEPT ![m] = [st |-> "pending", tries |-> 0, sentAt |-> FALSE]]
  /\ UNCHANGED <<cut, req>>

Pending == {m \in Mails : mail[m].st = "pending"}

(* process_email_queue reads the rows that are due.                        *)
ReadBatch(s, due) ==
  /\ req[s] = Idle
  /\ due # {} /\ due \subseteq Pending
  /\ req' = [req EXCEPT ![s] = [op |-> "batch", todo |-> due]]
  /\ UNCHANGED <<mail, cut>>

(* _deliver_row marks a row of the batch, whatever has become of it.       *)
Begin(s, m) ==
  /\ req[s].op = "batch"
  /\ m \in req[s].todo
  /\ mail' = [mail EXCEPT ![m].st = "sending"]
  /\ req' = [req EXCEPT ![s] = [op |-> "sending", mail |-> m,
                                tries |-> mail[m].tries,
                                todo |-> req[s].todo \ {m}]]
  /\ UNCHANGED cut

AfterTries(n) == IF n < MaxAttempts THEN n + 1 ELSE MaxAttempts

(* Seeded fault: the row of a failed attempt is not put back.              *)
FailedStaysSending(row, n) ==
  [row EXCEPT !.tries = AfterTries(n),
              !.st = IF AfterTries(n) >= MaxAttempts THEN "failed" ELSE @]

(* The row once more after a failed attempt; n is the count before it.     *)
Failed(row, n) ==
  [row EXCEPT !.tries = AfterTries(n),
              !.st = IF AfterTries(n) >= MaxAttempts THEN "failed" ELSE "pending"]

(* The end of _deliver_row.  Sending writes to the audit log with a commit *)
(* of its own, after which the row is read again: a row that another       *)
(* sender has recorded as sent keeps that status.  An exception comes      *)
(* before that commit, and the row is as it was when the call began.       *)
Record(s, answer) ==
  LET m == req[s].mail IN
  /\ req[s].op = "sending"
  /\ mail' = [mail EXCEPT ![m] =
       CASE answer = "accepted" -> [@ EXCEPT !.st = "sent", !.sentAt = TRUE]
         [] answer = "refused" /\ @.st = "sent" ->
              [@ EXCEPT !.tries = AfterTries(@)]
         [] answer = "refused" /\ @.st # "sent" -> Failed(@, @.tries)
         [] answer = "raised" -> Failed(@, req[s].tries)]
  /\ req' = [req EXCEPT ![s] = [op |-> "batch", todo |-> req[s].todo]]
  /\ UNCHANGED cut

Done(s) ==
  /\ req[s].op = "batch"
  /\ req[s].todo = {}
  /\ req' = [req EXCEPT ![s] = Idle]
  /\ UNCHANGED <<mail, cut>>

(* The buttons: what the page allows, and the commit.                      *)
Button(a, op, m) ==
  /\ req[a] = Idle
  /\ req' = [req EXCEPT ![a] = [op |-> op, mail |-> m]]
  /\ UNCHANGED <<mail, cut>>

(* Seeded fault: a mail can be sent again in any status but "pending".     *)
RetryAny(a, m) ==
  /\ mail[m].st \notin {"none", "pending"}
  /\ Button(a, "retry", m)

Retry(a, m) ==
  /\ mail[m].st = "failed"
  /\ Button(a, "retry", m)

Cancel(a, m) ==
  /\ mail[m].st = "pending"
  /\ Button(a, "cancel", m)

Press(a) ==
  /\ req[a].op \in {"retry", "cancel"}
  /\ mail' = [mail EXCEPT ![req[a].mail].st =
                IF req[a].op = "retry" THEN "pending" ELSE "cancelled"]
  /\ req' = [req EXCEPT ![a] = Idle]
  /\ UNCHANGED cut

(* A process ends; what it has committed stays.                            *)
Crash(t) ==
  /\ req[t] # Idle
  /\ req[t].op = "batch" => req[t].todo # {}
  /\ cut' = cut \cup {m \in Mails : req[t].op = "sending" /\ req[t].mail = m}
  /\ req' = [req EXCEPT ![t] = Idle]
  /\ UNCHANGED mail

Next ==
  \/ \E m \in Mails : Enqueue(m)
  \/ \E s \in Senders :
       \/ \E due \in SUBSET Mails : ReadBatch(s, due)
       \/ \E m \in Mails : Begin(s, m)
       \/ \E answer \in Answers : Record(s, answer)
       \/ Done(s)
  \/ \E a \in Admins, m \in Mails : Retry(a, m) \/ Cancel(a, m)
  \/ \E a \in Admins : Press(a)
  \/ \E t \in Threads : Crash(t)

Spec == Init /\ [][Next]_vars

(* The job goes on with its batch; it runs every 30 seconds, and a row is  *)
(* due sooner or later; processes do not end for ever.                     *)
Fairness ==
  /\ \A s \in Senders :
       /\ WF_vars(Done(s) \/ (\E m \in Mails : Begin(s, m))
                           \/ (\E answer \in Answers : Record(s, answer)))
       /\ \A m \in Mails : SF_vars(\E due \in SUBSET Mails : m \in due /\ ReadBatch(s, due))
       /\ <>[][~Crash(s)]_vars

FairSpec == Spec /\ Fairness

-----------------------------------------------------------------------------
(* Properties.                                                             *)

(* With one process (one sender, one administrator at a time): a mail that *)
(* is on record as sent, by its sent_at, is not sent once more, not even   *)
(* when a button pressed before the sending is committed after it.         *)
SentIsNotResent ==
  [][\A s \in Senders, m \in Mails :
       Begin(s, m) => ~mail[m].sentAt]_vars

(* A mail that has been queued is sent, given up after MaxAttempts, or     *)
(* cancelled in the end, unless a process ended during the very call.      *)
EveryMailEnds ==
  \A m \in Mails :
    mail[m].st = "pending" ~>
      mail[m].st \in {"sent", "failed", "cancelled"} \/ m \in cut
=============================================================================
