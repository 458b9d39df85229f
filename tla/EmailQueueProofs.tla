-------------------------- MODULE EmailQueueProofs --------------------------
(***************************************************************************)
(* What holds of EmailQueue for any number of mails and every limit of     *)
(* attempts, in a deployment with one process: one sender, and one         *)
(* administrator's request at a time.                                      *)
(*                                                                         *)
(* A mail is claimed by the sender, as part of its batch or in a call to   *)
(* the provider, or by a pressed "retry", but never by both, and only a    *)
(* mail without sent_at is.                                                *)
(***************************************************************************)
EXTENDS MCQueues, TLAPS

OneProcess ==
  /\ MaxAttempts \in Nat
  /\ \A s, u \in Senders : s = u
  /\ \A a, b \in Admins : a = b
  /\ Senders \cap Admins = {}

(* Which thread does what.                                                 *)
Roles ==
  \A t \in Email!Threads :
    /\ mailReq[t].op \in {"batch", "sending"} => t \in Senders
    /\ mailReq[t].op \in {"retry", "cancel"} => t \in Admins

(* What a sender has taken from the queue.                                 *)
Taken(t) == IF mailReq[t].op = "batch" THEN mailReq[t].todo
            ELSE IF mailReq[t].op = "sending" THEN mailReq[t].todo \cup {mailReq[t].mail}
            ELSE {}

ClaimInv ==
  /\ \A m \in Mails : mail[m].st \in {"sent", "cancelled"} \/ ~Email!Queued(m)
                        \/ ~mail[m].sentAt
  /\ \A t \in Email!Threads : \A m \in Taken(t) :
       /\ Email!Queued(m) /\ ~mail[m].sentAt
       /\ mail[m].st \in {"pending", "sending", "cancelled"}
  /\ \A t \in Email!Threads : mailReq[t].op = "sending" => mailReq[t].mail \notin mailReq[t].todo
  /\ \A t \in Email!Threads : mailReq[t].op = "retry" => mail[mailReq[t].mail].st = "failed"
  /\ \A t \in Email!Threads : mailReq[t].op = "cancel" => Email!Queued(mailReq[t].mail)

Inv == Email!TypeOK /\ Roles /\ ClaimInv

-----------------------------------------------------------------------------
LEMMA RequestFields ==
  ASSUME NEW q \in Email!Request
  PROVE  /\ q.op \in {"idle", "batch", "sending", "retry", "cancel"}
         /\ q.op \in {"batch", "sending"} => q.todo \in SUBSET Mails
         /\ q.op \in {"sending", "retry", "cancel"} => q.mail \in Mails
         /\ q.op = "sending" => q.tries \in 0..MaxAttempts
  BY DEF Email!Request, Email!Idle

LEMMA RowFields ==
  ASSUME NEW row \in Email!MailRow
  PROVE  /\ row # Email!NoRow
         /\ row.st \in {"pending", "sending", "sent", "failed", "cancelled"}
         /\ row.tries \in 0..MaxAttempts /\ row.sentAt \in BOOLEAN
<1>1. row.st \in {"pending", "sending", "sent", "failed", "cancelled"}
  BY DEF Email!MailRow
<1>2. Email!NoRow.st = "none"
  BY DEF Email!NoRow
<1>3. row # Email!NoRow
  BY <1>1, <1>2
<1>4. QED
  BY <1>1, <1>3 DEF Email!MailRow

LEMMA RowWithStatus ==
  ASSUME NEW row \in Email!MailRow,
         NEW st \in {"pending", "sending", "sent", "failed", "cancelled"}
  PROVE  /\ [row EXCEPT !.st = st] \in Email!MailRow
         /\ [row EXCEPT !.st = st].st = st
         /\ [row EXCEPT !.st = st].sentAt = row.sentAt
  BY DEF Email!MailRow

(* The row after a failed attempt.                                         *)
LEMMA FailedRow ==
  ASSUME OneProcess, NEW row \in Email!MailRow, NEW n \in 0..MaxAttempts
  PROVE  /\ Email!Failed(row, n) \in Email!MailRow
         /\ Email!Failed(row, n).st \in {"failed", "pending"}
         /\ Email!Failed(row, n).sentAt = row.sentAt
<1>1. Email!AfterTries(n) \in 0..MaxAttempts
  BY DEF OneProcess, Email!AfterTries
<1>2. PICK k \in 0..MaxAttempts, st \in {"failed", "pending"} :
        Email!Failed(row, n) = [row EXCEPT !.tries = k, !.st = st]
  BY <1>1 DEF Email!Failed
<1>3. QED
  BY <1>2 DEF Email!MailRow

(* A thread turns to something else and no row changes.                    *)
LEMMA RequestStep ==
  ASSUME Inv, NEW t \in Email!Threads, NEW q \in Email!Request,
         mailReq' = [mailReq EXCEPT ![t] = q], UNCHANGED mail, cut' \subseteq Mails,
         q.op \in {"batch", "sending"} => t \in Senders,
         q.op \in {"retry", "cancel"} => t \in Admins,
         q.op # "sending",
         q.op = "batch" => \A m \in q.todo : mail[m].st = "pending" \/ m \in Taken(t),
         q.op = "retry" => mail[q.mail].st = "failed",
         q.op = "cancel" => Email!Queued(q.mail)
  PROVE  Inv'
<1>1. /\ mailReq'[t] = q
      /\ \A u \in Email!Threads : u # t => mailReq'[u] = mailReq[u]
  BY DEF Inv, Email!TypeOK
<1>2. Email!TypeOK' /\ Roles'
  BY <1>1 DEF Inv, Email!TypeOK, Roles
<1>3. \A u \in Email!Threads \ {t} : Taken(u)' = Taken(u)
  BY <1>1 DEF Taken
<1>4. Taken(t)' \subseteq Mails
      /\ \A m \in Taken(t)' : mail[m].st = "pending" \/ m \in Taken(t)
  BY <1>1, RequestFields DEF Taken
<1>5. \A m \in Mails : mail[m].st = "pending" => Email!Queued(m) /\ ~mail[m].sentAt
  BY DEF Inv, ClaimInv, Email!Queued, Email!NoRow
<1>6. \A u \in Email!Threads : \A m \in Taken(u)' :
        /\ Email!Queued(m) /\ ~mail[m].sentAt
        /\ mail[m].st \in {"pending", "sending", "cancelled"}
  BY <1>3, <1>4, <1>5 DEF Inv, ClaimInv
<1>7. ClaimInv'
  BY <1>1, <1>6 DEF Inv, ClaimInv, Email!Queued
<1>8. QED
  BY <1>2, <1>7 DEF Inv

(* One row changes, one that its thread lets go and that no other thread   *)
(* has claimed, save that "cancel" may have been pressed for it.           *)
Releases(t, q, m, row) ==
  /\ mail' = [mail EXCEPT ![m] = row]
  /\ mailReq' = [mailReq EXCEPT ![t] = q]
  /\ q.op = "idle" \/ (q.op = "batch" /\ t \in Senders)
  /\ q.op = "batch" => q.todo \subseteq Taken(t) \ {m}
  /\ row.sentAt => row.st \in {"sent", "cancelled"}
  /\ \A u \in Email!Threads \ {t} :
       /\ m \in Taken(u) =>
            row.st \in {"pending", "sending", "cancelled"} /\ ~row.sentAt
       /\ mailReq[u].op = "retry" => mailReq[u].mail # m

LEMMA ReleaseStep ==
  ASSUME Inv, UNCHANGED cut, NEW t \in Email!Threads, NEW q \in Email!Request, NEW m \in Mails,
         NEW row \in Email!MailRow, Releases(t, q, m, row)
  PROVE  Inv'
<1> USE DEF Releases
<1>1. /\ mailReq'[t] = q
      /\ \A u \in Email!Threads : u # t => mailReq'[u] = mailReq[u]
      /\ mail'[m] = row /\ row # Email!NoRow
      /\ \A c \in Mails : c # m => mail'[c] = mail[c]
  BY RowFields DEF Inv, Email!TypeOK
<1>2. Email!TypeOK' /\ Roles'
  BY <1>1 DEF Inv, Email!TypeOK, Roles
<1>3. /\ \A u \in Email!Threads \ {t} : Taken(u)' = Taken(u)
      /\ Taken(t)' \subseteq Taken(t) \ {m}
  BY <1>1 DEF Taken
<1>4. \A u \in Email!Threads : Taken(u) \subseteq Mails
  BY RequestFields DEF Inv, Email!TypeOK, Taken
<1>5. \A c \in Mails : Email!Queued(c) => Email!Queued(c)'
  BY <1>1 DEF Email!Queued
<1>6. \A u \in Email!Threads : \A c \in Taken(u)' :
        /\ Email!Queued(c)' /\ ~mail'[c].sentAt
        /\ mail'[c].st \in {"pending", "sending", "cancelled"}
  <2>1. ASSUME NEW u \in Email!Threads, NEW c \in Taken(u)'
        PROVE  /\ Email!Queued(c)' /\ ~mail'[c].sentAt
               /\ mail'[c].st \in {"pending", "sending", "cancelled"}
    <3>1. c \in Taken(u) /\ c \in Mails
      BY <1>3, <1>4, <2>1
    <3>2. CASE c = m
      BY <1>1, <1>3, <2>1, <3>1, <3>2 DEF Email!Queued
    <3>3. CASE c # m
      BY <1>1, <3>1, <3>3 DEF Inv, ClaimInv, Email!Queued
    <3>4. QED
      BY <3>2, <3>3
  <2>2. QED
    BY <2>1
<1>7. \A u \in Email!Threads : mailReq'[u].op \in {"sending", "retry", "cancel"}
                           => u # t /\ mailReq'[u] = mailReq[u] /\ mailReq[u].mail \in Mails
  BY <1>1, RequestFields DEF Inv, Email!TypeOK
<1>8. ClaimInv'
  BY <1>1, <1>5, <1>6, <1>7 DEF Inv, ClaimInv, Email!Queued
<1>9. QED
  BY <1>2, <1>8 DEF Inv

LEMMA InvStep ==
  ASSUME OneProcess PROVE Inv /\ [Email!Next]_Email!vars => Inv'
<1> SUFFICES ASSUME Inv, [Email!Next]_Email!vars PROVE Inv'
  OBVIOUS
<1>0. /\ \A t \in Email!Threads : mailReq[t] \in Email!Request
      /\ \A m \in Mails : mail[m] \in Email!MailRow \cup {Email!NoRow}
      /\ \A m \in Mails : Email!Queued(m) <=> mail[m] \in Email!MailRow
      /\ Email!NoRow.st = "none" /\ Email!Idle \in Email!Request /\ Email!Idle.op = "idle"
  BY DEF Inv, Email!TypeOK, Email!MailRow, Email!NoRow, Email!Queued, Email!Request, Email!Idle
<1>1. CASE UNCHANGED Email!vars
  BY <1>1 DEF Email!vars, Inv, Email!TypeOK, Roles, ClaimInv, Taken, Email!Queued
<1>2. ASSUME NEW m \in Mails, Email!Enqueue(m) PROVE Inv'
  <2> DEFINE row == [st |-> "pending", tries |-> 0, sentAt |-> FALSE]
  <2>1. row \in Email!MailRow /\ row.st = "pending" /\ ~row.sentAt
    BY DEF Email!MailRow, OneProcess
  <2>2. /\ mail' = [mail EXCEPT ![m] = row] /\ UNCHANGED <<cut, mailReq>>
        /\ mail[m] = Email!NoRow
    BY <1>2 DEF Email!Enqueue, Email!Queued
  <2> HIDE DEF row
  <2>3. /\ mail'[m] = row /\ row # Email!NoRow
        /\ \A c \in Mails : c # m => mail'[c] = mail[c]
    BY <2>1, <2>2, RowFields DEF Inv, Email!TypeOK
  <2>4. \A u \in Email!Threads : Taken(u)' = Taken(u) /\ Taken(u) \subseteq Mails \ {m}
    BY <1>0, <2>2, RequestFields DEF Taken, Inv, ClaimInv, Email!Queued
  <2>5. \A u \in Email!Threads : mailReq[u].op \in {"retry", "cancel"} =>
          mailReq[u].mail \in Mails \ {m}
    BY <1>0, <2>2, RequestFields DEF Inv, ClaimInv, Email!Queued
  <2>6. Email!TypeOK' /\ Roles'
    BY <2>1, <2>2 DEF Inv, Email!TypeOK, Roles
  <2>7. ClaimInv'
    BY <2>1, <2>2, <2>3, <2>4, <2>5 DEF Inv, ClaimInv, Email!Queued
  <2>8. QED
    BY <2>6, <2>7 DEF Inv
<1>3. ASSUME NEW s \in Senders, NEW due \in SUBSET Mails, Email!ReadBatch(s, due) PROVE Inv'
  <2> DEFINE q == [op |-> "batch", todo |-> due]
  <2>1. q \in Email!Request /\ q.op = "batch" /\ q.todo = due
    BY DEF Email!Request
  <2>2. /\ s \in Email!Threads /\ mailReq' = [mailReq EXCEPT ![s] = q] /\ UNCHANGED <<mail, cut>>
        /\ \A m \in due : mail[m].st = "pending"
    BY <1>3 DEF Email!ReadBatch, Email!Threads, Email!Pending
  <2> HIDE DEF q
  <2>3. QED
    BY <2>1, <2>2, RequestStep DEF Inv, Email!TypeOK
<1>4. ASSUME NEW s \in Senders, NEW m \in Mails, Email!Begin(s, m) PROVE Inv'
  <2> DEFINE q == [op |-> "sending", mail |-> m, tries |-> mail[m].tries,
                   todo |-> mailReq[s].todo \ {m}]
             row == [mail[m] EXCEPT !.st = "sending"]
  <2>1. /\ s \in Email!Threads /\ mailReq[s].op = "batch" /\ m \in mailReq[s].todo
        /\ mailReq[s].todo \in SUBSET Mails /\ m \in Taken(s)
    BY <1>0, <1>4, RequestFields DEF Email!Begin, Email!Threads, Taken
  <2>2. mail[m] \in Email!MailRow /\ ~mail[m].sentAt /\ mail[m].tries \in 0..MaxAttempts
        /\ mail[m].st # "failed"
    BY <1>0, <2>1 DEF Inv, ClaimInv, Email!MailRow
  <2>3. row \in Email!MailRow /\ row.st = "sending" /\ ~row.sentAt /\ row # Email!NoRow
    <3>1. row \in Email!MailRow /\ row.st = "sending" /\ row.sentAt = mail[m].sentAt
      BY <2>2, RowWithStatus
    <3> HIDE DEF row
    <3>2. QED
      BY <2>2, <3>1, RowFields
  <2>4. /\ q \in Email!Request /\ q.op = "sending" /\ q.mail = m
        /\ q.todo = mailReq[s].todo \ {m}
    BY <2>1, <2>2 DEF Email!Request
  <2>5. /\ mail' = [mail EXCEPT ![m] = row] /\ mailReq' = [mailReq EXCEPT ![s] = q]
        /\ UNCHANGED cut
    BY <1>4 DEF Email!Begin
  <2> HIDE DEF q, row
  <2>6. /\ mailReq'[s] = q /\ mail'[m] = row
        /\ \A u \in Email!Threads : u # s => mailReq'[u] = mailReq[u]
        /\ \A c \in Mails : c # m => mail'[c] = mail[c]
    BY <2>1, <2>5 DEF Inv, Email!TypeOK
  <2>7. /\ \A u \in Email!Threads \ {s} : Taken(u)' = Taken(u)
        /\ Taken(s)' = Taken(s)
        /\ \A u \in Email!Threads : Taken(u) \subseteq Mails
    BY <1>0, <2>1, <2>4, <2>6, RequestFields DEF Taken
  <2>8. Email!TypeOK' /\ Roles'
    BY <2>1, <2>3, <2>4, <2>5 DEF Inv, Email!TypeOK, Roles
  <2>9. \A u \in Email!Threads : \A c \in Taken(u)' :
          /\ Email!Queued(c)' /\ ~mail'[c].sentAt
          /\ mail'[c].st \in {"pending", "sending", "cancelled"}
    BY <2>3, <2>6, <2>7 DEF Inv, ClaimInv, Email!Queued
  <2>10. \A u \in Email!Threads : mailReq'[u].op \in {"retry", "cancel"}
           => u # s /\ mailReq'[u] = mailReq[u] /\ mailReq[u].mail \in Mails
    BY <1>0, <2>4, <2>6, RequestFields
  <2>11. \A u \in Email!Threads : mailReq'[u].op = "retry" => mail'[mailReq'[u].mail].st = "failed"
    BY <2>2, <2>6, <2>10 DEF Inv, ClaimInv
  <2>12. \A u \in Email!Threads : mailReq'[u].op = "cancel" => mail'[mailReq'[u].mail] # Email!NoRow
    BY <2>3, <2>6, <2>10 DEF Inv, ClaimInv, Email!Queued
  <2>13. \A u \in Email!Threads : mailReq'[u].op = "sending" => mailReq'[u].mail \notin mailReq'[u].todo
    BY <2>4, <2>6 DEF Inv, ClaimInv
  <2>14. \A c \in Mails : mail'[c].st \in {"sent", "cancelled"} \/ ~Email!Queued(c)'
                            \/ ~mail'[c].sentAt
    BY <2>3, <2>6 DEF Inv, ClaimInv, Email!Queued
  <2>15. ClaimInv'
    BY <2>9, <2>11, <2>12, <2>13, <2>14 DEF ClaimInv, Email!Queued
  <2>16. QED
    BY <2>8, <2>15 DEF Inv
<1>5. ASSUME NEW s \in Senders, NEW answer \in Email!Answers, Email!Record(s, answer) PROVE Inv'
  <2> DEFINE m == mailReq[s].mail
             q == [op |-> "batch", todo |-> mailReq[s].todo]
             row == CASE answer = "accepted" ->
                           [mail[m] EXCEPT !.st = "sent", !.sentAt = TRUE]
                      [] answer = "refused" /\ mail[m].st = "sent" ->
                           [mail[m] EXCEPT !.tries = Email!AfterTries(mail[m].tries)]
                      [] answer = "refused" /\ mail[m].st # "sent" ->
                           Email!Failed(mail[m], mail[m].tries)
                      [] answer = "raised" -> Email!Failed(mail[m], mailReq[s].tries)
  <2>1. /\ s \in Email!Threads /\ mailReq[s].op = "sending" /\ m \in Mails
        /\ mailReq[s].todo \in SUBSET Mails /\ m \in Taken(s) /\ m \notin mailReq[s].todo
        /\ mailReq[s].tries \in 0..MaxAttempts
    BY <1>0, <1>5, RequestFields DEF Email!Record, Email!Threads, Taken, Inv, ClaimInv
  <2>2. /\ mail[m] \in Email!MailRow /\ ~mail[m].sentAt /\ mail[m].tries \in 0..MaxAttempts
        /\ mail[m].st \in {"pending", "sending", "cancelled"}
    BY <1>0, <2>1 DEF Inv, ClaimInv, Email!MailRow
  <2>3. \/ row = [mail[m] EXCEPT !.st = "sent", !.sentAt = TRUE]
        \/ row = Email!Failed(mail[m], mail[m].tries)
        \/ row = Email!Failed(mail[m], mailReq[s].tries)
    BY <2>2 DEF Email!Answers
  <2> HIDE DEF m, row
  <2>4. row \in Email!MailRow /\ (row.sentAt => row.st = "sent")
    <3>1. CASE row = [mail[m] EXCEPT !.st = "sent", !.sentAt = TRUE]
      BY <2>2, <3>1 DEF Email!MailRow
    <3>2. CASE row # [mail[m] EXCEPT !.st = "sent", !.sentAt = TRUE]
      BY <2>1, <2>2, <2>3, <3>2, FailedRow
    <3>3. QED
      BY <3>1, <3>2
  <2>5. q \in Email!Request /\ q.op = "batch" /\ q.todo = mailReq[s].todo
    BY <2>1 DEF Email!Request
  <2>6. /\ mail' = [mail EXCEPT ![m] = row] /\ mailReq' = [mailReq EXCEPT ![s] = q]
        /\ UNCHANGED cut
    BY <1>5 DEF Email!Record, m, row
  <2>7. \A u \in Email!Threads \ {s} : m \in Taken(u) =>
          row.st \in {"pending", "sending", "cancelled"} /\ ~row.sentAt
    BY <1>5, <2>1 DEF Inv, Roles, Taken, OneProcess
  <2>8. \A u \in Email!Threads \ {s} : mailReq[u].op = "retry" => mailReq[u].mail # m
    BY <2>2 DEF Inv, ClaimInv
  <2>9. q.todo \subseteq Taken(s) \ {m}
    BY <2>1, <2>5 DEF Taken
  <2> HIDE DEF q
  <2>10. row.sentAt => row.st \in {"sent", "cancelled"}
    BY <2>4
  <2>11. Releases(s, q, m, row)
    BY <2>5, <2>6, <2>7, <2>8, <2>9, <2>10 DEF Releases
  <2>12. QED
    BY <2>1, <2>4, <2>5, <2>6, <2>11, ReleaseStep
<1>6. ASSUME NEW t \in Email!Threads, (t \in Senders /\ Email!Done(t)) \/ Email!Crash(t) PROVE Inv'
  <2>1. /\ mailReq' = [mailReq EXCEPT ![t] = Email!Idle] /\ UNCHANGED mail /\ cut' \subseteq Mails
    BY <1>6 DEF Email!Done, Email!Crash, Inv, Email!TypeOK
  <2>2. QED
    BY <1>0, <2>1, RequestStep
<1>7. ASSUME NEW a \in Admins, NEW m \in Mails, Email!Retry(a, m) \/ Email!Cancel(a, m) PROVE Inv'
  <2>1. PICK op \in {"retry", "cancel"} :
          /\ Email!Button(a, op, m)
          /\ mail[m].st = IF op = "retry" THEN "failed" ELSE "pending"
    BY <1>7 DEF Email!Retry, Email!Cancel
  <2> DEFINE q == [op |-> op, mail |-> m]
  <2>2. q \in Email!Request /\ q.op = op /\ q.mail = m
    BY DEF Email!Request
  <2>3. a \in Email!Threads /\ mailReq' = [mailReq EXCEPT ![a] = q] /\ UNCHANGED <<mail, cut>>
    BY <2>1 DEF Email!Button, Email!Threads
  <2>4. op = "cancel" => Email!Queued(m)
    BY <1>0, <2>1 DEF Email!Queued
  <2> HIDE DEF q
  <2>5. QED
    BY <2>1, <2>2, <2>3, <2>4, RequestStep DEF Inv, Email!TypeOK
<1>8. ASSUME NEW a \in Admins, Email!Press(a) PROVE Inv'
  <2> DEFINE m == mailReq[a].mail
             st == IF mailReq[a].op = "retry" THEN "pending" ELSE "cancelled"
             row == [mail[m] EXCEPT !.st = st]
  <2>1. /\ a \in Email!Threads /\ mailReq[a].op \in {"retry", "cancel"} /\ m \in Mails
    BY <1>0, <1>8, RequestFields DEF Email!Press, Email!Threads
  <2>2. /\ mail[m] \in Email!MailRow
        /\ st = "pending" => mail[m].st = "failed"
    BY <1>0, <2>1 DEF Inv, ClaimInv
  <2>3. row \in Email!MailRow /\ row.st = st /\ row.sentAt = mail[m].sentAt
    <3>1. st \in {"pending", "sending", "sent", "failed", "cancelled"}
      OBVIOUS
    <3> HIDE DEF st, m
    <3>2. QED
      BY <2>2, <3>1, RowWithStatus
  <2>4. row.sentAt => row.st = "cancelled"
    BY <1>0, <2>1, <2>2, <2>3 DEF Inv, ClaimInv
  <2>5. /\ mail' = [mail EXCEPT ![m] = row] /\ mailReq' = [mailReq EXCEPT ![a] = Email!Idle]
        /\ UNCHANGED cut
    BY <1>8 DEF Email!Press
  <2>6. \A u \in Email!Threads \ {a} : m \in Taken(u) =>
          row.st \in {"pending", "sending", "cancelled"} /\ ~row.sentAt
    BY <2>2, <2>3 DEF Inv, ClaimInv
  <2>7. \A u \in Email!Threads \ {a} : mailReq[u].op = "retry" => mailReq[u].mail # m
    BY <1>8 DEF Inv, Roles, OneProcess
  <2> HIDE DEF m, st, row
  <2>8. Releases(a, Email!Idle, m, row)
    BY <1>0, <2>4, <2>5, <2>6, <2>7 DEF Releases
  <2>9. QED
    BY <1>0, <2>1, <2>3, <2>5, <2>8, ReleaseStep
<1>9. QED
  BY <1>1, <1>2, <1>3, <1>4, <1>5, <1>6, <1>7, <1>8 DEF Email!Next, Email!Threads

(* In a deployment with one process a mail that is on record as sent is    *)
(* not sent once more, however "retry" and "cancel" fall between the steps *)
(* of the job and wherever the process ends.                               *)
THEOREM SentOnce ==
  ASSUME OneProcess
  PROVE  QueuesSpec => SentIsNotResent
<1>1. QueuesInit => Inv
  BY DEF QueuesInit, Email!Init, Inv, Email!TypeOK, Roles, ClaimInv, Taken, Email!Queued,
     Email!NoRow, Email!Request, Email!Idle
<1>2. Inv /\ [QueuesNext]_<<part, vars, mailVars>> => Inv'
  <2>1. [QueuesNext]_<<part, vars, mailVars>> => [Email!Next]_Email!vars
    BY DEF QueuesNext, mailVars, Email!vars
  <2> QED
    BY <2>1, InvStep
<1>3. Inv /\ [QueuesNext]_<<part, vars, mailVars>> =>
        [\A s \in Senders, m \in Mails : Email!Begin(s, m) => ~mail[m].sentAt]_Email!vars
  <2>1. Inv => \A s \in Senders, m \in Mails : Email!Begin(s, m) => ~mail[m].sentAt
    BY DEF Inv, ClaimInv, Email!Begin, Taken, Email!Threads
  <2> QED
    BY <2>1
<1> QED
  BY <1>1, <1>2, <1>3, PTL DEF QueuesSpec, SentIsNotResent, Email!SentIsNotResent
=============================================================================
