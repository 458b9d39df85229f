------------------------------- MODULE Stays -------------------------------
(***************************************************************************)
(* Reservations and the door codes that follow from them:                  *)
(* app/reservations/services.py with the access codes and the online       *)
(* check-in of app/portal/services.py.                                     *)
(*                                                                         *)
(* A request reads and validates, commits the reservation, and only then   *)
(* talks to the lock provider in a second transaction; a scheduled job     *)
(* revokes the codes of stays that are over.  There is one step per point  *)
(* where the transactions of other requests can commit in between.  The    *)
(* ORM writes the columns that differ from the row it loaded.              *)
(*                                                                         *)
(* The lock provider is external: a call may fail, and a call whose answer *)
(* is lost may have had its effect.                                        *)
(*                                                                         *)
(* Left out: organizations and roles, guests, amounts, the numbering of    *)
(* receipts, e-mails, the audit log and outgoing webhooks, and the expiry  *)
(* of check-in links, which is the same as a guest who does not come.      *)
(***************************************************************************)
EXTENDS Integers, FiniteSets

CONSTANTS
  Reservations,  \* ids of reservation rows
  Units,         \* ids of units
  HasLock,       \* the units with a lock device
  LastDay,       \* bound on the dates
  FirstDays,     \* bound: the days a stay may begin on
  MaxCodes,      \* bound on the codes made at the lock provider
  Workers,       \* web workers
  Schedulers,    \* threads that run the revocation job
  LockResults,   \* what may come of a call: "ok", "nameless", "error", "lost"
  PageKeys,      \* the idempotency keys that check-in pages send
  Links,         \* the reservations a check-in link is sent for
  Payable        \* the reservations that may be marked paid

ASSUME StaysAssumption ==
  /\ LastDay \in Nat /\ MaxCodes \in Nat
  /\ FirstDays \subseteq 0..LastDay
  /\ HasLock \subseteq Units
  /\ Workers \cap Schedulers = {}
  /\ LockResults \subseteq {"ok", "nameless", "error", "lost"}
  /\ "none" \notin Reservations \cup PageKeys
  /\ Links \subseteq Reservations /\ Payable \subseteq Reservations

VARIABLES
  resv,     \* the rows of reservations, by id
  code,     \* the rows of access_codes, by the code they stand for
  live,     \* codes that open a door now
  checkin,  \* the check-in link of a reservation: "none", "sent" or "used"
  today,    \* the date
  req       \* what each worker or scheduler thread is doing

vars == <<resv, code, live, checkin, today, req>>
codeVars == <<code, live>>

Threads == Workers \cup Schedulers
Days    == 0..LastDay
Codes   == 1..MaxCodes

Row == [st   : {"confirmed", "cancelled"}, unit : Units,
        from : Days, to : Days, pay : {"pending", "paid", "cancelled"}]
NoRow == [st |-> "none"]

(* Idempotency keys: the id of a reservation stands for the key of its     *)
(* creation, the check-in pages send the client's own, or none.            *)
Keys == Reservations \cup PageKeys \cup {"none"}

(* A code is "issued" from the provider's answer to the commit of its row, *)
(* and "lost" if the row is not committed.  It is named if the answer held *)
(* the id by which the provider can be asked to revoke it.                 *)
Committed == {"active", "revoked"}
CodeRow == [st    : {"issued", "lost"} \cup Committed, resv : Reservations,
            key   : Keys, until : Days, named : BOOLEAN]
NoCode == [st |-> "none"]

Idle == [op |-> "idle"]
Request ==
  {Idle}
    \cup [op : {"create"}, unit : Units, from : Days, to : Days]
    \cup [op : {"write"}, by : {"update", "move", "cancel", "paid"},
          resv : Reservations, old : Row, new : Row]
    \cup [op : {"saved"}, by : {"update", "cancel"}, resv : Reservations,
          to : Days]
    \cup [op : {"issue"}, resv : Reservations, key : Keys, guest : BOOLEAN]
    \cup [op : {"insert"}, resv : Reservations, code : Codes, guest : BOOLEAN]
    \cup [op : {"checkin"}, resv : Reservations, key : Keys]
    \cup [op : {"revoke"}, by : {"cancel", "update", "job"},
          todo : SUBSET Codes, done : SUBSET Codes]

TypeOK ==
  /\ resv    \in [Reservations -> Row \cup {NoRow}]
  /\ code    \in [Codes -> CodeRow \cup {NoCode}]
  /\ live    \subseteq Codes
  /\ checkin \in [Reservations -> {"none", "sent", "used"}]
  /\ today   \in Days
  /\ req     \in [Threads -> Request]

Init ==
  /\ resv    = [r \in Reservations |-> NoRow]
  /\ code    = [c \in Codes |-> NoCode]
  /\ live    = {}
  /\ checkin = [r \in Reservations |-> "none"]
  /\ today   = 0
  /\ req     = [t \in Threads |-> Idle]

Start(t, q)    == req[t] = Idle /\ req' = [req EXCEPT ![t] = q]
Continue(t, q) == req' = [req EXCEPT ![t] = q]
Finish(t)      == Continue(t, Idle)

-----------------------------------------------------------------------------
(* Reservations.                                                           *)

Exists(r) == resv[r] # NoRow

(* Seeded fault: a stay may begin on a day another one includes at its end *)
(* only if that night is not taken.                                        *)
OverlapsStartOnly(u, from, to, but) ==
  \E r \in Reservations \ but :
    /\ resv[r].st = "confirmed" /\ resv[r].unit = u
    /\ resv[r].from <= from /\ from < resv[r].to

(* Stays are half-open: one may begin on the day another one leaves.       *)
Overlaps(u, from, to, but) ==
  \E r \in Reservations \ but :
    /\ resv[r].st = "confirmed" /\ resv[r].unit = u
    /\ resv[r].from < to /\ from < resv[r].to

(* move_reservation and resize_reservation load the row FOR UPDATE.        *)
RowLocked(r, t) ==
  \E u \in Threads \ {t} :
    req[u].op = "write" /\ req[u].by = "move" /\ req[u].resv = r

(* The row after an UPDATE of the columns in which new differs from old.   *)
Written(cur, old, new) ==
  [st   |-> IF new.st   = old.st   THEN cur.st   ELSE new.st,
   unit |-> IF new.unit = old.unit THEN cur.unit ELSE new.unit,
   from |-> IF new.from = old.from THEN cur.from ELSE new.from,
   to   |-> IF new.to   = old.to   THEN cur.to   ELSE new.to,
   pay  |-> IF new.pay  = old.pay  THEN cur.pay  ELSE new.pay]

Write(w, by, r, new) ==
  Start(w, [op |-> "write", by |-> by, resv |-> r, old |-> resv[r], new |-> new])

CreateRead(w, u, from, to) ==
  /\ from < to
  /\ ~Overlaps(u, from, to, {})
  /\ Start(w, [op |-> "create", unit |-> u, from |-> from, to |-> to])
  /\ UNCHANGED <<resv, codeVars, checkin, today>>

(* Seeded fault: a new reservation is pending, which no handler expects.   *)
CreateCommitPending(w, r) ==
  /\ req[w].op = "create" /\ ~Exists(r)
  /\ resv' = [resv EXCEPT ![r] =
                [st |-> "pending", unit |-> req[w].unit,
                 from |-> req[w].from, to |-> req[w].to, pay |-> "pending"]]
  /\ Continue(w, [op |-> "issue", resv |-> r, key |-> r, guest |-> FALSE])
  /\ UNCHANGED <<codeVars, checkin, today>>

(* The code is issued in the same request, with a key of its own.          *)
CreateCommit(w, r) ==
  /\ req[w].op = "create" /\ ~Exists(r)
  /\ resv' = [resv EXCEPT ![r] =
                [st |-> "confirmed", unit |-> req[w].unit,
                 from |-> req[w].from, to |-> req[w].to, pay |-> "pending"]]
  /\ Continue(w, [op |-> "issue", resv |-> r, key |-> r, guest |-> FALSE])
  /\ UNCHANGED <<codeVars, checkin, today>>

(* Seeded fault: an edit that leaves unit and dates alone is not checked.  *)
UpdateChecksMovesOnly(w, r, st, u, from, to) ==
  /\ Exists(r) /\ from < to
  /\ st = "confirmed" /\ <<u, from, to>> # <<resv[r].unit, resv[r].from, resv[r].to>>
       => ~Overlaps(u, from, to, {r})
  /\ Write(w, "update", r, [resv[r] EXCEPT !.st = st, !.unit = u,
                                           !.from = from, !.to = to])
  /\ UNCHANGED <<resv, codeVars, checkin, today>>

(* Every field is posted; a cancelled reservation may be confirmed again.  *)
Update(w, r, st, u, from, to) ==
  /\ Exists(r) /\ from < to
  /\ st = "confirmed" => ~Overlaps(u, from, to, {r})
  /\ Write(w, "update", r, [resv[r] EXCEPT !.st = st, !.unit = u,
                                           !.from = from, !.to = to])
  /\ UNCHANGED <<resv, codeVars, checkin, today>>

Move(w, r, u, from, to) ==
  /\ Exists(r) /\ from < to /\ ~RowLocked(r, w)
  /\ resv[r].st = "confirmed" => ~Overlaps(u, from, to, {r})
  /\ Write(w, "move", r, [resv[r] EXCEPT !.unit = u, !.from = from, !.to = to])
  /\ UNCHANGED <<resv, codeVars, checkin, today>>

(* resize_reservation is move_reservation within the unit.                 *)
Resize(w, r, from, to) == Exists(r) /\ Move(w, r, resv[r].unit, from, to)

(* Seeded fault: a paid reservation that is cancelled loses its payment.   *)
CancelForgetsPayment(w, r) ==
  /\ resv[r].st = "confirmed"
  /\ Write(w, "cancel", r, [resv[r] EXCEPT !.st = "cancelled", !.pay = "cancelled"])
  /\ UNCHANGED <<resv, codeVars, checkin, today>>

Cancel(w, r) ==
  /\ resv[r].st = "confirmed"
  /\ Write(w, "cancel", r,
       [resv[r] EXCEPT !.st  = "cancelled",
                       !.pay = IF @ = "paid" THEN "paid" ELSE "cancelled"])
  /\ UNCHANGED <<resv, codeVars, checkin, today>>

MarkPaid(w, r) ==
  /\ r \in Payable
  /\ Exists(r) /\ resv[r].pay # "paid"
  /\ Write(w, "paid", r, [resv[r] EXCEPT !.pay = "paid"])
  /\ UNCHANGED <<resv, codeVars, checkin, today>>

Save(w) ==
  /\ req[w].op = "write" /\ ~RowLocked(req[w].resv, w)
  /\ LET q == req[w] IN
       /\ resv' = [resv EXCEPT ![q.resv] = Written(@, q.old, q.new)]
       /\ IF q.by \in {"update", "cancel"}
          THEN Continue(w, [op |-> "saved", by |-> q.by, resv |-> q.resv,
                            to |-> q.old.to])
          ELSE Finish(w)
  /\ UNCHANGED <<codeVars, checkin, today>>

-----------------------------------------------------------------------------
(* Access codes.                                                           *)

(* Seeded fault: a key counts as taken before the row of its code is       *)
(* committed.                                                              *)
KeyTakenUncommitted(key) ==
  key # "none" /\ \E c \in Codes : /\ code[c].st \in {"issued"} \cup Committed
                                  /\ code[c].key = key

(* The row is looked up by its key alone, over all reservations.           *)
KeyTaken(key) ==
  key # "none" /\ \E c \in Codes : code[c].st \in Committed /\ code[c].key = key

(* The provider makes a code, which opens the door at once.                *)
MakeCode(c, r, key, st, named) ==
  /\ code[c] = NoCode
  /\ code' = [code EXCEPT ![c] = [st |-> st, resv |-> r, key |-> key,
                                 until |-> resv[r].to, named |-> named]]
  /\ live' = live \cup {c}

(* issue_access_code_for_reservation, up to the answer of the provider.    *)
(* A unit without a lock gets no code; the check-in is then refused, and   *)
(* so it is when the provider fails.                                       *)
IssueCall(w) ==
  /\ req[w].op = "issue"
  /\ LET q == req[w] IN
       \/ /\ resv[q.resv].unit \notin HasLock
          /\ Finish(w)
          /\ UNCHANGED codeVars
       \/ /\ resv[q.resv].unit \in HasLock
          /\ KeyTaken(q.key)
          /\ IF q.guest
             THEN Continue(w, [op |-> "checkin", resv |-> q.resv, key |-> q.key])
             ELSE Finish(w)
          /\ UNCHANGED codeVars
       \/ /\ resv[q.resv].unit \in HasLock
          /\ ~KeyTaken(q.key)
          /\ \/ \E c \in Codes, answer \in LockResults \cap {"ok", "nameless"} :
                  /\ MakeCode(c, q.resv, q.key, "issued", answer = "ok")
                  /\ Continue(w, [op |-> "insert", resv |-> q.resv,
                                  code |-> c, guest |-> q.guest])
             \/ /\ "lost" \in LockResults
                /\ \E c \in Codes : MakeCode(c, q.resv, q.key, "lost", TRUE)
                /\ Finish(w)
             \/ /\ "error" \in LockResults
                /\ Finish(w)
                /\ UNCHANGED codeVars
  /\ UNCHANGED <<resv, checkin, today>>

(* Inserting a key a second time fails, after the provider made the code.  *)
IssueCommit(w) ==
  /\ req[w].op = "insert"
  /\ LET q     == req[w]
         key   == code[q.code].key
         taken == KeyTaken(key)
     IN  /\ code' = [code EXCEPT ![q.code].st = IF taken THEN "lost" ELSE "active"]
         /\ IF q.guest /\ ~taken
            THEN Continue(w, [op |-> "checkin", resv |-> q.resv, key |-> key])
            ELSE Finish(w)
  /\ UNCHANGED <<resv, live, checkin, today>>

(* After an edit that moved the end or cancelled the stay, and after a     *)
(* cancellation, the active codes are revoked.                             *)
RevokeRead(w) ==
  /\ req[w].op = "saved"
  /\ LET q == req[w]
         active == {c \in Codes : code[c].st = "active" /\ code[c].resv = q.resv}
         needed == \/ q.by = "cancel"
                   \/ resv[q.resv].st = "cancelled"
                   \/ resv[q.resv].to # q.to
     IN  IF needed /\ active # {}
         THEN Continue(w, [op |-> "revoke", by |-> q.by,
                           todo |-> active, done |-> {}])
         ELSE Finish(w)
  /\ UNCHANGED <<resv, codeVars, checkin, today>>

(* Seeded fault: a code that ends at this very hour is left for later.     *)
ExpireReadLate(s) ==
  /\ LET old == {c \in Codes : code[c].st = "active" /\ code[c].until < today} IN
       /\ old # {}
       /\ Start(s, [op |-> "revoke", by |-> "job", todo |-> old, done |-> {}])
  /\ UNCHANGED <<resv, codeVars, checkin, today>>

(* auto_revoke_expired_access_codes.  valid_until is one hour into the day *)
(* of departure; a day of the model begins at that hour.                   *)
ExpireRead(s) ==
  /\ LET old == {c \in Codes : code[c].st = "active" /\ code[c].until <= today} IN
       /\ old # {}
       /\ Start(s, [op |-> "revoke", by |-> "job", todo |-> old, done |-> {}])
  /\ UNCHANGED <<resv, codeVars, checkin, today>>

(* One code at a time.  Only a code with an id is revoked at the provider. *)
Revoke(t, c) ==
  /\ req[t].op = "revoke" /\ c \in req[t].todo
  /\ \/ code[c].named /\ "ok" \in LockResults /\ live' = live \ {c}
     \/ ~code[c].named /\ live' = live
  /\ Continue(t, [req[t] EXCEPT !.todo = @ \ {c}, !.done = @ \cup {c}])
  /\ UNCHANGED <<resv, code, checkin, today>>

(* An exception ends the loop.  In an edit and in the job it rolls back    *)
(* what the loop has recorded; a cancellation catches it, and the commit   *)
(* of the event published next takes the codes that were done.             *)
RevokeFails(t, c) ==
  /\ req[t].op = "revoke" /\ c \in req[t].todo /\ code[c].named
  /\ \/ "error" \in LockResults /\ live' = live
     \/ "lost" \in LockResults /\ live' = live \ {c}
  /\ IF req[t].by = "cancel" THEN Continue(t, [req[t] EXCEPT !.todo = {}])
                             ELSE Finish(t)
  /\ UNCHANGED <<resv, code, checkin, today>>

(* Seeded fault: each code is recorded as the loop comes to it.            *)
RevokeCommitEarly(t) ==
  /\ req[t].op = "revoke"
  /\ code' = [c \in Codes |->
                IF c \in req[t].done \cup req[t].todo
                THEN [code[c] EXCEPT !.st = "revoked"] ELSE code[c]]
  /\ Finish(t)
  /\ UNCHANGED <<resv, live, checkin, today>>

RevokeCommit(t) ==
  /\ req[t].op = "revoke" /\ req[t].todo = {}
  /\ code' = [c \in Codes |->
                IF c \in req[t].done
                THEN [code[c] EXCEPT !.st = "revoked"] ELSE code[c]]
  /\ Finish(t)
  /\ UNCHANGED <<resv, live, checkin, today>>

-----------------------------------------------------------------------------
(* Online check-in.                                                        *)

SendCheckInLink(r) ==
  /\ r \in Links
  /\ Exists(r) /\ checkin[r] = "none"
  /\ checkin' = [checkin EXCEPT ![r] = "sent"]
  /\ UNCHANGED <<resv, codeVars, today, req>>

(* The link is valid until it is used, whatever became of the stay.        *)
CheckIn(w, r, key) ==
  /\ checkin[r] = "sent"
  /\ Start(w, [op |-> "issue", resv |-> r, key |-> key, guest |-> TRUE])
  /\ UNCHANGED <<resv, codeVars, checkin, today>>

(* The registration and the use of the link are one transaction.  When two *)
(* requests insert the registration at once the second one fails, which    *)
(* leaves the same rows.                                                   *)
CheckInCommit(w) ==
  /\ req[w].op = "checkin"
  /\ checkin' = [checkin EXCEPT ![req[w].resv] = "used"]
  /\ Finish(w)
  /\ UNCHANGED <<resv, codeVars, today>>

-----------------------------------------------------------------------------
(* The date matters to the job only.                                       *)
NextDay ==
  /\ Schedulers # {} /\ today < LastDay
  /\ today' = today + 1
  /\ UNCHANGED <<resv, codeVars, checkin, req>>

(* A process stops in the middle of a request, or the request fails, as    *)
(* storing the document of a check-in may.                                 *)
Crash(t) ==
  /\ req[t] # Idle
  /\ code' = IF req[t].op = "insert"
             THEN [code EXCEPT ![req[t].code].st = "lost"] ELSE code
  /\ Finish(t)
  /\ UNCHANGED <<resv, live, checkin, today>>

Next ==
  \/ \E w \in Workers, u \in Units, from \in FirstDays, to \in Days :
       \/ CreateRead(w, u, from, to)
       \/ \E r \in Reservations :
            \/ Move(w, r, u, from, to)
            \/ \E st \in {"confirmed", "cancelled"} : Update(w, r, st, u, from, to)
  \/ \E w \in Workers, r \in Reservations :
       \/ CreateCommit(w, r)
       \/ \E from \in FirstDays, to \in Days : Resize(w, r, from, to)
       \/ Cancel(w, r)
       \/ MarkPaid(w, r)
       \/ \E key \in PageKeys \cup {"none"} : CheckIn(w, r, key)
  \/ \E w \in Workers :
       \/ Save(w) \/ RevokeRead(w)
       \/ IssueCall(w) \/ IssueCommit(w)
       \/ CheckInCommit(w)
  \/ \E s \in Schedulers : ExpireRead(s)
  \/ \E t \in Threads :
       \/ RevokeCommit(t) \/ Crash(t)
       \/ \E c \in Codes : Revoke(t, c) \/ RevokeFails(t, c)
  \/ \E r \in Reservations : SendCheckInLink(r)
  \/ NextDay

Spec == Init /\ [][Next]_vars

(* The job runs every 15 minutes, and every outage ends: from some time on *)
(* no call of the job fails and nothing cuts it short.  One good call of   *)
(* each code now and then would not do, as one failure undoes the batch.   *)
JobStep(s) == ExpireRead(s) \/ RevokeCommit(s) \/ \E c \in Codes : Revoke(s, c)
JobFails(s) == Crash(s) \/ \E c \in Codes : RevokeFails(s, c)

JobFairness ==
  \A s \in Schedulers :
    /\ WF_vars(JobStep(s))
    /\ <>[][~JobFails(s)]_vars

FairSpec == Spec /\ JobFairness

-----------------------------------------------------------------------------
(* Properties.                                                             *)

(* Revoked in the rows means revoked at the door, for every code the       *)
(* provider named, whichever edits, cancellations, jobs, failures of the   *)
(* provider and crashes met on it: it is asked first, the rows are         *)
(* committed last, and a loop cut short records no more than it has done   *)
(* (revoke_access_codes_for_reservation, auto_revoke_expired_access_codes).*)
NamedRevokedAreDead ==
  \A c \in Codes : code[c].st = "revoked" /\ code[c].named => c \notin live

(* The tests take is_active = False for the end of a code; it is not, for  *)
(* one whose id the provider did not return.                               *)
RevokedCodesAreDead ==
  \A c \in Codes : code[c].st = "revoked" => c \notin live

RestsOnCode(r, key) ==
  \E c \in Codes :
    /\ code[c].st \in Committed
    /\ code[c].resv = r \/ (key # "none" /\ code[c].key = key)

(* complete_checkin spends the link only once it rests on a code on        *)
(* record: one made for the stay, or one that stands for the key the page  *)
(* was sent with.  No failure of the provider, lost answer, crash or race  *)
(* for the key completes a check-in without.                               *)
CheckInRestsOnACode ==
  [][\A r \in Reservations :
       checkin[r] # "used" /\ checkin'[r] = "used" =>
         \E w \in Workers : /\ req[w].op = "checkin" /\ req[w].resv = r
                            /\ RestsOnCode(r, req[w].key)]_vars

(* A guest whose check-in is complete was given a code of the stay on      *)
(* record, which cancelling the stay revokes.                              *)
CheckedInHasCode ==
  \A r \in Reservations :
    checkin[r] = "used" =>
      \E c \in Codes : code[c].st \in Committed /\ code[c].resv = r

(* "reservation validation enforces [...] overlap prevention": no two      *)
(* confirmed stays share a night in a unit.                                *)
NoDoubleBooking ==
  \A r, q \in Reservations :
    /\ r # q
    /\ resv[r].st = "confirmed" /\ resv[q].st = "confirmed"
    /\ resv[r].unit = resv[q].unit
    => resv[r].to <= resv[q].from \/ resv[q].to <= resv[r].from

(* The calendars of the units as the promise sees them.                    *)
StaysOf(u, d) == {r \in Reservations : /\ resv[r].st = "confirmed"
                                       /\ resv[r].unit = u
                                       /\ resv[r].from <= d /\ d < resv[r].to}
Guests == [u \in Units |-> [d \in 0..(LastDay - 1) |-> StaysOf(u, d)]]

Calendar == INSTANCE UnitCalendar WITH guests <- Guests

(* Requests that run one at a time never give a night to two stays, and a  *)
(* stay gives up its nights only for those it takes in the same step.      *)
ImplementsUnitCalendar == Calendar!Spec

(* A reservation that was marked paid stays paid through edits, moves and  *)
(* cancellation (cancel_reservation keeps "paid").                         *)
PaidStaysPaid ==
  [][\A r \in Reservations :
       Exists(r) /\ resv[r].pay = "paid" => resv'[r].pay = "paid"]_resv

(* Of all requests that overlap, only a cancellation can take back the     *)
(* mark "paid", and only one that read the stay while its payment was      *)
(* pending: edits and moves that read it then write other columns, and a   *)
(* cancellation of a stay that had been cancelled before does not touch it.*)
OnlyStaleCancelUnpays ==
  [][\A r \in Reservations :
       Exists(r) /\ resv[r].pay = "paid" /\ resv'[r].pay # "paid" =>
         \E w \in Workers :
           /\ req[w].op = "write" /\ req[w].by = "cancel" /\ req[w].resv = r
           /\ req[w].old.pay = "pending" /\ req[w].old.st = "confirmed"
    ]_resv

(* No code becomes valid for a stay that has been cancelled: cancelling    *)
(* revokes the codes, and there are none after it.                         *)
NoCodeAfterCancellation ==
  [][\A c \in Codes :
       code[c].st # "active" /\ code'[c].st = "active"
         => resv[code'[c].resv].st # "cancelled"]_vars

(* A code on record whose time is over is revoked in the end, though the   *)
(* provider and the job may fail again and again on the way.               *)
ExpiredCodesAreRevoked ==
  \A c \in Codes :
    code[c].st = "active" /\ code[c].until <= today ~> code[c].st = "revoked"
=============================================================================
