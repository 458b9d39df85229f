---------------------------- MODULE StaysProofs ----------------------------
(***************************************************************************)
(* What holds of Stays for every set of reservations, units, workers and   *)
(* schedulers and for all bounds.                                          *)
(*                                                                         *)
(* The type invariant is not inductive by itself: a request remembers a    *)
(* reservation and a code across its steps, and what it later writes is    *)
(* well typed only because both are still there.  StayInv says so.         *)
(* The last section is about one web worker.                               *)
(***************************************************************************)
EXTENDS Stays, TLAPS

(* The reservation a request or a link is about exists.                    *)
RequestRows ==
  /\ \A t \in Threads :
       req[t].op \in {"write", "saved", "issue", "insert", "checkin"}
         => Exists(req[t].resv)
  /\ \A r \in Reservations : checkin[r] # "none" => Exists(r)

(* A code on its way to the table belongs to one request; the codes a      *)
(* request revokes are in the table.                                       *)
RequestCodes ==
  /\ \A t \in Threads :
       req[t].op = "insert" => /\ code[req[t].code].st = "issued"
                               /\ code[req[t].code].resv = req[t].resv
  /\ \A t, u \in Threads :
       req[t].op = "insert" /\ req[u].op = "insert" /\ req[t].code = req[u].code
         => t = u
  /\ \A t \in Threads :
       req[t].op = "revoke"
         => \A c \in req[t].todo \cup req[t].done : code[c].st \in Committed

StayInv == TypeOK /\ RequestRows /\ RequestCodes

(* Who revokes.                                                            *)
Reasons == {"cancel", "update", "job"}

-----------------------------------------------------------------------------
(* The fields of a request, by its kind.                                   *)
LEMMA RequestFields ==
  ASSUME NEW q \in Request
  PROVE  /\ q.op = "create" => q.unit \in Units /\ q.from \in Days /\ q.to \in Days
         /\ q.op = "write" => /\ q.resv \in Reservations
                              /\ q.by \in {"update", "move", "cancel", "paid"}
                              /\ q.old \in Row /\ q.new \in Row
         /\ q.op = "saved" => /\ q.resv \in Reservations /\ q.to \in Days
                              /\ q.by \in {"update", "cancel"}
         /\ q.op = "issue" => /\ q.resv \in Reservations /\ q.key \in Keys
                              /\ q.guest \in BOOLEAN
         /\ q.op = "insert" => /\ q.resv \in Reservations /\ q.code \in Codes
                               /\ q.guest \in BOOLEAN
         /\ q.op = "checkin" => q.resv \in Reservations /\ q.key \in Keys
         /\ q.op = "revoke" => /\ q.by \in Reasons
                               /\ q.todo \in SUBSET Codes /\ q.done \in SUBSET Codes
         /\ q.op \in {"idle", "create", "write", "saved", "issue", "insert",
                      "checkin", "revoke"}
  BY DEF Request, Idle, Reasons

(* What a thread that takes up, continues or ends a request leaves alone.  *)
LEMMA Requests ==
  ASSUME TypeOK, NEW t \in Threads, NEW q \in Request, Continue(t, q)
  PROVE  /\ req' \in [Threads -> Request]
         /\ req'[t] = q
         /\ \A u \in Threads \ {t} : req'[u] = req[u]
  BY DEF TypeOK, Continue

LEMMA IdleRequest == Idle \in Request /\ Idle.op = "idle"
  BY DEF Request, Idle

LEMMA RowThere ==
  ASSUME TypeOK, NEW r \in Reservations, Exists(r)
  PROVE  resv[r] \in Row
  BY DEF TypeOK, Exists

LEMMA CodeThere ==
  ASSUME TypeOK, NEW c \in Codes, code[c].st # "none"
  PROVE  code[c] \in CodeRow
  BY DEF TypeOK, NoCode

(* Steps that change no row: a thread turns to something it may do.        *)
LEMMA QuietStep ==
  ASSUME StayInv, NEW t \in Threads, NEW q \in Request, Continue(t, q),
         resv' = resv, code' = code, checkin' = checkin, today' = today,
         live' \subseteq Codes, q.op # "insert",
         q.op \in {"write", "saved", "issue", "checkin"} => Exists(q.resv),
         q.op = "revoke" => \A c \in q.todo \cup q.done : code[c].st \in Committed
  PROVE  StayInv'
<1>. USE DEF StayInv
<1>1. /\ req' \in [Threads -> Request]
      /\ req'[t] = q
      /\ \A u \in Threads \ {t} : req'[u] = req[u]
  BY Requests
<1>2. TypeOK'
  BY <1>1 DEF TypeOK
<1>3. RequestRows'
  BY <1>1 DEF RequestRows, Exists
<1>4. RequestCodes'
  BY <1>1 DEF RequestCodes
<1>. QED
  BY <1>2, <1>3, <1>4

(* Steps that write one reservation and keep those that exist.             *)
LEMMA RowStep ==
  ASSUME StayInv, NEW t \in Threads, NEW q \in Request, Continue(t, q),
         NEW r \in Reservations, NEW row \in Row,
         resv' = [resv EXCEPT ![r] = row],
         code' = code, checkin' = checkin, today' = today, live' = live,
         q.op \notin {"insert", "revoke"},
         q.op \in {"write", "saved", "issue", "checkin"} => q.resv = r
  PROVE  StayInv'
<1>. USE DEF StayInv
<1>1. /\ req' \in [Threads -> Request]
      /\ req'[t] = q
      /\ \A u \in Threads \ {t} : req'[u] = req[u]
  BY Requests
<1>2. TypeOK'
  BY <1>1 DEF TypeOK
<1>3. \A s \in Reservations : Exists(s) \/ s = r => Exists(s)'
  BY DEF TypeOK, Exists, Row, NoRow
<1>4. RequestRows'
  <2>1. \A s \in Reservations : checkin'[s] # "none" => Exists(s)'
    BY <1>3 DEF RequestRows
  <2>2. ASSUME NEW u \in Threads,
               req'[u].op \in {"write", "saved", "issue", "insert", "checkin"}
        PROVE  resv'[req'[u].resv] # NoRow
    <3>1. CASE u = t
      BY <3>1, <2>2, <1>1, <1>3 DEF Exists
    <3>2. CASE u # t
      <4>1. req'[u] = req[u] /\ Exists(req[u].resv)
        BY <3>2, <2>2, <1>1 DEF RequestRows
      <4>2. req[u].resv \in Reservations
        BY <4>1, <2>2, RequestFields DEF TypeOK
      <4>. QED
        BY <4>1, <4>2, <1>3 DEF Exists
    <3>. QED
      BY <3>1, <3>2
  <2>. QED
    BY <2>1, <2>2 DEF RequestRows, Exists
<1>5. RequestCodes'
  BY <1>1 DEF RequestCodes
<1>. QED
  BY <1>2, <1>4, <1>5

(* A code is made where there was none.                                    *)
LEMMA CodeMade ==
  ASSUME StayInv, NEW c \in Codes, NEW r \in Reservations, NEW key \in Keys,
         NEW st \in {"issued", "lost"}, NEW named \in BOOLEAN, Exists(r),
         MakeCode(c, r, key, st, named)
  PROVE  /\ code' \in [Codes -> CodeRow \cup {NoCode}]
         /\ live' \subseteq Codes
         /\ code'[c].st = st /\ code'[c].resv = r
         /\ code[c].st = "none"
         /\ \A d \in Codes \ {c} : code'[d] = code[d]
<1>1. resv[r].to \in Days
  BY RowThere DEF StayInv, Row
<1>. QED
  BY <1>1 DEF StayInv, TypeOK, MakeCode, CodeRow, NoCode

-----------------------------------------------------------------------------
(* Every step keeps StayInv.                                               *)

LEMMA CreateReadStep ==
  ASSUME StayInv, NEW w \in Workers, NEW u \in Units, NEW from \in FirstDays,
         NEW to \in Days, CreateRead(w, u, from, to)
  PROVE  StayInv'
<1>. DEFINE q == [op |-> "create", unit |-> u, from |-> from, to |-> to]
<1>1. q \in Request
  BY StaysAssumption DEF Request, Days
<1>2. w \in Threads /\ Continue(w, q)
  BY DEF Threads, CreateRead, Start, Continue
<1>. QED
  BY <1>1, <1>2, QuietStep DEF CreateRead, codeVars, StayInv, TypeOK

(* A request that has validated a change of a row keeps it for its commit. *)
LEMMA WriteStep ==
  ASSUME StayInv, NEW w \in Workers, NEW r \in Reservations, Exists(r),
         NEW by \in {"update", "move", "cancel", "paid"}, NEW new \in Row,
         Write(w, by, r, new),
         UNCHANGED <<resv, codeVars, checkin, today>>
  PROVE  StayInv'
<1>. DEFINE q == [op |-> "write", by |-> by, resv |-> r, old |-> resv[r],
                  new |-> new]
<1>1. q \in Request
  BY RowThere DEF Request, StayInv
<1>2. w \in Threads /\ Continue(w, q)
  BY DEF Threads, Write, Start, Continue
<1>. QED
  BY <1>1, <1>2, QuietStep DEF codeVars, StayInv, TypeOK

LEMMA UpdateStep ==
  ASSUME StayInv, NEW w \in Workers, NEW r \in Reservations,
         NEW st \in {"confirmed", "cancelled"}, NEW u \in Units,
         NEW from \in FirstDays, NEW to \in Days, Update(w, r, st, u, from, to)
  PROVE  StayInv'
<1>1. [resv[r] EXCEPT !.st = st, !.unit = u, !.from = from, !.to = to] \in Row
  BY RowThere, StaysAssumption DEF Update, StayInv, Row, Days
<1>. QED
  BY <1>1, WriteStep DEF Update

LEMMA MoveStep ==
  ASSUME StayInv, NEW w \in Workers, NEW r \in Reservations, NEW u \in Units,
         NEW from \in FirstDays, NEW to \in Days, Move(w, r, u, from, to)
  PROVE  StayInv'
<1>1. [resv[r] EXCEPT !.unit = u, !.from = from, !.to = to] \in Row
  BY RowThere, StaysAssumption DEF Move, StayInv, Row, Days
<1>. QED
  BY <1>1, WriteStep DEF Move

LEMMA ResizeStep ==
  ASSUME StayInv, NEW w \in Workers, NEW r \in Reservations,
         NEW from \in FirstDays, NEW to \in Days, Resize(w, r, from, to)
  PROVE  StayInv'
<1>1. resv[r].unit \in Units
  BY RowThere DEF Resize, StayInv, Row
<1>. QED
  BY <1>1, MoveStep DEF Resize

LEMMA CancelStep ==
  ASSUME StayInv, NEW w \in Workers, NEW r \in Reservations, Cancel(w, r)
  PROVE  StayInv'
<1>1. Exists(r)
  BY DEF Cancel, Exists, NoRow
<1>2. [resv[r] EXCEPT !.st = "cancelled",
                      !.pay = IF @ = "paid" THEN "paid" ELSE "cancelled"] \in Row
  BY <1>1, RowThere DEF StayInv, Row
<1>. QED
  BY <1>1, <1>2, WriteStep DEF Cancel

LEMMA MarkPaidStep ==
  ASSUME StayInv, NEW w \in Workers, NEW r \in Reservations, MarkPaid(w, r)
  PROVE  StayInv'
<1>1. Exists(r) /\ [resv[r] EXCEPT !.pay = "paid"] \in Row
  BY RowThere DEF MarkPaid, StayInv, Row
<1>. QED
  BY <1>1, WriteStep DEF MarkPaid

LEMMA CreateCommitStep ==
  ASSUME StayInv, NEW w \in Workers, NEW r \in Reservations, CreateCommit(w, r)
  PROVE  StayInv'
<1>. DEFINE row == [st |-> "confirmed", unit |-> req[w].unit,
                    from |-> req[w].from, to |-> req[w].to, pay |-> "pending"]
            q == [op |-> "issue", resv |-> r, key |-> r, guest |-> FALSE]
<1>1. w \in Threads /\ req[w] \in Request /\ req[w].op = "create"
  BY DEF Threads, CreateCommit, StayInv, TypeOK
<1>2. row \in Row
  BY <1>1, RequestFields DEF Row
<1>3. q \in Request
  BY DEF Request, Keys
<1>4. Continue(w, q) /\ resv' = [resv EXCEPT ![r] = row]
  BY DEF CreateCommit
<1>5. q.op = "issue" /\ q.resv = r
  OBVIOUS
<1>6. UNCHANGED <<code, live, checkin, today>>
  BY DEF CreateCommit, codeVars
<1>. HIDE DEF q, row
<1>. QED
  BY <1>1, <1>2, <1>3, <1>4, <1>5, <1>6, RowStep

LEMMA SaveStep ==
  ASSUME StayInv, NEW w \in Workers, Save(w)
  PROVE  StayInv'
<1>. DEFINE q == req[w]
            row == Written(resv[q.resv], q.old, q.new)
            after == IF q.by \in {"update", "cancel"}
                     THEN [op |-> "saved", by |-> q.by, resv |-> q.resv,
                           to |-> q.old.to]
                     ELSE Idle
<1>1. /\ w \in Threads /\ q \in Request /\ q.op = "write"
      /\ q.resv \in Reservations /\ q.old \in Row /\ q.new \in Row
      /\ q.by \in {"update", "move", "cancel", "paid"}
      /\ Exists(q.resv)
  BY RequestFields DEF Threads, Save, StayInv, TypeOK, RequestRows
<1>2. row \in Row
  BY <1>1, RowThere DEF Written, Row, StayInv
<1>3. after \in Request
  BY <1>1, IdleRequest DEF Request, Row
<1>4. after.op \in {"saved", "idle"} /\ (after.op = "saved" => after.resv = q.resv)
  BY IdleRequest
<1>5. Continue(w, after)
  BY DEF Save, Finish
<1>6. resv' = [resv EXCEPT ![q.resv] = row]
  BY DEF Save
<1>7. UNCHANGED <<code, live, checkin, today>>
  BY DEF Save, codeVars
<1>. HIDE DEF q, row, after
<1>. QED
  BY <1>1, <1>2, <1>3, <1>4, <1>5, <1>6, <1>7, RowStep

(* The step of a request that has just got a new code from the provider.   *)
LEMMA CodeMadeStep ==
  ASSUME StayInv, NEW w \in Workers, NEW c \in Codes, NEW r \in Reservations,
         NEW key \in Keys, NEW st \in {"issued", "lost"}, NEW named \in BOOLEAN,
         Exists(r), MakeCode(c, r, key, st, named), NEW q \in Request, Continue(w, q),
         \/ q = Idle
         \/ q.op = "insert" /\ q.code = c /\ q.resv = r /\ st = "issued",
         UNCHANGED <<resv, checkin, today>>
  PROVE  StayInv'
<1>. USE DEF StayInv
<1>1. /\ code' \in [Codes -> CodeRow \cup {NoCode}]
      /\ live' \subseteq Codes
      /\ code'[c].st = st /\ code'[c].resv = r
      /\ code[c].st = "none"
      /\ \A d \in Codes \ {c} : code'[d] = code[d]
  BY CodeMade
<1>2. /\ req' \in [Threads -> Request]
      /\ req'[w] = q /\ w \in Threads
      /\ \A u \in Threads \ {w} : req'[u] = req[u]
  BY Requests DEF Threads
<1>3. TypeOK'
  BY <1>1, <1>2 DEF TypeOK
<1>4. RequestRows'
  BY <1>2, IdleRequest DEF RequestRows, Exists
<1>5. \A u \in Threads : req[u].op = "insert" => req[u].code \in Codes \ {c}
  BY <1>1, RequestFields DEF TypeOK, RequestCodes
<1>6. \A u \in Threads :
        req[u].op = "revoke" => req[u].todo \cup req[u].done \subseteq Codes \ {c}
  <2>1. ASSUME NEW u \in Threads, req[u].op = "revoke"
        PROVE  req[u].todo \cup req[u].done \subseteq Codes
    BY <2>1, RequestFields DEF TypeOK
  <2>. QED
    BY <1>1, <2>1 DEF RequestCodes, Committed
<1>7. \A u \in Threads :
        req'[u].op = "insert" => /\ code'[req'[u].code].st = "issued"
                                 /\ code'[req'[u].code].resv = req'[u].resv
  BY <1>1, <1>2, <1>5, IdleRequest DEF RequestCodes
<1>8. \A u, v \in Threads :
        req'[u].op = "insert" /\ req'[v].op = "insert" /\ req'[u].code = req'[v].code
          => u = v
  BY <1>2, <1>5, IdleRequest DEF RequestCodes
<1>9. \A u \in Threads :
        req'[u].op = "revoke"
          => \A d \in req'[u].todo \cup req'[u].done : code'[d].st \in Committed
  BY <1>1, <1>2, <1>6, IdleRequest DEF RequestCodes
<1>. QED
  BY <1>3, <1>4, <1>7, <1>8, <1>9 DEF RequestCodes

LEMMA IssueCallStep ==
  ASSUME StayInv, NEW w \in Workers, IssueCall(w)
  PROVE  StayInv'
<1>. DEFINE q == req[w]
<1>1. /\ w \in Threads /\ q \in Request /\ q.op = "issue"
      /\ q.resv \in Reservations /\ q.key \in Keys /\ q.guest \in BOOLEAN
      /\ Exists(q.resv)
      /\ UNCHANGED <<resv, checkin, today>>
  BY RequestFields DEF Threads, IssueCall, StayInv, TypeOK, RequestRows
<1>2. CASE Finish(w) /\ UNCHANGED codeVars
  BY <1>1, <1>2, IdleRequest, QuietStep DEF Finish, codeVars, StayInv, TypeOK
<1>3. CASE Continue(w, [op |-> "checkin", resv |-> q.resv, key |-> q.key]) /\ UNCHANGED codeVars
  <2>. DEFINE p == [op |-> "checkin", resv |-> q.resv, key |-> q.key]
  <2>1. p \in Request /\ p.op = "checkin" /\ p.resv = q.resv
    BY <1>1 DEF Request
  <2>. HIDE DEF q
  <2>. QED
    BY <1>1, <1>3, <2>1, QuietStep DEF codeVars, StayInv, TypeOK
<1>4. CASE \E c \in Codes, named \in BOOLEAN :
         /\ MakeCode(c, q.resv, q.key, "issued", named)
         /\ Continue(w, [op |-> "insert", resv |-> q.resv,
                                            code |-> c, guest |-> q.guest])
  <2>1. PICK c \in Codes, named \in BOOLEAN :
         /\ MakeCode(c, q.resv, q.key, "issued", named)
         /\ Continue(w, [op |-> "insert", resv |-> q.resv,
                                           code |-> c, guest |-> q.guest])
    BY <1>4
  <2>. DEFINE p == [op |-> "insert", resv |-> q.resv, code |-> c,
                    guest |-> q.guest]
  <2>2. p \in Request /\ p.op = "insert" /\ p.code = c /\ p.resv = q.resv
    BY <1>1 DEF Request
  <2>3. Continue(w, p)
    BY <2>1
  <2>. HIDE DEF q, p
  <2>. QED
    BY <1>1, <2>1, <2>2, <2>3, CodeMadeStep
<1>5. CASE (\E c \in Codes : MakeCode(c, q.resv, q.key, "lost", TRUE)) /\ Finish(w)
  <2>1. PICK c \in Codes : MakeCode(c, q.resv, q.key, "lost", TRUE)
    BY <1>5
  <2>. HIDE DEF q
  <2>. QED
    BY <1>1, <1>5, <2>1, IdleRequest, CodeMadeStep DEF Finish
<1>6. \A answer \in LockResults : (answer = "ok") \in BOOLEAN
  OBVIOUS
<1>. QED
  BY <1>2, <1>3, <1>4, <1>5, <1>6 DEF IssueCall

(* A step that only records the codes of one request: those it inserts or  *)
(* those it has revoked.                                                   *)
LEMMA RecordStep ==
  ASSUME StayInv, NEW t \in Threads, NEW q \in Request, Continue(t, q),
         q = Idle \/ (q.op = "checkin" /\ Exists(q.resv)),
         code' \in [Codes -> CodeRow \cup {NoCode}],
         \A c \in Codes : code[c].st \in Committed => code'[c].st \in Committed,
         \A u \in Threads \ {t} :
           req[u].op = "insert" => code'[req[u].code] = code[req[u].code],
         UNCHANGED <<resv, live, checkin, today>>
  PROVE  StayInv'
<1>. USE DEF StayInv
<1>1. /\ req' \in [Threads -> Request]
      /\ req'[t] = q
      /\ \A u \in Threads \ {t} : req'[u] = req[u]
  BY Requests
<1>2. TypeOK'
  BY <1>1 DEF TypeOK
<1>3. RequestRows'
  BY <1>1, IdleRequest DEF RequestRows, Exists
<1>4. \A u \in Threads :
        req[u].op = "revoke" => req[u].todo \cup req[u].done \subseteq Codes
  BY RequestFields DEF TypeOK
<1>5. RequestCodes'
  <2>1. \A u \in Threads :
          req'[u].op = "insert" => /\ code'[req'[u].code].st = "issued"
                                   /\ code'[req'[u].code].resv = req'[u].resv
    BY <1>1, IdleRequest DEF RequestCodes
  <2>2. \A u, v \in Threads :
          req'[u].op = "insert" /\ req'[v].op = "insert" /\ req'[u].code = req'[v].code
            => u = v
    BY <1>1, IdleRequest DEF RequestCodes
  <2>3. \A u \in Threads :
          req'[u].op = "revoke"
            => \A d \in req'[u].todo \cup req'[u].done : code'[d].st \in Committed
    BY <1>1, <1>4, IdleRequest DEF RequestCodes
  <2>. QED
    BY <2>1, <2>2, <2>3 DEF RequestCodes
<1>. QED
  BY <1>2, <1>3, <1>5

LEMMA IssueCommitStep ==
  ASSUME StayInv, NEW w \in Workers, IssueCommit(w)
  PROVE  StayInv'
<1>. DEFINE q == req[w]
            taken == KeyTaken(code[q.code].key)
            st == IF taken THEN "lost" ELSE "active"
            p == IF q.guest /\ ~taken
                 THEN [op |-> "checkin", resv |-> q.resv,
                       key |-> code[q.code].key]
                 ELSE Idle
<1>1. /\ w \in Threads /\ q \in Request /\ q.op = "insert"
      /\ q.resv \in Reservations /\ q.code \in Codes /\ q.guest \in BOOLEAN
      /\ Exists(q.resv) /\ code[q.code].st = "issued"
      /\ UNCHANGED <<resv, live, checkin, today>>
  BY RequestFields DEF Threads, IssueCommit, StayInv, TypeOK, RequestRows,
                       RequestCodes
<1>4. code[q.code] \in CodeRow
  BY <1>1, CodeThere DEF StayInv
<1>2. p \in Request /\ (p = Idle \/ (p.op = "checkin" /\ Exists(p.resv)))
  BY <1>1, <1>4, IdleRequest DEF Request, CodeRow
<1>3. Continue(w, p) /\ code' = [code EXCEPT ![q.code].st = st]
  BY DEF IssueCommit, Finish
<1>5. [code[q.code] EXCEPT !.st = st] \in CodeRow
  BY <1>4 DEF CodeRow, Committed
<1>6. code' \in [Codes -> CodeRow \cup {NoCode}]
  BY <1>3, <1>5 DEF StayInv, TypeOK
<1>7. \A c \in Codes : code[c].st \in Committed => code'[c].st \in Committed
  BY <1>1, <1>3 DEF StayInv, TypeOK, Committed
<1>8. \A u \in Threads \ {w} :
        req[u].op = "insert" => code'[req[u].code] = code[req[u].code]
  BY <1>1, <1>3, RequestFields DEF StayInv, TypeOK, RequestCodes
<1>. HIDE DEF p, st, taken, q
<1>. QED
  BY <1>1, <1>2, <1>3, <1>6, <1>7, <1>8, RecordStep

LEMMA RevokeReadStep ==
  ASSUME StayInv, NEW w \in Workers, RevokeRead(w)
  PROVE  StayInv'
<1>. DEFINE active == {c \in Codes : /\ code[c].st = "active"
                                     /\ code[c].resv = req[w].resv}
            q == [op |-> "revoke", by |-> req[w].by, todo |-> active, done |-> {}]
<1>0. req[w].by \in Reasons \ {"job"}
  BY RequestFields DEF RevokeRead, Threads, StayInv, TypeOK, Reasons
<1>1. q \in Request /\ q.op = "revoke"
      /\ \A c \in q.todo \cup q.done : code[c].st \in Committed
  BY <1>0 DEF Request, Committed, Reasons
<1>2. w \in Threads /\ (Continue(w, q) \/ Continue(w, Idle))
      /\ UNCHANGED <<resv, code, live, checkin, today>>
  BY DEF RevokeRead, Finish, Threads, codeVars
<1>. HIDE DEF q, active
<1>. QED
  BY <1>1, <1>2, IdleRequest, QuietStep DEF StayInv, TypeOK

LEMMA ExpireReadStep ==
  ASSUME StayInv, NEW s \in Schedulers, ExpireRead(s)
  PROVE  StayInv'
<1>. DEFINE old == {c \in Codes : code[c].st = "active" /\ code[c].until <= today}
            q == [op |-> "revoke", by |-> "job", todo |-> old, done |-> {}]
<1>1. q \in Request /\ q.op = "revoke"
      /\ \A c \in q.todo \cup q.done : code[c].st \in Committed
  BY DEF Request, Committed
<1>2. s \in Threads /\ Continue(s, q)
      /\ UNCHANGED <<resv, code, live, checkin, today>>
  BY DEF ExpireRead, Start, Continue, Threads, codeVars
<1>. HIDE DEF q, old
<1>. QED
  BY <1>1, <1>2, QuietStep DEF StayInv, TypeOK

LEMMA RevokeStep ==
  ASSUME StayInv, NEW t \in Threads, NEW c \in Codes,
         Revoke(t, c) \/ RevokeFails(t, c)
  PROVE  StayInv'
<1>1. /\ req[t] \in Request /\ req[t].op = "revoke" /\ c \in req[t].todo
      /\ req[t].todo \in SUBSET Codes /\ req[t].done \in SUBSET Codes
      /\ live' \subseteq Codes
      /\ UNCHANGED <<resv, code, checkin, today>>
  BY RequestFields DEF Revoke, RevokeFails, StayInv, TypeOK
<1>2. CASE Finish(t)
  BY <1>1, <1>2, IdleRequest, QuietStep DEF Finish, StayInv, TypeOK
<1>3. CASE Revoke(t, c)
  <2>. DEFINE q == [req[t] EXCEPT !.todo = @ \ {c}, !.done = @ \cup {c}]
  <2>1. req[t] \in [op : {"revoke"}, by : Reasons,
                 todo : SUBSET Codes, done : SUBSET Codes]
    BY <1>1 DEF Request, Idle, Reasons
  <2>2. /\ q \in Request /\ q.op = "revoke"
        /\ q.todo \cup q.done = req[t].todo \cup req[t].done
    BY <1>1, <2>1 DEF Request, Reasons
  <2>3. Continue(t, q) /\ \A d \in q.todo \cup q.done : code[d].st \in Committed
    BY <1>1, <1>3, <2>2 DEF Revoke, StayInv, RequestCodes
  <2>. HIDE DEF q
  <2>. QED
    BY <1>1, <2>2, <2>3, QuietStep DEF StayInv, TypeOK
<1>4. CASE Continue(t, [req[t] EXCEPT !.todo = {}])
  <2>. DEFINE q == [req[t] EXCEPT !.todo = {}]
  <2>1. req[t] \in [op : {"revoke"}, by : Reasons,
                   todo : SUBSET Codes, done : SUBSET Codes]
    BY <1>1 DEF Request, Idle, Reasons
  <2>2. /\ q \in Request /\ q.op = "revoke"
        /\ q.todo \cup q.done = req[t].done
    BY <1>1, <2>1 DEF Request, Reasons
  <2>3. Continue(t, q) /\ \A d \in q.todo \cup q.done : code[d].st \in Committed
    BY <1>1, <1>4, <2>2 DEF StayInv, RequestCodes
  <2>. HIDE DEF q
  <2>. QED
    BY <1>1, <2>2, <2>3, QuietStep DEF StayInv, TypeOK
<1>. QED
  BY <1>2, <1>3, <1>4 DEF RevokeFails

LEMMA RevokeCommitStep ==
  ASSUME StayInv, NEW t \in Threads, RevokeCommit(t)
  PROVE  StayInv'
<1>1. /\ req[t] \in Request /\ req[t].op = "revoke"
      /\ req[t].done \in SUBSET Codes
      /\ \A c \in req[t].done : code[c].st \in Committed
      /\ UNCHANGED <<resv, live, checkin, today>>
      /\ Continue(t, Idle)
  BY RequestFields DEF RevokeCommit, Finish, StayInv, TypeOK, RequestCodes
<1>2. \A c \in req[t].done : [code[c] EXCEPT !.st = "revoked"] \in CodeRow
  <2>1. ASSUME NEW c \in req[t].done
        PROVE  code[c] \in CodeRow
    BY <1>1, CodeThere DEF StayInv, Committed
  <2>. QED
    BY <2>1 DEF CodeRow, Committed
<1>3. code' = [c \in Codes |-> IF c \in req[t].done
                               THEN [code[c] EXCEPT !.st = "revoked"]
                               ELSE code[c]]
  BY DEF RevokeCommit
<1>4. code' \in [Codes -> CodeRow \cup {NoCode}]
  BY <1>2, <1>3 DEF StayInv, TypeOK
<1>5. \A c \in Codes : code[c].st \in Committed => code'[c].st \in Committed
  <2>1. ASSUME NEW c \in Codes, code[c].st \in Committed, c \in req[t].done
        PROVE  code'[c].st = "revoked"
    <3>1. code[c] \in CodeRow
      BY <2>1, CodeThere DEF StayInv, Committed
    <3>. QED
      BY <1>3, <2>1, <3>1 DEF CodeRow
  <2>. QED
    BY <1>3, <2>1 DEF Committed
<1>6. \A u \in Threads \ {t} :
        req[u].op = "insert" => code'[req[u].code] = code[req[u].code]
  <2>1. ASSUME NEW u \in Threads, req[u].op = "insert"
        PROVE  req[u].code \in Codes \ req[t].done
    BY <1>1, <2>1, RequestFields DEF StayInv, TypeOK, RequestCodes, Committed
  <2>. QED
    BY <1>3, <2>1
<1>. QED
  BY <1>1, <1>4, <1>5, <1>6, IdleRequest, RecordStep

LEMMA CheckInStep ==
  ASSUME StayInv, NEW w \in Workers, NEW r \in Reservations,
         NEW key \in PageKeys \cup {"none"}, CheckIn(w, r, key)
  PROVE  StayInv'
<1>. DEFINE q == [op |-> "issue", resv |-> r, key |-> key, guest |-> TRUE]
<1>1. q \in Request /\ q.op = "issue" /\ q.resv = r /\ Exists(r)
  BY DEF Request, Keys, CheckIn, StayInv, RequestRows
<1>2. /\ w \in Threads /\ Continue(w, q)
      /\ UNCHANGED <<resv, code, live, checkin, today>>
  BY DEF CheckIn, Start, Continue, Threads, codeVars
<1>. HIDE DEF q
<1>. QED
  BY <1>1, <1>2, QuietStep DEF StayInv, TypeOK

LEMMA CheckInCommitStep ==
  ASSUME StayInv, NEW w \in Workers, CheckInCommit(w)
  PROVE  StayInv'
<1>. USE DEF StayInv
<1>1. /\ w \in Threads /\ req[w] \in Request /\ req[w].op = "checkin"
      /\ req[w].resv \in Reservations /\ Exists(req[w].resv)
      /\ UNCHANGED <<resv, code, live, today>>
      /\ checkin' = [checkin EXCEPT ![req[w].resv] = "used"]
      /\ Continue(w, Idle)
  BY RequestFields DEF CheckInCommit, Finish, codeVars, Threads, TypeOK, RequestRows
<1>2. /\ req' \in [Threads -> Request]
      /\ req'[w] = Idle
      /\ \A u \in Threads \ {w} : req'[u] = req[u]
  BY <1>1, IdleRequest, Requests
<1>3. TypeOK'
  BY <1>1, <1>2 DEF TypeOK
<1>4. RequestRows'
  BY <1>1, <1>2, IdleRequest DEF TypeOK, RequestRows, Exists
<1>5. RequestCodes'
  BY <1>1, <1>2, IdleRequest DEF RequestCodes
<1>. QED
  BY <1>3, <1>4, <1>5

LEMMA SendCheckInLinkStep ==
  ASSUME StayInv, NEW r \in Reservations, SendCheckInLink(r)
  PROVE  StayInv'
BY DEF SendCheckInLink, StayInv, TypeOK, RequestRows, RequestCodes, Exists, codeVars

LEMMA NextDayStep ==
  ASSUME StayInv, NextDay
  PROVE  StayInv'
<1>1. today + 1 \in Days
  BY StaysAssumption DEF NextDay, StayInv, TypeOK, Days
<1>. QED
  BY <1>1 DEF NextDay, StayInv, TypeOK, RequestRows, RequestCodes, Exists, codeVars

LEMMA CrashStep ==
  ASSUME StayInv, NEW t \in Threads, Crash(t)
  PROVE  StayInv'
<1>1. Continue(t, Idle) /\ UNCHANGED <<resv, live, checkin, today>>
  BY DEF Crash, Finish
<1>2. CASE req[t].op # "insert"
  BY <1>1, <1>2, IdleRequest, QuietStep DEF Crash, StayInv, TypeOK
<1>3. CASE req[t].op = "insert"
  <2>. DEFINE c == req[t].code
  <2>1. c \in Codes /\ code[c].st = "issued"
    BY <1>3, RequestFields DEF StayInv, TypeOK, RequestCodes
  <2>2. code' = [code EXCEPT ![c].st = "lost"]
    BY <1>3 DEF Crash
  <2>3. [code[c] EXCEPT !.st = "lost"] \in CodeRow
    BY <2>1, CodeThere DEF StayInv, CodeRow
  <2>4. code' \in [Codes -> CodeRow \cup {NoCode}]
    BY <2>2, <2>3 DEF StayInv, TypeOK
  <2>5. \A d \in Codes : code[d].st \in Committed => code'[d].st \in Committed
    BY <2>1, <2>2 DEF StayInv, TypeOK, Committed
  <2>6. \A u \in Threads \ {t} :
          req[u].op = "insert" => code'[req[u].code] = code[req[u].code]
    BY <1>3, <2>1, <2>2, RequestFields DEF StayInv, TypeOK, RequestCodes
  <2>. QED
    BY <1>1, <2>4, <2>5, <2>6, IdleRequest, RecordStep
<1>. QED
  BY <1>2, <1>3

LEMMA StayInvStep ==
  ASSUME StayInv, [Next]_vars
  PROVE  StayInv'
<1>1. CASE UNCHANGED vars
  BY <1>1 DEF vars, StayInv, TypeOK, RequestRows, RequestCodes, Exists
<1>2. CASE Next
  <2>. Workers \subseteq Threads /\ Schedulers \subseteq Threads
    BY DEF Threads
  <2>. QED
    BY <1>2, CreateReadStep, UpdateStep, MoveStep, ResizeStep, CancelStep,
       MarkPaidStep, CreateCommitStep, SaveStep, IssueCallStep, IssueCommitStep,
       RevokeReadStep, ExpireReadStep, RevokeStep, RevokeCommitStep, CheckInStep,
       CheckInCommitStep, SendCheckInLinkStep, NextDayStep, CrashStep DEF Next
<1>. QED
  BY <1>1, <1>2

LEMMA StayInvInit ==
  ASSUME Init
  PROVE  StayInv
BY StaysAssumption, IdleRequest
   DEF Init, StayInv, TypeOK, RequestRows, RequestCodes, Days

LEMMA StayInvAlways == Spec => []StayInv
BY StayInvInit, StayInvStep, PTL DEF Spec

(* Every variable keeps its type, for any reservations, units, locks,      *)
(* workers, schedulers and bounds (TypeOK of Stays).                       *)
THEOREM TypeCorrect == Spec => []TypeOK
<1>1. StayInv => TypeOK
  BY DEF StayInv
<1>. QED
  BY <1>1, StayInvAlways, PTL

-----------------------------------------------------------------------------
(* Door codes.  What a request has achieved at the provider, or has seen   *)
(* in the table, still holds when it records it.                           *)

CodeInv ==
  /\ StayInv
  /\ NamedRevokedAreDead
  /\ \A t \in Threads :
       req[t].op = "revoke" => \A c \in req[t].done : code[c].named => c \notin live
  /\ \A t \in Threads :
       req[t].op = "checkin" => RestsOnCode(req[t].resv, req[t].key)

(* What every step does with the codes: only new codes become live, only   *)
(* codes that a request has seen die become revoked, committed codes stay, *)
(* and a check-in goes on only when there is a code.                       *)
CodeStep ==
  /\ \A c \in live' : c \in live \/ code[c] = NoCode
  /\ \A c \in Codes :
       code'[c].st = "revoked" =>
         \/ code[c].st = "revoked"
         \/ \E t \in Threads : req[t].op = "revoke" /\ c \in req[t].done
  /\ \A c \in Codes :
       code[c].st \in Committed =>
         /\ code'[c].st \in Committed /\ code'[c].resv = code[c].resv
         /\ code'[c].key = code[c].key /\ code'[c].named = code[c].named
  /\ \A t \in Threads :
       req'[t].op = "revoke" =>
         \A c \in req'[t].done :
           \/ req[t].op = "revoke" /\ c \in req[t].done
           \/ code[c].st \in Committed /\ (code[c].named => c \notin live')
  /\ \A t \in Threads :
       req'[t].op = "checkin" =>
         \/ req[t] = req'[t]
         \/ \E c \in Codes :
              /\ code'[c].st \in Committed
              /\ \/ code'[c].resv = req'[t].resv
                 \/ req'[t].key # "none" /\ code'[c].key = req'[t].key
  /\ \A r \in Reservations :
       checkin'[r] = "used" =>
         \/ checkin[r] = "used"
         \/ \E w \in Workers : req[w].op = "checkin" /\ req[w].resv = r

(* Steps that leave codes, locks and links alone, in which a thread turns  *)
(* to something that is neither a revocation nor the end of a check-in.    *)
LEMMA OtherStep ==
  ASSUME StayInv, NEW t \in Threads, NEW q \in Request, Continue(t, q),
         q.op \notin {"revoke", "checkin"}, UNCHANGED <<code, live, checkin>>
  PROVE  CodeStep
<1>1. /\ req'[t] = q
      /\ \A u \in Threads \ {t} : req'[u] = req[u]
  BY Requests DEF StayInv
<1>. QED
  BY <1>1 DEF CodeStep

LEMMA CodeInvKept ==
  ASSUME CodeInv, StayInv', CodeStep
  PROVE  CodeInv'
<1>1. \A t \in Threads :
        /\ req[t].op = "revoke" =>
             \A c \in req[t].done : /\ code[c].named => c \notin live
                                    /\ code[c].st \in Committed
        /\ req'[t].op = "revoke" => req'[t].done \subseteq Codes
  <2>1. \A t \in Threads : req'[t].op = "revoke" => req'[t].done \subseteq Codes
    BY RequestFields DEF StayInv, TypeOK
  <2>. QED
    BY <2>1 DEF CodeInv, StayInv, RequestCodes
<1>2. \A c \in Codes : code[c].st \in Committed => code[c] # NoCode
  BY DEF Committed, NoCode
<1>3. NamedRevokedAreDead'
  BY <1>1, <1>2 DEF CodeInv, CodeStep, NamedRevokedAreDead, Committed
<1>4. \A t \in Threads :
        req'[t].op = "revoke" => \A c \in req'[t].done : code'[c].named => c \notin live'
  BY <1>1, <1>2 DEF CodeStep
<1>5. ASSUME NEW t \in Threads, req'[t].op = "checkin", req[t] = req'[t]
      PROVE  \E c \in Codes :
               /\ code'[c].st \in Committed
               /\ \/ code'[c].resv = req'[t].resv
                  \/ req'[t].key # "none" /\ code'[c].key = req'[t].key
  <2>1. RestsOnCode(req[t].resv, req[t].key)
    BY <1>5 DEF CodeInv
  <2>2. PICK c \in Codes :
          /\ code[c].st \in Committed
          /\ \/ code[c].resv = req[t].resv
             \/ req[t].key # "none" /\ code[c].key = req[t].key
    BY <2>1 DEF RestsOnCode
  <2>. QED
    BY <1>5, <2>2 DEF CodeStep
<1>6. \A t \in Threads :
        req'[t].op = "checkin" =>
          \E c \in Codes :
            /\ code'[c].st \in Committed
            /\ \/ code'[c].resv = req'[t].resv
               \/ req'[t].key # "none" /\ code'[c].key = req'[t].key
  BY <1>5 DEF CodeStep
<1>. QED
  BY <1>3, <1>4, <1>6 DEF CodeInv, RestsOnCode

(* Creating, editing, moving, cancelling and paying, and a guest who       *)
(* starts a check-in.                                                      *)
LEMMA ReservationCodeStep ==
  ASSUME StayInv, NEW w \in Workers,
         \/ \E u \in Units, from \in FirstDays, to \in Days : CreateRead(w, u, from, to)
         \/ \E r \in Reservations, by \in {"update", "move", "cancel", "paid"},
              new \in Row : Exists(r) /\ Write(w, by, r, new)
         \/ \E r \in Reservations : CreateCommit(w, r)
         \/ \E r \in Reservations, key \in PageKeys \cup {"none"} : CheckIn(w, r, key)
         \/ Save(w),
         UNCHANGED <<codeVars, checkin>>
  PROVE  CodeStep
<1>. USE DEF codeVars
<1>0. w \in Threads
  BY DEF Threads
<1>1. ASSUME NEW u \in Units, NEW from \in FirstDays, NEW to \in Days,
             CreateRead(w, u, from, to)
      PROVE  CodeStep
  <2>. DEFINE q == [op |-> "create", unit |-> u, from |-> from, to |-> to]
  <2>1. q \in Request /\ q.op = "create" /\ Continue(w, q)
    BY <1>1, StaysAssumption DEF Request, Days, CreateRead, Start, Continue
  <2>. HIDE DEF q
  <2>. QED
    BY <1>0, <2>1, OtherStep
<1>2. ASSUME NEW r \in Reservations, NEW by \in {"update", "move", "cancel", "paid"},
             NEW new \in Row, Exists(r), Write(w, by, r, new)
      PROVE  CodeStep
  <2>. DEFINE q == [op |-> "write", by |-> by, resv |-> r, old |-> resv[r],
                    new |-> new]
  <2>1. q \in Request /\ q.op = "write"
    BY <1>2, RowThere DEF Request, StayInv
  <2>2. Continue(w, q)
    BY <1>2 DEF Write, Start, Continue
  <2>. HIDE DEF q
  <2>. QED
    BY <1>0, <2>1, <2>2, OtherStep
<1>3. ASSUME NEW r \in Reservations, CreateCommit(w, r)
      PROVE  CodeStep
  <2>. DEFINE q == [op |-> "issue", resv |-> r, key |-> r, guest |-> FALSE]
  <2>1. q \in Request /\ q.op = "issue" /\ Continue(w, q)
    BY <1>3 DEF Request, Keys, CreateCommit
  <2>. HIDE DEF q
  <2>. QED
    BY <1>0, <2>1, OtherStep
<1>4. ASSUME NEW r \in Reservations, NEW key \in PageKeys \cup {"none"}, CheckIn(w, r, key)
      PROVE  CodeStep
  <2>. DEFINE q == [op |-> "issue", resv |-> r, key |-> key, guest |-> TRUE]
  <2>1. q \in Request /\ q.op = "issue" /\ Continue(w, q)
    BY <1>4 DEF Request, Keys, CheckIn, Start, Continue
  <2>. HIDE DEF q
  <2>. QED
    BY <1>0, <2>1, OtherStep
<1>5. CASE Save(w)
  <2>. DEFINE p == req[w]
              q == IF p.by \in {"update", "cancel"}
                   THEN [op |-> "saved", by |-> p.by, resv |-> p.resv,
                         to |-> p.old.to]
                   ELSE Idle
  <2>1. p.resv \in Reservations /\ p.old \in Row
    BY <1>0, <1>5, RequestFields DEF Save, StayInv, TypeOK
  <2>2. q \in Request /\ q.op \in {"saved", "idle"}
    BY <2>1, IdleRequest DEF Request, Row
  <2>3. Continue(w, q)
    BY <1>5 DEF Save, Finish
  <2>. HIDE DEF q, p
  <2>. QED
    BY <1>0, <2>2, <2>3, OtherStep
<1>. QED
  BY <1>1, <1>2, <1>3, <1>4, <1>5

LEMMA IssueCallCodeStep ==
  ASSUME StayInv, NEW w \in Workers, IssueCall(w)
  PROVE  CodeStep
<1>. DEFINE q == req[w]
<1>1. /\ w \in Threads /\ q \in Request /\ q.op = "issue"
      /\ q.resv \in Reservations /\ q.key \in Keys /\ q.guest \in BOOLEAN
      /\ Exists(q.resv)
      /\ UNCHANGED checkin
  BY RequestFields DEF Threads, IssueCall, StayInv, TypeOK, RequestRows
<1>2. CASE Finish(w) /\ UNCHANGED codeVars
  BY <1>1, <1>2, IdleRequest, OtherStep DEF Finish, codeVars
<1>3. CASE /\ Continue(w, [op |-> "checkin", resv |-> q.resv, key |-> q.key])
           /\ KeyTaken(q.key)
           /\ UNCHANGED codeVars
  <2>. DEFINE p == [op |-> "checkin", resv |-> q.resv, key |-> q.key]
  <2>1. p \in Request /\ p.op = "checkin" /\ p.resv = q.resv /\ p.key = q.key
    BY <1>1 DEF Request
  <2>2. /\ req'[w] = p
        /\ \A u \in Threads \ {w} : req'[u] = req[u]
    BY <1>1, <1>3, <2>1, Requests DEF StayInv
  <2>3. p.key # "none" /\ \E c \in Codes : /\ code[c].st \in Committed
                                          /\ code[c].key = p.key
    BY <1>3, <2>1 DEF KeyTaken
  <2>. HIDE DEF p, q
  <2>. QED
    BY <1>1, <1>3, <2>1, <2>2, <2>3 DEF CodeStep, codeVars
<1>4. ASSUME NEW c \in Codes, NEW st \in {"issued", "lost"},
             NEW named \in BOOLEAN,
             MakeCode(c, q.resv, q.key, st, named), NEW p \in Request,
             p.op \in {"insert", "idle"}, Continue(w, p)
      PROVE  CodeStep
  <2>1. /\ code'[c].st = st
        /\ code[c].st = "none"
        /\ \A d \in Codes \ {c} : code'[d] = code[d]
    BY <1>1, <1>4, CodeMade
  <2>2. \A d \in live' : d \in live \/ code[d] = NoCode
    BY <1>4 DEF MakeCode
  <2>3. /\ req'[w] = p
        /\ \A u \in Threads \ {w} : req'[u] = req[u]
    BY <1>1, <1>4, Requests DEF StayInv
  <2>. HIDE DEF q
  <2>. QED
    BY <1>1, <1>4, <2>1, <2>2, <2>3 DEF CodeStep, Committed
<1>5. CASE \E c \in Codes, named \in BOOLEAN :
         /\ MakeCode(c, q.resv, q.key, "issued", named)
         /\ Continue(w, [op |-> "insert", resv |-> q.resv,
                                            code |-> c, guest |-> q.guest])
  <2>1. PICK c \in Codes, named \in BOOLEAN :
         /\ MakeCode(c, q.resv, q.key, "issued", named)
         /\ Continue(w, [op |-> "insert", resv |-> q.resv,
                                           code |-> c, guest |-> q.guest])
    BY <1>5
  <2>. DEFINE p == [op |-> "insert", resv |-> q.resv, code |-> c,
                    guest |-> q.guest]
  <2>2. p \in Request /\ p.op = "insert" /\ Continue(w, p)
    BY <1>1, <2>1 DEF Request
  <2>. HIDE DEF q, p
  <2>. QED
    BY <1>4, <2>1, <2>2
<1>6. CASE (\E c \in Codes : MakeCode(c, q.resv, q.key, "lost", TRUE)) /\ Finish(w)
  BY <1>4, <1>6, IdleRequest DEF Finish
<1>7. \A answer \in LockResults : (answer = "ok") \in BOOLEAN
  OBVIOUS
<1>. QED
  BY <1>2, <1>3, <1>5, <1>6, <1>7 DEF IssueCall

LEMMA IssueCommitCodeStep ==
  ASSUME StayInv, NEW w \in Workers, IssueCommit(w)
  PROVE  CodeStep
<1>. DEFINE q == req[w]
            taken == KeyTaken(code[q.code].key)
            st == IF taken THEN "lost" ELSE "active"
            p == IF q.guest /\ ~taken
                 THEN [op |-> "checkin", resv |-> q.resv,
                       key |-> code[q.code].key]
                 ELSE Idle
<1>1. /\ w \in Threads /\ q \in Request /\ q.op = "insert"
      /\ q.resv \in Reservations /\ q.code \in Codes /\ q.guest \in BOOLEAN
      /\ code[q.code].st = "issued" /\ code[q.code].resv = q.resv
      /\ UNCHANGED <<live, checkin>>
  BY RequestFields DEF Threads, IssueCommit, StayInv, TypeOK, RequestCodes
<1>5. code[q.code] \in CodeRow
  BY <1>1, CodeThere DEF StayInv
<1>2. p \in Request /\ p.op \in {"checkin", "idle"}
  BY <1>1, <1>5, IdleRequest DEF Request, CodeRow
<1>3. Continue(w, p) /\ code' = [code EXCEPT ![q.code].st = st]
  BY DEF IssueCommit, Finish
<1>4. /\ req'[w] = p
      /\ \A u \in Threads \ {w} : req'[u] = req[u]
  BY <1>1, <1>2, <1>3, Requests DEF StayInv
<1>6. /\ code'[q.code].st = st /\ code'[q.code].resv = q.resv
      /\ \A c \in Codes \ {q.code} : code'[c] = code[c]
  BY <1>1, <1>3, <1>5 DEF StayInv, TypeOK, CodeRow
<1>7. p.op = "checkin" => st \in Committed /\ p.resv = q.resv
  BY IdleRequest DEF Committed
<1>8. st # "revoked"
  OBVIOUS
<1>. HIDE DEF q, p, taken, st
<1>. QED
  BY <1>1, <1>2, <1>4, <1>6, <1>7, <1>8 DEF CodeStep, Committed

LEMMA RevocationCodeStep ==
  ASSUME StayInv, NEW t \in Threads,
         \/ t \in Workers /\ RevokeRead(t)
         \/ t \in Schedulers /\ ExpireRead(t)
         \/ \E c \in Codes : Revoke(t, c) \/ RevokeFails(t, c)
  PROVE  CodeStep
<1>1. UNCHANGED <<code, checkin>> /\ live' \subseteq live
  BY DEF RevokeRead, ExpireRead, Revoke, RevokeFails, codeVars
<1>2. CASE Finish(t)
  <2>1. /\ req'[t] = Idle
        /\ \A u \in Threads \ {t} : req'[u] = req[u]
    BY <1>2, IdleRequest, Requests DEF StayInv, Finish
  <2>. QED
    BY <1>1, <2>1, IdleRequest DEF CodeStep
<1>3. CASE \E by \in Reasons, todo \in SUBSET Codes :
             Continue(t, [op |-> "revoke", by |-> by, todo |-> todo, done |-> {}])
  <2>1. PICK by \in Reasons, todo \in SUBSET Codes :
               Continue(t, [op |-> "revoke", by |-> by, todo |-> todo, done |-> {}])
    BY <1>3
  <2>. DEFINE q == [op |-> "revoke", by |-> by, todo |-> todo, done |-> {}]
  <2>2. q \in Request /\ q.op = "revoke" /\ q.done = {} /\ Continue(t, q)
    BY <2>1 DEF Request, Reasons
  <2>. HIDE DEF q
  <2>3. /\ req'[t] = q
        /\ \A u \in Threads \ {t} : req'[u] = req[u]
    BY <2>2, Requests DEF StayInv
  <2>. QED
    BY <1>1, <2>2, <2>3 DEF CodeStep
<1>4. ASSUME NEW c \in Codes, Revoke(t, c)
      PROVE  CodeStep
  <2>. DEFINE q == [req[t] EXCEPT !.todo = @ \ {c}, !.done = @ \cup {c}]
  <2>1. /\ req[t] \in Request /\ req[t].op = "revoke" /\ c \in req[t].todo
        /\ code[c].st \in Committed
        /\ code[c].named => live' = live \ {c}
    BY <1>4 DEF Revoke, StayInv, TypeOK, RequestCodes
  <2>2. req[t] \in [op : {"revoke"}, by : Reasons,
                 todo : SUBSET Codes, done : SUBSET Codes]
    BY <2>1 DEF Request, Idle, Reasons
  <2>3. /\ q \in Request /\ q.op = "revoke"
        /\ q.done = req[t].done \cup {c}
    BY <2>2 DEF Request, Reasons
  <2>4. /\ req'[t] = q
        /\ \A u \in Threads \ {t} : req'[u] = req[u]
    BY <1>4, <2>3, Requests DEF Revoke, StayInv
  <2>. HIDE DEF q
  <2>. QED
    BY <1>1, <2>1, <2>3, <2>4 DEF CodeStep
<1>5. RevokeRead(t) => \/ Finish(t)
                       \/ \E by \in Reasons, todo \in SUBSET Codes :
                            Continue(t, [op |-> "revoke", by |-> by, todo |-> todo, done |-> {}])
  <2>1. RevokeRead(t) => req[t].by \in Reasons
    BY RequestFields DEF RevokeRead, StayInv, TypeOK, Reasons
  <2>. QED
    BY <2>1 DEF RevokeRead
<1>6. ExpireRead(t) => \E by \in Reasons, todo \in SUBSET Codes :
                         Continue(t, [op |-> "revoke", by |-> by, todo |-> todo, done |-> {}])
  BY DEF ExpireRead, Start, Continue, Reasons
<1>7. CASE req[t].op = "revoke" /\ Continue(t, [req[t] EXCEPT !.todo = {}])
  <2>. DEFINE q == [req[t] EXCEPT !.todo = {}]
  <2>1. req[t] \in [op : {"revoke"}, by : Reasons,
                   todo : SUBSET Codes, done : SUBSET Codes]
    BY <1>7 DEF StayInv, TypeOK, Request, Idle, Reasons
  <2>2. q \in Request /\ q.op = "revoke" /\ q.done = req[t].done
    BY <2>1 DEF Request, Reasons
  <2>3. /\ req'[t] = q
        /\ \A u \in Threads \ {t} : req'[u] = req[u]
    BY <1>7, <2>2, Requests DEF StayInv
  <2>. HIDE DEF q
  <2>. QED
    BY <1>1, <1>7, <2>2, <2>3 DEF CodeStep
<1>. QED
  BY <1>2, <1>3, <1>4, <1>5, <1>6, <1>7 DEF RevokeFails

LEMMA RevokeCommitCodeStep ==
  ASSUME StayInv, NEW t \in Threads, RevokeCommit(t)
  PROVE  CodeStep
<1>1. /\ req[t] \in Request /\ req[t].op = "revoke"
      /\ req[t].done \in SUBSET Codes
      /\ \A c \in req[t].done : code[c].st \in Committed
      /\ UNCHANGED <<live, checkin>>
      /\ Continue(t, Idle)
  BY RequestFields DEF RevokeCommit, Finish, StayInv, TypeOK, RequestCodes
<1>2. /\ req'[t] = Idle
      /\ \A u \in Threads \ {t} : req'[u] = req[u]
  BY <1>1, IdleRequest, Requests DEF StayInv
<1>3. ASSUME NEW c \in Codes
      PROVE  /\ \/ code[c].st \notin Committed
                \/ /\ code'[c].resv = code[c].resv /\ code'[c].key = code[c].key
                   /\ code'[c].named = code[c].named
             /\ code'[c] = code[c] \/ (c \in req[t].done /\ code'[c].st = "revoked")
  <2>1. CASE c \in req[t].done
    <3>1. code[c] \in CodeRow
      BY <1>1, <2>1, CodeThere DEF StayInv, Committed
    <3>2. code'[c] = [code[c] EXCEPT !.st = "revoked"]
      BY <2>1 DEF RevokeCommit
    <3>. QED
      BY <2>1, <3>1, <3>2 DEF CodeRow
  <2>2. CASE c \notin req[t].done
    BY <2>2 DEF RevokeCommit
  <2>. QED
    BY <2>1, <2>2
<1>. QED
  BY <1>1, <1>2, <1>3, IdleRequest DEF CodeStep, Committed

LEMMA CheckInCommitCodeStep ==
  ASSUME StayInv, NEW w \in Workers, CheckInCommit(w)
  PROVE  CodeStep
<1>1. /\ w \in Workers /\ w \in Threads /\ req[w].op = "checkin"
      /\ UNCHANGED <<code, live>>
      /\ checkin' = [checkin EXCEPT ![req[w].resv] = "used"]
      /\ Continue(w, Idle)
  BY DEF CheckInCommit, Finish, codeVars, Threads
<1>2. /\ req'[w] = Idle
      /\ \A u \in Threads \ {w} : req'[u] = req[u]
  BY <1>1, IdleRequest, Requests DEF StayInv
<1>. QED
  BY <1>1, <1>2, IdleRequest DEF CodeStep, StayInv, TypeOK

LEMMA CrashCodeStep ==
  ASSUME StayInv, NEW t \in Threads, Crash(t)
  PROVE  CodeStep
<1>1. /\ UNCHANGED <<live, checkin>>
      /\ req'[t] = Idle
      /\ \A u \in Threads \ {t} : req'[u] = req[u]
  BY IdleRequest, Requests DEF Crash, Finish, StayInv
<1>2. CASE req[t].op # "insert"
  BY <1>1, <1>2, IdleRequest DEF Crash, CodeStep
<1>3. CASE req[t].op = "insert"
  <2>1. req[t].code \in Codes /\ code[req[t].code].st = "issued"
    BY <1>3, RequestFields DEF StayInv, TypeOK, RequestCodes
  <2>2. code[req[t].code] \in CodeRow
    BY <2>1, CodeThere DEF StayInv
  <2>3. /\ code'[req[t].code].st = "lost"
        /\ \A c \in Codes \ {req[t].code} : code'[c] = code[c]
    BY <1>3, <2>1, <2>2 DEF Crash, StayInv, TypeOK, CodeRow
  <2>. QED
    BY <1>1, <2>1, <2>3, IdleRequest DEF CodeStep, Committed
<1>. QED
  BY <1>2, <1>3

LEMMA EveryCodeStep ==
  ASSUME StayInv, [Next]_vars
  PROVE  CodeStep
<1>0. Workers \subseteq Threads /\ Schedulers \subseteq Threads
  BY DEF Threads
<1>1. CASE UNCHANGED <<code, live, checkin, req>>
  BY <1>1 DEF CodeStep
<1>2. ASSUME NEW w \in Workers, NEW r \in Reservations, NEW u \in Units,
             NEW from \in FirstDays, NEW to \in Days,
             \/ Move(w, r, u, from, to)
             \/ \E st \in {"confirmed", "cancelled"} : Update(w, r, st, u, from, to)
      PROVE  /\ UNCHANGED <<codeVars, checkin>>
             /\ \E by \in {"update", "move", "cancel", "paid"}, new \in Row :
                  Exists(r) /\ Write(w, by, r, new)
  <2>1. Exists(r)
    BY <1>2 DEF Move, Update
  <2>2. resv[r] \in Row
    BY <2>1, RowThere DEF StayInv
  <2>3. ASSUME NEW v \in Units, NEW st \in {"confirmed", "cancelled"}
        PROVE  /\ [resv[r] EXCEPT !.unit = v, !.from = from, !.to = to] \in Row
               /\ [resv[r] EXCEPT !.st = st, !.unit = v, !.from = from, !.to = to] \in Row
    BY <2>2, StaysAssumption DEF Row, Days
  <2>. QED
    BY <1>2, <2>1, <2>3 DEF Move, Update
<1>3. ASSUME NEW w \in Workers, NEW r \in Reservations, NEW u \in Units,
             NEW from \in FirstDays, NEW to \in Days,
             \/ Move(w, r, u, from, to)
             \/ \E st \in {"confirmed", "cancelled"} : Update(w, r, st, u, from, to)
      PROVE  CodeStep
  BY <1>2, <1>3, ReservationCodeStep
<1>10. ASSUME NEW w \in Workers, NEW r \in Reservations,
              NEW from \in FirstDays, NEW to \in Days, Resize(w, r, from, to)
       PROVE  CodeStep
  <2>1. resv[r].unit \in Units
    BY <1>10, RowThere DEF Resize, StayInv, Row
  <2>. QED
    BY <1>3, <1>10, <2>1 DEF Resize
<1>4. ASSUME NEW w \in Workers, NEW r \in Reservations, Cancel(w, r) \/ MarkPaid(w, r)
      PROVE  CodeStep
  <2>1. UNCHANGED <<codeVars, checkin>> /\ Exists(r)
    BY <1>4 DEF Cancel, MarkPaid, Exists, NoRow
  <2>2. resv[r] \in Row
    BY <2>1, RowThere DEF StayInv
  <2>3. \E by \in {"update", "move", "cancel", "paid"}, new \in Row : Write(w, by, r, new)
    BY <1>4, <2>2 DEF Cancel, MarkPaid, Row
  <2>. QED
    BY <2>1, <2>3, ReservationCodeStep
<1>5. ASSUME NEW w \in Workers, NEW r \in Reservations,
             \/ CreateCommit(w, r)
             \/ \E key \in PageKeys \cup {"none"} : CheckIn(w, r, key)
      PROVE  CodeStep
  BY <1>5, ReservationCodeStep DEF CreateCommit, CheckIn
<1>6. ASSUME NEW w \in Workers,
             \/ Save(w)
             \/ \E u \in Units, from \in FirstDays, to \in Days :
                  CreateRead(w, u, from, to)
      PROVE  CodeStep
  BY <1>6, ReservationCodeStep DEF Save, CreateRead
<1>7. ASSUME NEW r \in Reservations, SendCheckInLink(r)
      PROVE  CodeStep
  BY <1>7 DEF SendCheckInLink, CodeStep, codeVars, StayInv, TypeOK
<1>8. CASE NextDay \/ UNCHANGED vars
  BY <1>1, <1>8 DEF NextDay, vars, codeVars
<1>9. CASE Next
  BY <1>0, <1>9, <1>3, <1>4, <1>5, <1>6, <1>7, <1>8, <1>10, IssueCallCodeStep,
     IssueCommitCodeStep, RevocationCodeStep, RevokeCommitCodeStep,
     CheckInCommitCodeStep, CrashCodeStep DEF Next
<1>. QED
  BY <1>8, <1>9

LEMMA CodeInvAlways == Spec => []CodeInv
<1>1. Init => CodeInv
  BY StayInvInit, IdleRequest
     DEF Init, CodeInv, NamedRevokedAreDead, NoCode
<1>2. CodeInv /\ [Next]_vars => CodeInv'
  BY StayInvStep, EveryCodeStep, CodeInvKept DEF CodeInv
<1>. QED
  BY <1>1, <1>2, PTL DEF Spec

(* A code that the provider named and that is recorded as revoked opens no *)
(* door, with any number of workers and job threads, whatever calls fail   *)
(* or lose their answer, in the middle of a loop too, and wherever a       *)
(* process stops (revoke_access_codes_for_reservation).                    *)
THEOREM RevokedAreDead == Spec => []NamedRevokedAreDead
<1>1. CodeInv => NamedRevokedAreDead
  BY DEF CodeInv
<1>. QED
  BY <1>1, CodeInvAlways, PTL

(* A check-in is completed only on a code on record, of the stay or of the *)
(* key it was sent with, with any number of workers, crashes and pages of  *)
(* other stays that send the same key (complete_checkin).                  *)
THEOREM CheckInsRestOnCodes == Spec => CheckInRestsOnACode
<1>1. CodeInv /\ [Next]_vars
        => [\A r \in Reservations :
              checkin[r] # "used" /\ checkin'[r] = "used" =>
                \E w \in Workers : /\ req[w].op = "checkin" /\ req[w].resv = r
                                   /\ RestsOnCode(r, req[w].key)]_vars
  <2>1. ASSUME CodeInv, [Next]_vars, NEW r \in Reservations,
               checkin[r] # "used", checkin'[r] = "used"
        PROVE  \E w \in Workers : /\ req[w].op = "checkin" /\ req[w].resv = r
                                  /\ RestsOnCode(r, req[w].key)
    <3>1. PICK w \in Workers : req[w].op = "checkin" /\ req[w].resv = r
      BY <2>1, EveryCodeStep DEF CodeInv, CodeStep
    <3>. QED
      BY <2>1, <3>1 DEF CodeInv, Threads
  <2>. QED
    BY <2>1
<1>. QED
  BY <1>1, CodeInvAlways, PTL DEF Spec, CheckInRestsOnACode

-----------------------------------------------------------------------------
(* Who writes reservations.  A step either starts no write and changes no  *)
(* row, or it is one of a worker that reads a row to write it, or writes.  *)

QuietWrites ==
  /\ resv' = resv
  /\ \A t \in Threads :
       req'[t].op \in {"create", "write"} => req'[t] = req[t]

WriterStep(w) ==
  \/ Save(w)
  \/ \E u \in Units, from \in FirstDays, to \in Days : CreateRead(w, u, from, to)
  \/ \E r \in Reservations : CreateCommit(w, r) \/ Cancel(w, r) \/ MarkPaid(w, r)
  \/ \E r \in Reservations, u \in Units, from \in FirstDays, to \in Days :
       \/ Move(w, r, u, from, to)
       \/ \E st \in {"confirmed", "cancelled"} : Update(w, r, st, u, from, to)

(* A thread turns to something that is not a write.                        *)
LEMMA OtherQuiet ==
  ASSUME StayInv, NEW t \in Threads, NEW q \in Request, Continue(t, q),
         q.op \notin {"create", "write"}, resv' = resv
  PROVE  QuietWrites
BY Requests DEF QuietWrites, StayInv

LEMMA IssueQuiet ==
  ASSUME StayInv, NEW w \in Workers, IssueCall(w) \/ IssueCommit(w)
  PROVE  QuietWrites
<1>. DEFINE q == req[w]
<1>1. /\ w \in Threads /\ q \in Request /\ q.op \in {"issue", "insert"}
      /\ q.resv \in Reservations /\ q.guest \in BOOLEAN /\ resv' = resv
  BY RequestFields DEF Threads, IssueCall, IssueCommit, StayInv, TypeOK
<1>2. ASSUME NEW key \in Keys,
             Continue(w, [op |-> "checkin", resv |-> q.resv, key |-> key])
      PROVE  QuietWrites
  <2>. DEFINE p == [op |-> "checkin", resv |-> q.resv, key |-> key]
  <2>1. p \in Request /\ p.op = "checkin" /\ Continue(w, p)
    BY <1>1, <1>2 DEF Request
  <2>. HIDE DEF p, q
  <2>. QED
    BY <1>1, <2>1, OtherQuiet
<1>3. ASSUME NEW c \in Codes,
             Continue(w, [op |-> "insert", resv |-> q.resv, code |-> c,
                          guest |-> q.guest])
      PROVE  QuietWrites
  <2>. DEFINE p == [op |-> "insert", resv |-> q.resv, code |-> c,
                    guest |-> q.guest]
  <2>1. p \in Request /\ p.op = "insert" /\ Continue(w, p)
    BY <1>1, <1>3 DEF Request
  <2>. HIDE DEF p, q
  <2>. QED
    BY <1>1, <2>1, OtherQuiet
<1>4. CASE Finish(w)
  BY <1>1, <1>4, IdleRequest, OtherQuiet DEF Finish
<1>5. CASE IssueCall(w)
  <2>1. q.key \in Keys
    BY <1>1, <1>5, RequestFields DEF IssueCall
  <2>. QED
    BY <1>2, <1>3, <1>4, <1>5, <2>1 DEF IssueCall
<1>6. CASE IssueCommit(w)
  <2>1. q.code \in Codes /\ code[q.code].st = "issued"
    BY <1>1, <1>6, RequestFields DEF IssueCommit, StayInv, RequestCodes
  <2>2. code[q.code].key \in Keys
    BY <2>1, CodeThere DEF StayInv, CodeRow
  <2>. QED
    BY <1>2, <1>4, <1>6, <2>2 DEF IssueCommit
<1>. QED
  BY <1>5, <1>6

LEMMA RevocationQuiet ==
  ASSUME StayInv, NEW t \in Threads,
         \/ t \in Workers /\ RevokeRead(t)
         \/ t \in Schedulers /\ ExpireRead(t)
         \/ \E c \in Codes : Revoke(t, c) \/ RevokeFails(t, c)
  PROVE  QuietWrites
<1>1. resv' = resv
  BY DEF RevokeRead, ExpireRead, Revoke, RevokeFails
<1>2. CASE Finish(t)
  BY <1>1, <1>2, IdleRequest, OtherQuiet DEF Finish
<1>3. CASE \E by \in Reasons, todo \in SUBSET Codes :
             Continue(t, [op |-> "revoke", by |-> by, todo |-> todo, done |-> {}])
  <2>1. PICK by \in Reasons, todo \in SUBSET Codes :
               Continue(t, [op |-> "revoke", by |-> by, todo |-> todo, done |-> {}])
    BY <1>3
  <2>. DEFINE q == [op |-> "revoke", by |-> by, todo |-> todo, done |-> {}]
  <2>2. q \in Request /\ q.op = "revoke" /\ Continue(t, q)
    BY <2>1 DEF Request, Reasons
  <2>. HIDE DEF q
  <2>. QED
    BY <1>1, <2>2, OtherQuiet
<1>4. ASSUME NEW c \in Codes, Revoke(t, c)
      PROVE  QuietWrites
  <2>. DEFINE q == [req[t] EXCEPT !.todo = @ \ {c}, !.done = @ \cup {c}]
  <2>1. req[t] \in Request /\ req[t].op = "revoke" /\ c \in req[t].todo
    BY <1>4 DEF Revoke, StayInv, TypeOK
  <2>2. req[t] \in [op : {"revoke"}, by : Reasons,
                 todo : SUBSET Codes, done : SUBSET Codes]
    BY <2>1 DEF Request, Idle, Reasons
  <2>3. q \in Request /\ q.op = "revoke"
    BY <2>2 DEF Request, Reasons
  <2>4. Continue(t, q)
    BY <1>4 DEF Revoke
  <2>. HIDE DEF q
  <2>. QED
    BY <1>1, <2>3, <2>4, OtherQuiet
<1>5. RevokeRead(t) => \/ Finish(t)
                       \/ \E by \in Reasons, todo \in SUBSET Codes :
                            Continue(t, [op |-> "revoke", by |-> by, todo |-> todo, done |-> {}])
  <2>1. RevokeRead(t) => req[t].by \in Reasons
    BY RequestFields DEF RevokeRead, StayInv, TypeOK, Reasons
  <2>. QED
    BY <2>1 DEF RevokeRead
<1>6. ExpireRead(t) => \E by \in Reasons, todo \in SUBSET Codes :
                         Continue(t, [op |-> "revoke", by |-> by, todo |-> todo, done |-> {}])
  BY DEF ExpireRead, Start, Continue, Reasons
<1>7. CASE req[t].op = "revoke" /\ Continue(t, [req[t] EXCEPT !.todo = {}])
  <2>. DEFINE q == [req[t] EXCEPT !.todo = {}]
  <2>1. req[t] \in [op : {"revoke"}, by : Reasons,
                   todo : SUBSET Codes, done : SUBSET Codes]
    BY <1>7 DEF StayInv, TypeOK, Request, Idle, Reasons
  <2>2. q \in Request /\ q.op = "revoke" /\ Continue(t, q)
    BY <1>7, <2>1 DEF Request, Reasons
  <2>. HIDE DEF q
  <2>. QED
    BY <1>1, <2>2, OtherQuiet
<1>. QED
  BY <1>2, <1>3, <1>4, <1>5, <1>6, <1>7 DEF RevokeFails

LEMMA QuietOrWriter ==
  ASSUME StayInv, [Next]_vars
  PROVE  QuietWrites \/ \E w \in Workers : WriterStep(w)
<1>0. Workers \subseteq Threads /\ Schedulers \subseteq Threads
  BY DEF Threads
<1>1. CASE UNCHANGED <<resv, req>>
  BY <1>1 DEF QuietWrites
<1>2. ASSUME NEW w \in Workers, NEW r \in Reservations,
             NEW from \in FirstDays, NEW to \in Days, Resize(w, r, from, to)
      PROVE  WriterStep(w)
  <2>1. resv[r].unit \in Units
    BY <1>2, RowThere DEF Resize, StayInv, Row
  <2>. QED
    BY <1>2, <2>1 DEF Resize, WriterStep
<1>3. ASSUME NEW w \in Workers, NEW r \in Reservations,
             NEW key \in PageKeys \cup {"none"}, CheckIn(w, r, key)
      PROVE  QuietWrites
  <2>. DEFINE q == [op |-> "issue", resv |-> r, key |-> key, guest |-> TRUE]
  <2>1. q \in Request /\ q.op = "issue" /\ Continue(w, q) /\ resv' = resv
    BY <1>3 DEF Request, Keys, CheckIn, Start, Continue
  <2>. HIDE DEF q
  <2>. QED
    BY <1>0, <2>1, OtherQuiet
<1>4. ASSUME NEW t \in Threads, RevokeCommit(t) \/ CheckInCommit(t) \/ Crash(t)
      PROVE  QuietWrites
  BY <1>4, IdleRequest, OtherQuiet DEF RevokeCommit, CheckInCommit, Crash, Finish
<1>5. CASE NextDay \/ UNCHANGED vars \/ \E r \in Reservations : SendCheckInLink(r)
  BY <1>1, <1>5 DEF NextDay, vars, SendCheckInLink
<1>6. CASE Next
  BY <1>0, <1>6, <1>2, <1>3, <1>4, <1>5, IssueQuiet, RevocationQuiet
     DEF Next, WriterStep
<1>. QED
  BY <1>5, <1>6

-----------------------------------------------------------------------------
(* Payments.  What a write may do to the payment of the row it has read.   *)

PaySound(q) ==
  \/ q.new.pay \in {q.old.pay, "paid"}
  \/ q.by = "cancel" /\ q.old.pay = "pending" /\ q.old.st = "confirmed"

PayInv ==
  /\ StayInv
  /\ \A t \in Threads :
       req[t].op = "write" => t \in Workers /\ PaySound(req[t])

(* A worker has read a row and means to write it.                          *)
LEMMA WriteIsPaySound ==
  ASSUME PayInv, StayInv', NEW w \in Workers, NEW r \in Reservations, Exists(r),
         NEW by \in {"update", "move", "cancel", "paid"}, NEW new \in Row,
         Write(w, by, r, new),
         \/ new.pay \in {resv[r].pay, "paid"}
         \/ by = "cancel" /\ resv[r].pay = "pending" /\ resv[r].st = "confirmed"
  PROVE  PayInv'
<1>. DEFINE q == [op |-> "write", by |-> by, resv |-> r, old |-> resv[r],
                  new |-> new]
<1>1. q \in Request /\ PaySound(q)
  BY RowThere DEF Request, PayInv, StayInv, PaySound
<1>2. w \in Threads /\ Continue(w, q)
  BY DEF Threads, Write, Start, Continue
<1>. HIDE DEF q
<1>3. /\ req'[w] = q
      /\ \A u \in Threads \ {w} : req'[u] = req[u]
  BY <1>1, <1>2, Requests DEF PayInv, StayInv
<1>. QED
  BY <1>1, <1>3 DEF PayInv, PaySound

(* A worker turns to something that is not a write of a row.               *)
LEMMA OtherIsPaySound ==
  ASSUME PayInv, StayInv', NEW w \in Workers, NEW q \in Request,
         Continue(w, q), q.op # "write"
  PROVE  PayInv'
<1>1. /\ req'[w] = q
      /\ \A u \in Threads \ {w} : req'[u] = req[u]
  BY Requests DEF PayInv, StayInv, Threads
<1>. QED
  BY <1>1 DEF PayInv, PaySound

LEMMA PayInvStep ==
  ASSUME PayInv, [Next]_vars
  PROVE  PayInv'
<1>0. StayInv /\ StayInv'
  BY StayInvStep DEF PayInv
<1>1. CASE QuietWrites
  BY <1>0, <1>1 DEF PayInv, PaySound, QuietWrites
<1>2. ASSUME NEW w \in Workers, NEW u \in Units, NEW from \in FirstDays,
             NEW to \in Days, CreateRead(w, u, from, to)
      PROVE  PayInv'
  <2>. DEFINE q == [op |-> "create", unit |-> u, from |-> from, to |-> to]
  <2>1. q \in Request /\ q.op = "create" /\ Continue(w, q)
    BY <1>2, StaysAssumption DEF Request, Days, CreateRead, Start, Continue
  <2>. HIDE DEF q
  <2>. QED
    BY <1>0, <2>1, OtherIsPaySound
<1>3. ASSUME NEW w \in Workers, NEW r \in Reservations, CreateCommit(w, r)
      PROVE  PayInv'
  <2>. DEFINE q == [op |-> "issue", resv |-> r, key |-> r, guest |-> FALSE]
  <2>1. q \in Request /\ q.op = "issue" /\ Continue(w, q)
    BY <1>3 DEF Request, Keys, CreateCommit
  <2>. HIDE DEF q
  <2>. QED
    BY <1>0, <2>1, OtherIsPaySound
<1>4. ASSUME NEW w \in Workers, NEW r \in Reservations, NEW u \in Units,
             NEW from \in FirstDays, NEW to \in Days,
             \/ Move(w, r, u, from, to)
             \/ \E st \in {"confirmed", "cancelled"} : Update(w, r, st, u, from, to)
      PROVE  PayInv'
  <2>1. Exists(r) /\ resv[r] \in Row
    BY <1>0, <1>4, RowThere DEF Move, Update, StayInv
  <2>2. ASSUME NEW st \in {"confirmed", "cancelled"}
        PROVE  LET n == [resv[r] EXCEPT !.unit = u, !.from = from, !.to = to]
                   m == [resv[r] EXCEPT !.st = st, !.unit = u, !.from = from,
                                        !.to = to]
               IN  n \in Row /\ m \in Row /\ n.pay = resv[r].pay /\ m.pay = resv[r].pay
    BY <2>1, StaysAssumption DEF Row, Days
  <2>. QED
    BY <1>0, <1>4, <2>1, <2>2, WriteIsPaySound DEF Move, Update
<1>5. ASSUME NEW w \in Workers, NEW r \in Reservations, Cancel(w, r)
      PROVE  PayInv'
  <2>. DEFINE new == [resv[r] EXCEPT !.st  = "cancelled",
                                     !.pay = IF @ = "paid" THEN "paid" ELSE "cancelled"]
  <2>1. Exists(r) /\ resv[r].st = "confirmed"
    BY <1>5 DEF Cancel, Exists, NoRow
  <2>2. resv[r] \in Row
    BY <1>0, <2>1, RowThere DEF StayInv
  <2>3. new \in Row /\ (new.pay \in {resv[r].pay, "paid"} \/ resv[r].pay = "pending")
    BY <2>2 DEF Row
  <2>4. Write(w, "cancel", r, new)
    BY <1>5 DEF Cancel
  <2>. HIDE DEF new
  <2>. QED
    BY <1>0, <2>1, <2>3, <2>4, WriteIsPaySound
<1>6. ASSUME NEW w \in Workers, NEW r \in Reservations, MarkPaid(w, r)
      PROVE  PayInv'
  <2>. DEFINE new == [resv[r] EXCEPT !.pay = "paid"]
  <2>1. Exists(r) /\ new \in Row /\ new.pay = "paid" /\ Write(w, "paid", r, new)
    BY <1>0, <1>6, RowThere DEF MarkPaid, StayInv, Row
  <2>. HIDE DEF new
  <2>. QED
    BY <1>0, <2>1, WriteIsPaySound
<1>7. ASSUME NEW w \in Workers, Save(w)
      PROVE  PayInv'
  <2>. DEFINE q == req[w]
              after == IF q.by \in {"update", "cancel"}
                       THEN [op |-> "saved", by |-> q.by, resv |-> q.resv,
                             to |-> q.old.to]
                       ELSE Idle
  <2>1. q.resv \in Reservations /\ q.old \in Row
    BY <1>0, <1>7, RequestFields DEF Threads, Save, StayInv, TypeOK
  <2>2. after \in Request /\ after.op \in {"saved", "idle"}
    BY <2>1, IdleRequest DEF Request, Row
  <2>3. Continue(w, after)
    BY <1>7 DEF Save, Finish
  <2>. HIDE DEF after, q
  <2>. QED
    BY <1>0, <2>2, <2>3, OtherIsPaySound
<1>. QED
  BY <1>0, <1>1, <1>2, <1>3, <1>4, <1>5, <1>6, <1>7, QuietOrWriter DEF WriterStep

LEMMA PayInvAlways == Spec => []PayInv
<1>1. Init => PayInv
  BY StayInvInit, IdleRequest DEF Init, PayInv
<1>. QED
  BY <1>1, PayInvStep, PTL DEF Spec

(* With any number of workers whose reads and writes interleave, only a    *)
(* cancellation that read the stay while its payment was pending takes the *)
(* mark "paid" back (cancel_reservation; the ORM writes the columns that   *)
(* differ from what was read).                                             *)
THEOREM OnlyAStaleCancelUnpays == Spec => OnlyStaleCancelUnpays
<1>1. ASSUME PayInv, [Next]_vars, NEW r \in Reservations,
             Exists(r), resv[r].pay = "paid", resv'[r].pay # "paid"
      PROVE  \E w \in Workers :
               /\ req[w].op = "write" /\ req[w].by = "cancel" /\ req[w].resv = r
               /\ req[w].old.pay = "pending" /\ req[w].old.st = "confirmed"
  <2>1. PICK w \in Workers : Save(w) \/ \E s \in Reservations : CreateCommit(w, s)
    <3>1. resv' # resv
      BY <1>1
    <3>2. PICK w \in Workers : WriterStep(w)
      BY <1>1, <3>1, QuietOrWriter DEF PayInv, QuietWrites
    <3>3. Save(w) \/ \E s \in Reservations : CreateCommit(w, s)
      BY <3>1, <3>2 DEF WriterStep, CreateRead, Cancel, MarkPaid, Move, Update
    <3>. QED
      BY <3>3
  <2>2. CASE \E s \in Reservations : CreateCommit(w, s)
    BY <1>1, <2>2 DEF CreateCommit, PayInv, StayInv, TypeOK
  <2>3. CASE Save(w)
    <3>1. w \in Threads /\ req[w].op = "write"
      BY <2>3 DEF Threads, Save
    <3>2. PaySound(req[w])
      BY <1>1, <3>1 DEF PayInv
    <3>3. resv' = [resv EXCEPT ![req[w].resv] = Written(@, req[w].old, req[w].new)]
      BY <2>3 DEF Save
    <3>4. req[w].resv = r
      BY <1>1, <3>3 DEF PayInv, StayInv, TypeOK
    <3>5. resv'[r].pay = IF req[w].new.pay = req[w].old.pay THEN resv[r].pay
                                                            ELSE req[w].new.pay
      BY <1>1, <3>3, <3>4 DEF PayInv, StayInv, TypeOK, Written
    <3>. QED
      BY <1>1, <3>1, <3>2, <3>4, <3>5 DEF PaySound
  <2>. QED
    BY <2>1, <2>2, <2>3
<1>2. PayInv /\ [Next]_vars
        => [\A r \in Reservations :
              Exists(r) /\ resv[r].pay = "paid" /\ resv'[r].pay # "paid" =>
                \E w \in Workers :
                  /\ req[w].op = "write" /\ req[w].by = "cancel" /\ req[w].resv = r
                  /\ req[w].old.pay = "pending" /\ req[w].old.st = "confirmed"]_resv
  BY <1>1
<1>. QED
  BY <1>2, PayInvAlways, PTL DEF Spec, OnlyStaleCancelUnpays

-----------------------------------------------------------------------------
(* What holds of Stays with one web worker, which serves its requests one  *)
(* after the other (start.sh), however many threads run the revocation     *)
(* job: no night is given to two stays, and every step is a step of        *)
(* UnitCalendar.  The run DoubleBooking shows that two workers break it.   *)
(*                                                                         *)
(* What a request has validated still holds when it commits, because only  *)
(* a worker writes reservations.  SerialInv says so.                       *)
OneWorker == \A v, w \in Workers : v = w

(* The row may stand for reservation r beside the other stays.             *)
Fits(r, row) ==
  row.st = "confirmed" => /\ row.from < row.to
                          /\ ~Overlaps(row.unit, row.from, row.to, {r})

(* What a request has validated.                                           *)
Validated(q) ==
  /\ q.op = "create" => /\ q.from < q.to
                        /\ ~Overlaps(q.unit, q.from, q.to, {})
  /\ q.op = "write" => /\ q.old = resv[q.resv]
                       /\ Fits(q.resv, q.new)

SerialInv ==
  /\ StayInv
  /\ \A t \in Threads :
       req[t].op \in {"create", "write"} => t \in Workers /\ Validated(req[t])
  /\ \A r \in Reservations : Fits(r, resv[r])

(* What every step does with the reservations: none is written, and what   *)
(* a request takes up is validated; or one is written that fits, and then  *)
(* no request is under way.                                                *)
ReadStep ==
  /\ resv' = resv
  /\ \A t \in Threads :
       req'[t].op \in {"create", "write"} =>
         req'[t] = req[t] \/ (t \in Workers /\ Validated(req'[t]))
CommitStep ==
  \E r \in Reservations, row \in Row :
    /\ resv' = [resv EXCEPT ![r] = row]
    /\ Fits(r, row)
    /\ \A t \in Threads : req'[t].op \notin {"create", "write"}

-----------------------------------------------------------------------------
LEMMA SerialInvKept ==
  ASSUME SerialInv, StayInv', ReadStep \/ CommitStep
  PROVE  SerialInv'
<1>1. CASE ReadStep
  <2>1. \A r \in Reservations : Fits(r, resv[r])'
    BY <1>1 DEF SerialInv, ReadStep, Fits, Overlaps
  <2>2. ASSUME NEW t \in Threads, req'[t].op \in {"create", "write"}
        PROVE  t \in Workers /\ Validated(req[t])'
    BY <1>1, <2>2 DEF SerialInv, ReadStep, Validated, Fits, Overlaps
  <2>. QED
    BY <2>1, <2>2 DEF SerialInv, Fits, Overlaps
<1>2. CASE CommitStep
  <2>1. PICK r \in Reservations, row \in Row :
          /\ resv' = [resv EXCEPT ![r] = row]
          /\ Fits(r, row)
          /\ \A t \in Threads : req'[t].op \notin {"create", "write"}
    BY <1>2 DEF CommitStep
  <2>2. resv'[r] = row /\ \A s \in Reservations \ {r} : resv'[s] = resv[s]
    BY <2>1 DEF SerialInv, StayInv, TypeOK
  <2>3. ASSUME NEW s \in Reservations, resv'[s].st = "confirmed"
        PROVE  /\ resv'[s].from < resv'[s].to
               /\ ~\E q \in Reservations \ {s} :
                     /\ resv'[q].st = "confirmed" /\ resv'[q].unit = resv'[s].unit
                     /\ resv'[q].from < resv'[s].to /\ resv'[s].from < resv'[q].to
    <3>1. CASE s = r
      BY <2>1, <2>2, <2>3, <3>1 DEF Fits, Overlaps
    <3>2. CASE s # r
      BY <2>1, <2>2, <2>3, <3>2 DEF SerialInv, Fits, Overlaps
    <3>. QED
      BY <3>1, <3>2
  <2>. QED
    BY <2>1, <2>3 DEF SerialInv, Fits, Overlaps
<1>. QED
  BY <1>1, <1>2

-----------------------------------------------------------------------------
(* A worker has validated a change of a row.                               *)
LEMMA WriteSerialStep ==
  ASSUME StayInv, NEW w \in Workers, NEW r \in Reservations, Exists(r),
         NEW by \in {"update", "move", "cancel", "paid"}, NEW new \in Row,
         Write(w, by, r, new), Fits(r, new), resv' = resv
  PROVE  ReadStep
<1>. DEFINE q == [op |-> "write", by |-> by, resv |-> r, old |-> resv[r],
                  new |-> new]
<1>1. q \in Request /\ q.op = "write" /\ Validated(q)
  BY RowThere DEF Request, StayInv, Validated
<1>2. w \in Threads /\ Continue(w, q)
  BY DEF Threads, Write, Start, Continue
<1>. HIDE DEF q
<1>. QED
  BY <1>1, <1>2, Requests DEF ReadStep, StayInv

LEMMA CreateReadSerialStep ==
  ASSUME StayInv, NEW w \in Workers, NEW u \in Units, NEW from \in FirstDays,
         NEW to \in Days, CreateRead(w, u, from, to)
  PROVE  ReadStep
<1>. DEFINE q == [op |-> "create", unit |-> u, from |-> from, to |-> to]
<1>1. q \in Request /\ q.op = "create" /\ Validated(q)
  BY StaysAssumption DEF Request, Days, Validated, CreateRead
<1>2. w \in Threads /\ Continue(w, q) /\ resv' = resv
  BY DEF Threads, CreateRead, Start, Continue
<1>. HIDE DEF q
<1>. QED
  BY <1>1, <1>2, Requests DEF ReadStep, StayInv

LEMMA UpdateSerialStep ==
  ASSUME StayInv, NEW w \in Workers, NEW r \in Reservations,
         NEW st \in {"confirmed", "cancelled"}, NEW u \in Units,
         NEW from \in FirstDays, NEW to \in Days, Update(w, r, st, u, from, to)
  PROVE  ReadStep
<1>. DEFINE new == [resv[r] EXCEPT !.st = st, !.unit = u, !.from = from, !.to = to]
<1>1. resv[r] \in Row
  BY RowThere DEF Update, StayInv
<1>2. /\ new \in Row /\ new.st = st /\ new.unit = u
      /\ new.from = from /\ new.to = to /\ new.pay = resv[r].pay
  BY <1>1, StaysAssumption DEF Row, Days
<1>3. Fits(r, new)
  BY <1>2 DEF Update, Fits
<1>4. Exists(r) /\ Write(w, "update", r, new) /\ resv' = resv
  BY DEF Update
<1>. HIDE DEF new
<1>. QED
  BY <1>2, <1>3, <1>4, WriteSerialStep

LEMMA MoveSerialStep ==
  ASSUME StayInv, NEW w \in Workers, NEW r \in Reservations, NEW u \in Units,
         NEW from \in FirstDays, NEW to \in Days, Move(w, r, u, from, to)
  PROVE  ReadStep
<1>. DEFINE new == [resv[r] EXCEPT !.unit = u, !.from = from, !.to = to]
<1>1. resv[r] \in Row
  BY RowThere DEF Move, StayInv
<1>2. /\ new \in Row /\ new.st = resv[r].st /\ new.unit = u
      /\ new.from = from /\ new.to = to /\ new.pay = resv[r].pay
  BY <1>1, StaysAssumption DEF Row, Days
<1>3. Fits(r, new)
  BY <1>2 DEF Move, Fits
<1>4. Exists(r) /\ Write(w, "move", r, new) /\ resv' = resv
  BY DEF Move
<1>. HIDE DEF new
<1>. QED
  BY <1>2, <1>3, <1>4, WriteSerialStep

LEMMA CancelSerialStep ==
  ASSUME StayInv, NEW w \in Workers, NEW r \in Reservations, Cancel(w, r)
  PROVE  ReadStep
<1>. DEFINE new == [resv[r] EXCEPT !.st  = "cancelled",
                                   !.pay = IF @ = "paid" THEN "paid" ELSE "cancelled"]
<1>1. Exists(r)
  BY DEF Cancel, Exists, NoRow
<1>2. /\ new \in Row /\ new.st = "cancelled"
  BY <1>1, RowThere DEF StayInv, Row
<1>3. Write(w, "cancel", r, new) /\ resv' = resv
  BY DEF Cancel
<1>4. Fits(r, new)
  BY <1>2 DEF Fits
<1>. HIDE DEF new
<1>. QED
  BY <1>1, <1>2, <1>3, <1>4, WriteSerialStep

(* A row that is only marked paid fits as it did before.                   *)
LEMMA MarkPaidSerialStep ==
  ASSUME SerialInv, NEW w \in Workers, NEW r \in Reservations, MarkPaid(w, r)
  PROVE  ReadStep
<1>. DEFINE new == [resv[r] EXCEPT !.pay = "paid"]
<1>1. Exists(r) /\ StayInv
  BY DEF MarkPaid, SerialInv
<1>2. /\ new \in Row /\ new.st = resv[r].st /\ new.unit = resv[r].unit
      /\ new.from = resv[r].from /\ new.to = resv[r].to
      /\ new.pay = "paid"
  BY <1>1, RowThere DEF StayInv, Row
<1>3. Write(w, "paid", r, new) /\ resv' = resv
  BY DEF MarkPaid
<1>4. Fits(r, new)
  BY <1>2 DEF SerialInv, Fits
<1>. HIDE DEF new
<1>. QED
  BY <1>1, <1>2, <1>3, <1>4, WriteSerialStep

(* With one worker, nobody else has a write under way when one commits.    *)
LEMMA OnlyWriter ==
  ASSUME OneWorker, SerialInv, NEW w \in Workers, NEW q \in Request,
         Continue(w, q), q.op \notin {"create", "write"}
  PROVE  \A t \in Threads : req'[t].op \notin {"create", "write"}
<1>1. w \in Threads
  BY DEF Threads
<1>2. /\ req'[w] = q
      /\ \A u \in Threads \ {w} : req'[u] = req[u]
  BY <1>1, Requests DEF SerialInv, StayInv
<1>. QED
  BY <1>2 DEF OneWorker, SerialInv

LEMMA CreateCommitSerialStep ==
  ASSUME OneWorker, SerialInv, NEW w \in Workers, NEW r \in Reservations,
         CreateCommit(w, r)
  PROVE  CommitStep
<1>. DEFINE row == [st |-> "confirmed", unit |-> req[w].unit,
                    from |-> req[w].from, to |-> req[w].to, pay |-> "pending"]
            q == [op |-> "issue", resv |-> r, key |-> r, guest |-> FALSE]
<1>1. /\ w \in Threads /\ req[w] \in Request /\ req[w].op = "create"
      /\ Validated(req[w])
  BY DEF Threads, CreateCommit, SerialInv, StayInv, TypeOK
<1>2. row \in Row
  BY <1>1, RequestFields DEF Row
<1>3. Fits(r, row) /\ ~Exists(r)
  BY <1>1 DEF Validated, Fits, Overlaps, CreateCommit
<1>4. q \in Request /\ q.op = "issue"
  BY DEF Request, Keys
<1>5. Continue(w, q) /\ resv' = [resv EXCEPT ![r] = row]
  BY DEF CreateCommit
<1>. HIDE DEF q, row
<1>6. \A t \in Threads : req'[t].op \notin {"create", "write"}
  BY <1>4, <1>5, OnlyWriter
<1>. QED
  BY <1>2, <1>3, <1>5, <1>6 DEF CommitStep

LEMMA SaveSerialStep ==
  ASSUME OneWorker, SerialInv, NEW w \in Workers, Save(w)
  PROVE  CommitStep
<1>. DEFINE q == req[w]
            after == IF q.by \in {"update", "cancel"}
                     THEN [op |-> "saved", by |-> q.by, resv |-> q.resv,
                           to |-> q.old.to]
                     ELSE Idle
<1>1. /\ w \in Threads /\ q \in Request /\ q.op = "write"
      /\ q.resv \in Reservations /\ q.old \in Row /\ q.new \in Row
      /\ q.old = resv[q.resv] /\ Fits(q.resv, q.new)
  BY RequestFields DEF Threads, Save, SerialInv, StayInv, TypeOK, Validated
<1>2. Written(q.old, q.old, q.new) = q.new
  BY <1>1 DEF Written, Row
<1>3. after \in Request /\ after.op \in {"saved", "idle"}
  BY <1>1, IdleRequest DEF Request, Row
<1>4. Continue(w, after)
  BY DEF Save, Finish
<1>5. resv' = [resv EXCEPT ![q.resv] = q.new]
  BY <1>1, <1>2 DEF Save
<1>. HIDE DEF after, q
<1>6. \A t \in Threads : req'[t].op \notin {"create", "write"}
  BY <1>3, <1>4, OnlyWriter
<1>. QED
  BY <1>1, <1>5, <1>6 DEF CommitStep

LEMMA EverySerialStep ==
  ASSUME OneWorker, SerialInv, [Next]_vars
  PROVE  ReadStep \/ CommitStep
<1>1. StayInv
  BY DEF SerialInv
<1>2. QuietWrites => ReadStep
  BY DEF QuietWrites, ReadStep
<1>3. ASSUME NEW w \in Workers, WriterStep(w)
      PROVE  ReadStep \/ CommitStep
  BY <1>1, <1>3, CreateReadSerialStep, UpdateSerialStep, MoveSerialStep,
     CancelSerialStep, MarkPaidSerialStep, CreateCommitSerialStep, SaveSerialStep
     DEF WriterStep
<1>. QED
  BY <1>1, <1>2, <1>3, QuietOrWriter

LEMMA SerialInvInit ==
  ASSUME Init
  PROVE  SerialInv
BY StayInvInit, IdleRequest DEF Init, SerialInv, Fits, NoRow

LEMMA SerialInvAlways ==
  ASSUME OneWorker
  PROVE  Spec => []SerialInv
<1>1. SerialInv /\ [Next]_vars => SerialInv'
  BY StayInvStep, EverySerialStep, SerialInvKept DEF SerialInv
<1>. QED
  BY <1>1, SerialInvInit, PTL DEF Spec

(* One worker never books a night of a unit twice, whatever reservations   *)
(* are created, edited, confirmed again, moved and cancelled, and wherever *)
(* the worker stops (_validate_reservation_dates_and_overlap).             *)
THEOREM OneWorkerBooksOnce ==
  ASSUME OneWorker
  PROVE  Spec => []NoDoubleBooking
<1>1. SerialInv => NoDoubleBooking
  <2>1. ASSUME SerialInv, NEW r \in Reservations, NEW q \in Reservations, r # q,
               resv[r].st = "confirmed", resv[q].st = "confirmed",
               resv[r].unit = resv[q].unit
        PROVE  resv[r].to <= resv[q].from \/ resv[q].to <= resv[r].from
    <3>1. resv[r] \in Row /\ resv[q] \in Row
      BY <2>1, RowThere DEF SerialInv, StayInv, Exists, NoRow
    <3>2. /\ resv[r].to \in Int /\ resv[r].from \in Int
          /\ resv[q].to \in Int /\ resv[q].from \in Int
      BY <3>1, StaysAssumption DEF Row, Days
    <3>. QED
      BY <2>1, <3>2 DEF SerialInv, Fits, Overlaps
  <2>. QED
    BY <2>1 DEF NoDoubleBooking
<1>. QED
  BY <1>1, SerialInvAlways, PTL

-----------------------------------------------------------------------------
(* The refinement of UnitCalendar.                                         *)

(* Writing one row that fits takes its nights from the calendar, or gives  *)
(* them back.                                                              *)
LEMMA CommitTakesNights ==
  ASSUME SerialInv, NEW r \in Reservations, NEW row \in Row,
         resv' = [resv EXCEPT ![r] = row], Fits(r, row), row.st = "confirmed"
  PROVE  /\ row.from < row.to
         /\ \A d \in row.from..(row.to - 1) : StaysOf(row.unit, d) \subseteq {r}
         /\ \A u \in Units, d \in 0..(LastDay - 1) :
              StaysOf(u, d)' = IF u = row.unit /\ row.from <= d /\ d < row.to
                               THEN {r} ELSE StaysOf(u, d) \ {r}
<1>1. resv'[r] = row /\ \A s \in Reservations \ {r} : resv'[s] = resv[s]
  BY DEF SerialInv, StayInv, TypeOK
<1>2. \A s \in Reservations :
        resv[s].st = "confirmed" => resv[s].from \in Int /\ resv[s].to \in Int
  <2>1. ASSUME NEW s \in Reservations, resv[s].st = "confirmed"
        PROVE  resv[s] \in Row
    BY <2>1, RowThere DEF SerialInv, StayInv, Exists, NoRow
  <2>. QED
    BY <2>1, StaysAssumption DEF Row, Days
<1>3. row.from \in Int /\ row.to \in Int /\ row.from < row.to
  BY StaysAssumption DEF Row, Days, Fits
<1>4. \A d \in Int :
        row.from <= d /\ d < row.to => StaysOf(row.unit, d) \subseteq {r}
  BY <1>2, <1>3 DEF StaysOf, Fits, Overlaps
<1>5. \A d \in row.from..(row.to - 1) : StaysOf(row.unit, d) \subseteq {r}
  BY <1>3, <1>4
<1>6. ASSUME NEW u \in Units, NEW d \in 0..(LastDay - 1)
      PROVE  StaysOf(u, d)' = IF u = row.unit /\ row.from <= d /\ d < row.to
                              THEN {r} ELSE StaysOf(u, d) \ {r}
  <2>1. d \in Int
    BY StaysAssumption
  <2>2. CASE u = row.unit /\ row.from <= d /\ d < row.to
    <3>1. StaysOf(u, d) \subseteq {r}
      BY <1>4, <2>1, <2>2
    <3>2. \A s \in Reservations \ {r} : s \notin StaysOf(u, d)'
      BY <1>1, <3>1 DEF StaysOf
    <3>3. r \in StaysOf(u, d)'
      BY <1>1, <2>2 DEF StaysOf
    <3>. QED
      BY <2>2, <3>2, <3>3 DEF StaysOf
  <2>3. CASE ~(u = row.unit /\ row.from <= d /\ d < row.to)
    BY <1>1, <2>3 DEF StaysOf
  <2>. QED
    BY <2>2, <2>3
<1>. QED
  BY <1>3, <1>5, <1>6

LEMMA CommitGivesBack ==
  ASSUME SerialInv, NEW r \in Reservations, NEW row \in Row,
         resv' = [resv EXCEPT ![r] = row], row.st = "cancelled"
  PROVE  \A u \in Units, d \in 0..(LastDay - 1) :
           StaysOf(u, d)' = StaysOf(u, d) \ {r}
<1>1. resv'[r] = row /\ \A s \in Reservations \ {r} : resv'[s] = resv[s]
  BY DEF SerialInv, StayInv, TypeOK
<1>. QED
  BY <1>1 DEF StaysOf

LEMMA CalendarStep ==
  ASSUME SerialInv, ReadStep \/ CommitStep
  PROVE  [Calendar!Next]_Guests
<1>1. CASE ReadStep
  BY <1>1 DEF ReadStep, Guests, StaysOf
<1>2. CASE CommitStep
  <2>1. PICK r \in Reservations, row \in Row :
          resv' = [resv EXCEPT ![r] = row] /\ Fits(r, row)
    BY <1>2 DEF CommitStep
  <2>2. CASE row.st = "confirmed"
    <3>1. /\ row.from < row.to
          /\ \A d \in row.from..(row.to - 1) : StaysOf(row.unit, d) \subseteq {r}
          /\ \A u \in Units, d \in 0..(LastDay - 1) :
               StaysOf(u, d)' = IF u = row.unit /\ row.from <= d /\ d < row.to
                                THEN {r} ELSE StaysOf(u, d) \ {r}
      BY <2>1, <2>2, CommitTakesNights
    <3>2. row.unit \in Units /\ row.from \in Calendar!Days /\ row.to \in Calendar!Days
      BY DEF Row, Days, Calendar!Days
    <3>3. \A d \in row.from..(row.to - 1) : d \in 0..(LastDay - 1)
      BY StaysAssumption DEF Row, Days
    <3>. DEFINE Without == [u \in Units |-> [d \in 0..(LastDay - 1) |->
                                               Guests[u][d] \ {r}]]
    <3>4. \A d \in row.from..(row.to - 1) : Guests[row.unit][d] \subseteq {r}
      BY <3>1, <3>2, <3>3 DEF Guests
    <3>5. Guests' = [u \in Units |-> [d \in 0..(LastDay - 1) |->
                       IF u = row.unit /\ row.from <= d /\ d < row.to
                       THEN {r} ELSE StaysOf(u, d) \ {r}]]
      BY <3>1 DEF Guests
    <3>6. Without = [u \in Units |-> [d \in 0..(LastDay - 1) |-> StaysOf(u, d) \ {r}]]
      BY DEF Guests
    <3>7. [Without EXCEPT ![row.unit] =
             [d \in 0..(LastDay - 1) |-> IF row.from <= d /\ d < row.to
                                         THEN {r} ELSE Without[row.unit][d]]]
          = [u \in Units |-> [d \in 0..(LastDay - 1) |->
               IF u = row.unit /\ row.from <= d /\ d < row.to
               THEN {r} ELSE StaysOf(u, d) \ {r}]]
      <4>. HIDE DEF Without
      <4>. DEFINE After(u) == [d \in 0..(LastDay - 1) |->
                                  IF u = row.unit /\ row.from <= d /\ d < row.to
                                  THEN {r} ELSE StaysOf(u, d) \ {r}]
                  Taken == [d \in 0..(LastDay - 1) |->
                              IF row.from <= d /\ d < row.to
                              THEN {r} ELSE Without[row.unit][d]]
      <4>1. Taken = After(row.unit)
        BY <3>2, <3>6
      <4>2. \A u \in Units : u # row.unit => Without[u] = After(u)
        BY <3>6
      <4>3. DOMAIN Without = Units /\ Without = [u \in Units |-> Without[u]]
        BY <3>6
      <4>. HIDE DEF Taken, After
      <4>4. [Without EXCEPT ![row.unit] = Taken] = [u \in Units |-> After(u)]
        BY <3>2, <4>1, <4>2, <4>3
      <4>. QED
        BY <4>4 DEF Taken, After
    <3>8. Calendar!Take(r, row.unit, row.from, row.to)
      BY <3>1, <3>4, <3>5, <3>7
         DEF Calendar!Take, Calendar!Without, Calendar!Nights
    <3>. QED
      BY <3>2, <3>8 DEF Calendar!Next
  <2>3. CASE row.st = "cancelled"
    <3>1. \A u \in Units, d \in 0..(LastDay - 1) :
            StaysOf(u, d)' = StaysOf(u, d) \ {r}
      BY <2>1, <2>3, CommitGivesBack
    <3>2. Calendar!GiveBack(r)
      BY <3>1 DEF Calendar!GiveBack, Calendar!Without, Calendar!Nights, Guests
    <3>. QED
      BY <3>2 DEF Calendar!Next
  <2>. QED
    BY <2>2, <2>3 DEF Row
<1>. QED
  BY <1>1, <1>2

(* With one worker, the reservations implement the calendar of the units:  *)
(* every step takes free nights for one stay, gives nights back, or leaves *)
(* the calendar alone (the services of reservations/services.py).          *)
THEOREM OneWorkerImplementsCalendar ==
  ASSUME OneWorker
  PROVE  Spec => ImplementsUnitCalendar
<1>1. Init => Calendar!Init
  BY DEF Init, NoRow, Calendar!Init, Calendar!Nights, Guests, StaysOf
<1>2. SerialInv /\ [Next]_vars => [Calendar!Next]_Guests
  BY EverySerialStep, CalendarStep
<1>. QED
  BY <1>1, <1>2, SerialInvAlways, PTL
     DEF Spec, ImplementsUnitCalendar, Calendar!Spec
=============================================================================
