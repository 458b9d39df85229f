---------------------------- MODULE RepeatsProofs ---------------------------
(***************************************************************************)
(* What holds of the parts of MCRepeats, for any values of their           *)
(* constants: the keys of requests, the events of incoming webhooks, the   *)
(* lockout of the login page and the tokens that let one in.               *)
(*                                                                         *)
(* Each part has an inductive invariant of its own: KeyInv and KeySets,    *)
(* InboxInv, LockInv, SignInv (with one worker; SignTypeStep does without).*)
(* The last section puts the parts together: a step of the whole is a step *)
(* of one, and the others stay as they are.                                *)
(***************************************************************************)
EXTENDS MCRepeats, FiniteSetTheorems, SequenceTheorems, WellFoundedInduction, TLAPS

(* Instances bring operators of their own for what is finite.              *)
LEMMA SameCount ==
  \A S : /\ Lock!Cardinality(S) = Cardinality(S)
         /\ Lock!IsFiniteSet(S) <=> IsFiniteSet(S)
         /\ Sign!Cardinality(S) = Cardinality(S)
  BY DEF Lock!Cardinality, Lock!IsFiniteSet, Sign!Cardinality, Cardinality, IsFiniteSet

LEMMA FirstNumbers ==
  ASSUME NEW n \in Nat
  PROVE  IsFiniteSet(1..n) /\ Cardinality(1..n) = n
<1>1. IsFiniteSet(1..n) /\ Cardinality(1..n) = IF 1 > n THEN 0 ELSE n - 1 + 1
  BY FS_Interval
<1> QED
  BY <1>1

LEMMA NextNumbers ==
  ASSUME NEW a \in Nat, NEW n \in Nat, n > 0
  PROVE  IsFiniteSet((a + 1)..(a + n)) /\ Cardinality((a + 1)..(a + n)) = n
<1>1. \A i, j \in Int : /\ IsFiniteSet(i..j)
                        /\ Cardinality(i..j) = IF i > j THEN 0 ELSE j - i + 1
  BY FS_Interval
<1>2. /\ a + 1 \in Int /\ a + n \in Int /\ ~(a + 1 > a + n)
      /\ (a + n) - (a + 1) + 1 = n
  OBVIOUS
<1> QED
  BY <1>1, <1>2

-----------------------------------------------------------------------------
(* Keys of requests.  The promise is not inductive by itself: a view that  *)
(* is about to commit must hold the insert of the key, and while it holds  *)
(* it no other row of the key is live.  KeyInv says so.                    *)
Types ==
  /\ endpoint \in {"checkout", "bulk"}
  /\ row \in Rows /\ writer \subseteq Requests /\ req \in [Requests -> Reqs]

(* One insert at a time, over no live row, held by every view that has not *)
(* committed; the table row of a view that has is live.                    *)
Claims ==
  /\ \A r, s \in writer : r = s
  /\ writer # {} => ~Live
  /\ \A r \in Requests :
       /\ req[r].at \in {"view", "refused"} => endpoint = "checkout" /\ r \in writer
       /\ req[r].at = "done" => endpoint = "checkout" /\ Live
       /\ req[r].at = "loop" =>
            endpoint = "bulk" /\ Ids \ req[r].left \subseteq cancelled

(* The effect and the row of the key are there together.                   *)
Together ==
  /\ endpoint = "checkout" => effects = IF Live THEN 1 ELSE 0
  /\ endpoint = "bulk" => effects = 0
  /\ endpoint = "bulk" /\ Live /\ row.st = "answered" => Ids \subseteq cancelled

KeyInv == Types /\ Claims /\ Together

-----------------------------------------------------------------------------
LEMMA InitInv == Init => KeyInv
  BY DEF Init, KeyInv, Types, Claims, Together, Rows, Reqs, NoKey, Idle, Live

(* A key that is inserted: the request begins, and is the only writer.     *)
LEMMA InsertKeeps ==
  ASSUME KeyInv, NEW r \in Requests, Insert(r)
  PROVE  KeyInv'
<1>1. PICK b \in Bodies : req' = [req EXCEPT ![r] = Start(b)]
  BY DEF Insert
<1>2. /\ ~Live /\ writer = {} /\ writer' = {r}
      /\ UNCHANGED <<endpoint, foreign, row, effects, cancelled>>
  BY DEF Insert, MayInsert
<1>3. Start(b) \in Reqs /\ Start(b).at = IF endpoint = "bulk" THEN "loop" ELSE "view"
  BY DEF Start, Reqs
<1>4. endpoint = "bulk" => Start(b).left = Ids
  BY DEF Start
<1>5. Types'
  BY <1>1, <1>2, <1>3 DEF KeyInv, Types
<1>6. Live' = Live
  BY <1>2 DEF Live
<1>7. Claims'
  <2> SUFFICES ASSUME NEW s \in Requests
      PROVE /\ req'[s].at \in {"view", "refused"} => endpoint = "checkout" /\ s \in writer'
            /\ req'[s].at = "done" => endpoint = "checkout" /\ Live
            /\ req'[s].at = "loop" =>
                 endpoint = "bulk" /\ Ids \ req'[s].left \subseteq cancelled
    BY <1>2, <1>6 DEF Claims
  <2>1. CASE s = r
    BY <2>1, <1>1, <1>2, <1>3, <1>4 DEF KeyInv, Types
  <2>2. CASE s # r
    BY <2>2, <1>1, <1>2 DEF KeyInv, Types, Claims
  <2> QED
    BY <2>1, <2>2
<1>8. Together'
  BY <1>2, <1>6 DEF KeyInv, Together
<1> QED
  BY <1>5, <1>7, <1>8 DEF KeyInv

(* A repeat of the bulk form under a key that has no answer yet.           *)
LEMMA GoOnKeeps ==
  ASSUME KeyInv, NEW r \in Requests, GoOnWithOpenKey(r)
  PROVE  KeyInv'
<1>1. /\ endpoint = "bulk" /\ Live /\ req' = [req EXCEPT ![r] = Start(row.body)]
      /\ UNCHANGED <<endpoint, foreign, row, writer, effects, cancelled>>
  BY DEF GoOnWithOpenKey
<1>2. row.body \in Bodies
  BY <1>1 DEF KeyInv, Types, Rows, NoKey, Live
<1>3. Start(row.body) = [at |-> "loop", body |-> row.body, left |-> Ids]
  BY <1>1 DEF Start
<1>4. Types'
  BY <1>1, <1>2, <1>3 DEF KeyInv, Types, Reqs
<1>5. Live' = Live
  BY <1>1 DEF Live
<1>6. Claims'
  BY <1>1, <1>3, <1>5 DEF KeyInv, Types, Claims
<1>7. Together'
  BY <1>1, <1>5 DEF KeyInv, Together
<1> QED
  BY <1>4, <1>6, <1>7 DEF KeyInv

(* The first commit of a view: the effect and the key become visible.      *)
LEMMA ViewCommitKeeps ==
  ASSUME KeyInv, NEW r \in Requests, ViewCommit(r)
  PROVE  KeyInv'
<1>1. endpoint = "checkout" /\ r \in writer /\ ~Live /\ effects = 0
  BY DEF ViewCommit, KeyInv, Claims, Together
<1>2. /\ row' = [st |-> "open", body |-> req[r].body, live |-> TRUE]
      /\ writer' = {} /\ effects' = 1
      /\ req' = [req EXCEPT ![r] = [at |-> "done", body |-> @.body]]
      /\ UNCHANGED <<endpoint, foreign, cancelled>>
  BY <1>1 DEF ViewCommit, Committed, KeyInv, Claims
<1>3. req[r].body \in Bodies
  BY DEF ViewCommit, KeyInv, Types, Reqs, Idle
<1>4. Types'
  BY <1>2, <1>3 DEF KeyInv, Types, Rows, Reqs
<1>5. Live'
  BY <1>2 DEF Live
<1>6. ASSUME NEW s \in Requests
      PROVE  req'[s].at \in {"idle", "done"}
  BY <1>1, <1>2 DEF KeyInv, Types, Claims, Reqs, Idle
<1>7. Claims'
  BY <1>1, <1>2, <1>5, <1>6 DEF Claims
<1>8. Together'
  BY <1>1, <1>2, <1>5 DEF Together
<1> QED
  BY <1>4, <1>7, <1>8 DEF KeyInv

LEMMA ViewRefuseKeeps ==
  ASSUME KeyInv, NEW r \in Requests, ViewRefuse(r)
  PROVE  KeyInv'
<1>1. /\ req[r].at = "view" /\ req' = [req EXCEPT ![r] = [at |-> "refused", body |-> @.body]]
      /\ UNCHANGED <<endpoint, foreign, row, writer, effects, cancelled>>
  BY DEF ViewRefuse
<1>2. req[r].body \in Bodies
  BY <1>1 DEF KeyInv, Types, Reqs, Idle
<1>3. Types'
  BY <1>1, <1>2 DEF KeyInv, Types, Reqs
<1>4. Live' = Live
  BY <1>1 DEF Live
<1>5. Claims'
  BY <1>1, <1>4 DEF KeyInv, Types, Claims
<1>6. Together'
  BY <1>1, <1>4 DEF KeyInv, Together
<1> QED
  BY <1>3, <1>5, <1>6 DEF KeyInv

(* The request goes back to idle and nobody's claim grows.                 *)
Released(r) ==
  /\ req' = [req EXCEPT ![r] = Idle] /\ writer' = writer \ {r}
  /\ UNCHANGED <<endpoint, foreign, effects>>

(* An answer is kept, or the key is taken away, or all of it is undone.    *)
LEMMA RecordKeeps ==
  ASSUME KeyInv, NEW r \in Requests, Record(r)
  PROVE  KeyInv'
<1>1. Released(r) /\ UNCHANGED cancelled
  BY DEF Record, Released
<1>2. endpoint = "checkout"
  BY DEF Record, KeyInv, Claims
<1>3. CASE req[r].at = "refused"
  <2>1. row' = NoKey /\ ~Live /\ r \in writer
    BY <1>3 DEF Record, KeyInv, Claims
  <2>2. ~Live'
    BY <2>1 DEF Live, NoKey
  <2>3. Types'
    BY <1>1, <2>1 DEF KeyInv, Types, Released, Rows, Reqs
  <2>4. Claims'
    BY <1>1, <2>1, <2>2 DEF KeyInv, Types, Claims, Released, Idle
  <2>5. Together'
    BY <1>1, <1>2, <2>1, <2>2 DEF KeyInv, Together, Released
  <2> QED
    BY <2>3, <2>4, <2>5 DEF KeyInv
<1>4. CASE req[r].at = "done"
  <2>1. Live /\ writer = {} /\ row' = [row EXCEPT !.st = "answered"]
    BY <1>4 DEF Record, KeyInv, Claims, Committed
  <2>2. row \in [st : {"open", "answered"}, body : Bodies, live : BOOLEAN]
    BY <2>1 DEF KeyInv, Types, Rows, NoKey, Live
  <2>3. Live' /\ row' \in Rows
    BY <2>1, <2>2 DEF Live, Rows
  <2>4. Types'
    BY <1>1, <2>1, <2>3 DEF KeyInv, Types, Released, Reqs
  <2>5. Claims'
    BY <1>1, <2>1, <2>3 DEF KeyInv, Types, Claims, Released, Idle
  <2>6. Together'
    BY <1>1, <1>2, <2>1, <2>3 DEF KeyInv, Together, Released
  <2> QED
    BY <2>4, <2>5, <2>6 DEF KeyInv
<1> QED
  BY <1>3, <1>4 DEF Record

LEMMA BreakKeeps ==
  ASSUME KeyInv, NEW r \in Requests, Break(r)
  PROVE  KeyInv'
<1>1. Released(r) /\ UNCHANGED <<row, cancelled>>
  BY DEF Break, Released
<1>2. Live' = Live
  BY <1>1 DEF Live
<1>3. Types'
  BY <1>1 DEF KeyInv, Types, Released, Reqs
<1>4. Claims'
  BY <1>1, <1>2 DEF KeyInv, Types, Claims, Released, Idle
<1>5. Together'
  BY <1>1, <1>2 DEF KeyInv, Together, Released
<1> QED
  BY <1>3, <1>4, <1>5 DEF KeyInv

-----------------------------------------------------------------------------
(* What a commit of the bulk form makes of the key: an open row, or what   *)
(* was there.                                                              *)
LEMMA CommittedType ==
  ASSUME KeyInv, NEW r \in Requests, req[r].at = "loop"
  PROVE  /\ Committed(r, req[r].body) \in Rows
         /\ r \notin writer => Committed(r, req[r].body) = row
         /\ r \in writer => Committed(r, req[r].body).st = "open"
<1>1. req[r].body \in Bodies
  BY DEF KeyInv, Types, Reqs, Idle
<1> QED
  BY <1>1 DEF KeyInv, Types, Rows, Committed

LEMMA BulkCancelKeeps ==
  ASSUME KeyInv, NEW r \in Requests, BulkCancel(r)
  PROVE  KeyInv'
<1> DEFINE i == Min(req[r].left)
           c == Committed(r, req[r].body)
<1>1. /\ req[r].at = "loop" /\ endpoint = "bulk"
      /\ writer' = writer \ {r} /\ UNCHANGED <<endpoint, foreign, effects>>
  BY DEF BulkCancel, KeyInv, Claims
<1>2. /\ c \in Rows
      /\ r \notin writer => c = row
      /\ r \in writer => c.st = "open"
  BY <1>1, CommittedType
<1>3. CASE i \in foreign
  <2>1. Released(r) /\ UNCHANGED <<row, cancelled>>
    BY <1>1, <1>3 DEF BulkCancel, Released
  <2>2. Live' = Live
    BY <2>1 DEF Live
  <2>3. Types'
    BY <2>1 DEF KeyInv, Types, Released, Reqs
  <2>4. Claims'
    BY <2>1, <2>2 DEF KeyInv, Types, Claims, Released, Idle
  <2>5. Together'
    BY <2>1, <2>2 DEF KeyInv, Together, Released
  <2> QED
    BY <2>3, <2>4, <2>5 DEF KeyInv
<1>4. CASE i \notin foreign
  <2>1. /\ req' = [req EXCEPT ![r].left = @ \ {i}]
        /\ row' = c /\ cancelled' = cancelled \cup {i}
    BY <1>4 DEF BulkCancel
  <2> HIDE DEF i, c
  <2>2. req[r] \in [at : {"loop"}, body : Bodies, left : SUBSET Ids]
    BY <1>1 DEF KeyInv, Types, Reqs, Idle
  <2>3. Types'
    BY <1>1, <1>2, <2>1, <2>2 DEF KeyInv, Types, Reqs
  <2>4. writer' = {} \/ (writer' = writer /\ row' = row)
    BY <1>1, <1>2, <2>1 DEF KeyInv, Claims
  <2>5. ASSUME NEW s \in Requests
        PROVE  /\ req'[s].at \in {"idle", "loop"}
               /\ req'[s].at = "loop" => Ids \ req'[s].left \subseteq cancelled'
    <3>1. req[s].at \in {"idle", "loop"}
      BY <1>1 DEF KeyInv, Types, Claims, Reqs, Idle
    <3>2. CASE s = r
      BY <1>1, <2>1, <2>2, <3>2 DEF KeyInv, Types, Claims
    <3>3. CASE s # r
      BY <2>1, <3>1, <3>3 DEF KeyInv, Types, Claims
    <3> QED
      BY <3>2, <3>3
  <2>6. writer' # {} => ~Live'
    BY <2>4 DEF KeyInv, Claims, Live
  <2>7. Claims'
    BY <1>1, <2>4, <2>5, <2>6 DEF KeyInv, Claims
  <2>8. row'.st = "answered" => row' = row
    BY <1>2, <2>1
  <2>9. Together'
    BY <1>1, <2>1, <2>8 DEF KeyInv, Together, Live
  <2> QED
    BY <2>3, <2>7, <2>9 DEF KeyInv
<1> QED
  BY <1>3, <1>4

LEMMA BulkRecordKeeps ==
  ASSUME KeyInv, NEW r \in Requests, BulkRecord(r)
  PROVE  KeyInv'
<1> DEFINE c == Committed(r, req[r].body)
<1>1. /\ req[r].at = "loop" /\ endpoint = "bulk" /\ req[r].left = {}
      /\ Released(r) /\ UNCHANGED cancelled
      /\ row' = IF c.st = "none" THEN c ELSE [c EXCEPT !.st = "answered"]
  BY DEF BulkRecord, KeyInv, Claims, Released
<1>2. /\ c \in Rows
      /\ r \notin writer => c = row
      /\ r \in writer => c.st = "open"
  BY <1>1, CommittedType
<1>3. Ids \subseteq cancelled
  BY <1>1 DEF KeyInv, Claims
<1> HIDE DEF c
<1>4. row' \in Rows /\ row'.live = c.live /\ (row'.st = "none" <=> c.st = "none")
  BY <1>1, <1>2 DEF Rows, NoKey
<1>5. Types'
  BY <1>1, <1>4 DEF KeyInv, Types, Released, Reqs
<1>6. writer' # {} => r \notin writer
  BY <1>1 DEF KeyInv, Claims, Released
<1>7. writer' # {} => ~Live'
  BY <1>1, <1>2, <1>4, <1>6 DEF KeyInv, Claims, Live, Released
<1>8. ASSUME NEW s \in Requests
      PROVE  /\ req'[s].at \in {"idle", "loop"}
             /\ req'[s].at = "loop" =>
                  Ids \ req'[s].left \subseteq cancelled'
  BY <1>1 DEF KeyInv, Types, Claims, Reqs, Idle, Released
<1>9. Claims'
  BY <1>1, <1>7, <1>8 DEF KeyInv, Claims, Released
<1>10. Together'
  BY <1>1, <1>3 DEF KeyInv, Together, Released
<1> QED
  BY <1>5, <1>9, <1>10 DEF KeyInv

-----------------------------------------------------------------------------
LEMMA ExpireKeeps == KeyInv /\ Expire => KeyInv'
<1> SUFFICES ASSUME KeyInv, Expire PROVE KeyInv'
  OBVIOUS
<1>1. /\ Live /\ \A r \in Requests : req[r] = Idle
      /\ row' = [row EXCEPT !.live = FALSE] /\ effects' = 0
      /\ UNCHANGED <<endpoint, foreign, writer, req, cancelled>>
  BY DEF Expire
<1>2. row \in [st : {"open", "answered"}, body : Bodies, live : BOOLEAN]
  BY <1>1 DEF KeyInv, Types, Rows, NoKey, Live
<1>3. row' \in Rows /\ ~Live'
  BY <1>1, <1>2 DEF Rows, Live
<1> QED
  BY <1>1, <1>3 DEF KeyInv, Types, Claims, Together, Idle

LEMMA PruneKeeps == KeyInv /\ Prune => KeyInv'
<1> SUFFICES ASSUME KeyInv, Prune PROVE KeyInv'
  OBVIOUS
<1>1. ~Live /\ row' = NoKey /\ UNCHANGED <<endpoint, foreign, writer, req, effects, cancelled>>
  BY DEF Prune, Live
<1>2. ~Live' /\ NoKey \in Rows
  BY <1>1 DEF Live, NoKey, Rows
<1> QED
  BY <1>1, <1>2 DEF KeyInv, Types, Claims, Together

LEMMA KeyStep == KeyInv /\ [Next]_vars => KeyInv'
<1> SUFFICES ASSUME KeyInv, [Next]_vars PROVE KeyInv'
  OBVIOUS
<1>1. CASE Expire
  BY <1>1, ExpireKeeps
<1>2. CASE Prune
  BY <1>2, PruneKeeps
<1>3. ASSUME NEW r \in Requests, Serve(r) PROVE KeyInv'
  BY <1>3, InsertKeeps, GoOnKeeps, ViewCommitKeeps, ViewRefuseKeeps, RecordKeeps,
     BulkCancelKeeps, BulkRecordKeeps, BreakKeeps DEF Serve
<1>4. CASE UNCHANGED vars
  BY <1>4 DEF vars, KeyInv, Types, Claims, Together, Live
<1> QED
  BY <1>1, <1>2, <1>3, <1>4 DEF Next

(* The sets that the type of the keys is about: what is cancelled is among *)
(* the reservations named, and an effect is some request's.                *)
KeySets ==
  /\ foreign \subseteq Ids /\ cancelled \subseteq Ids
  /\ effects # 0 => Requests # {}

LEMMA LeastId ==
  ASSUME NEW S \in SUBSET Ids, S # {}
  PROVE  Min(S) \in S
<1>1. S \in SUBSET Nat
  BY Assumptions DEF IdempotencyAssumption
<1>2. PICK m \in S : \A k \in S : <<k, m>> \notin OpToRel(<, Nat)
  BY <1>1, NatLessThanWellFounded, WFMin, Zenon
<1>3. \A k \in S : m <= k
  <2>1. \A k \in S : ~(k < m)
    BY <1>1, <1>2 DEF OpToRel
  <2> QED
    BY <1>1, <2>1
<1> QED
  BY <1>3 DEF Min

LEMMA SetsInit == Init => KeySets
  BY DEF Init, KeySets

LEMMA SetsStep ==
  ASSUME KeyInv, KeySets, [Next]_vars
  PROVE  KeySets'
<1>1. ASSUME NEW r \in Requests, BulkCancel(r) PROVE KeySets'
  <2>1. /\ UNCHANGED <<foreign, effects>>
        /\ cancelled' = cancelled \/ cancelled' = cancelled \cup {Min(req[r].left)}
        /\ req[r].at = "loop" /\ req[r].left # {}
    BY <1>1 DEF BulkCancel
  <2>2. req[r].left \in SUBSET Ids
    BY <2>1 DEF KeyInv, Types, Reqs, Idle
  <2>3. Min(req[r].left) \in Ids
    BY <2>1, <2>2, LeastId
  <2> QED
    BY <2>1, <2>3 DEF KeySets
<1>2. ASSUME NEW r \in Requests, ViewCommit(r) PROVE KeySets'
  BY <1>2 DEF ViewCommit, KeySets
<1>3. ASSUME NEW r \in Requests,
             Insert(r) \/ GoOnWithOpenKey(r) \/ ViewRefuse(r) \/ Record(r)
               \/ BulkRecord(r) \/ Break(r)
      PROVE  KeySets'
  BY <1>3 DEF Insert, GoOnWithOpenKey, ViewRefuse, Record, BulkRecord, Break, KeySets
<1>4. CASE Expire \/ Prune \/ UNCHANGED vars
  BY <1>4 DEF Expire, Prune, vars, KeySets
<1> QED
  BY <1>1, <1>2, <1>3, <1>4 DEF Next, Serve

LEMMA KeysAreTyped ==
  ASSUME KeyInv, KeySets
  PROVE  IdempotencyTypeOK
<1>1. effects \in {0, 1} /\ (effects = 1 => Requests # {})
  BY DEF KeyInv, Types, Together, KeySets
<1>2. IsFiniteSet(Requests) /\ Cardinality(Requests) \in Nat
  BY Assumptions, FS_CardinalityType DEF IdempotencyAssumption
<1>3. Requests # {} => Cardinality(Requests) # 0
  BY <1>2, FS_EmptySet
<1>4. effects \in 0..Cardinality(Requests)
  BY <1>1, <1>2, <1>3
<1> QED
  BY <1>4 DEF IdempotencyTypeOK, KeyInv, Types, KeySets

(* While a key lives it stands for at most one checkout, and an answer     *)
(* that is replayed is true, for any number of requests that carry the     *)
(* key, overlap, fail or die (get_or_create, record_response).             *)
THEOREM OneEffectPerKey == Spec => []KeysAreSound
<1>1. KeyInv => KeysAreSound
  BY DEF KeyInv, Types, Together, KeysAreSound, OneCheckoutPerKey, ReplayedAnswerIsTrue
<1> QED
  BY InitInv, KeyStep, <1>1, PTL DEF Spec

-----------------------------------------------------------------------------
(* Incoming webhooks.  What a delivery or the job has read of the error of *)
(* the event is still there when it writes, or the handler has succeeded;  *)
(* the delivery that inserts the event is alone until it commits.          *)
InboxTypes ==
  /\ Inbox!InboundTypeOK
  /\ \A d \in Deliveries : dlv[d] # Inbox!Idle =>
       /\ dlv[d].new =>
            /\ event = Inbox!NoRow /\ ~dlv[d].error
            /\ \A e \in Deliveries \ {d} : dlv[e] = Inbox!Idle
       /\ ~dlv[d].new => event # Inbox!NoRow
  /\ scan # Inbox!NoRow => event # Inbox!NoRow /\ scan.tries < GiveUp
  /\ event # Inbox!NoRow => (event.tries = GiveUp => event.processed)

InboxInv ==
  /\ InboxTypes /\ Inbox!ProcessedWasHandled
  /\ ~handled =>
       /\ \A d \in Deliveries :
            dlv[d] # Inbox!Idle /\ ~dlv[d].new /\ dlv[d].error => event.error
       /\ scan # Inbox!NoRow /\ scan.error => event.error

LEMMA RowFields ==
  \A r \in Inbox!Event :
    /\ r # Inbox!NoRow /\ r.processed \in BOOLEAN /\ r.error \in BOOLEAN
    /\ r.tries \in 0..GiveUp
  BY DEF Inbox!Event, Inbox!NoRow

LEMMA DeliveryFields ==
  ASSUME InboxTypes, NEW d \in Deliveries, dlv[d] # Inbox!Idle
  PROVE  /\ dlv[d].new \in BOOLEAN /\ dlv[d].error \in BOOLEAN
         /\ dlv[d].content \in Contents
         /\ Inbox!Stored(d) \in Inbox!Event
         /\ dlv[d].new => Inbox!Stored(d).error = FALSE /\ Inbox!Stored(d).processed = FALSE
                          /\ Inbox!Stored(d).tries = 0
         /\ ~dlv[d].new => Inbox!Stored(d) = event
<1>1. dlv[d] \in [at : {"handler"}, new : BOOLEAN, content : Contents, error : BOOLEAN]
  BY DEF InboxTypes, Inbox!InboundTypeOK
<1>2. ~dlv[d].new => event \in Inbox!Event
  BY DEF InboxTypes, Inbox!InboundTypeOK
<1>3. dlv[d].new /\ GiveUp \in Nat => Inbox!Stored(d) \in Inbox!Event
  BY <1>1 DEF Inbox!Stored, Inbox!Event
<1>4. GiveUp \in Nat
  BY Assumptions DEF Inbox!InboundAssumption
<1> QED
  BY <1>1, <1>2, <1>3, <1>4 DEF Inbox!Stored

(* A delivery commits stored, whether it has inserted the event or not.       *)
LEMMA InboxCommit ==
  ASSUME InboxInv, NEW d \in Deliveries, dlv[d] # Inbox!Idle,
         NEW stored \in Inbox!Event, Inbox!Commit(d, stored), handled' \in BOOLEAN,
         handled => handled', stored.tries = Inbox!Stored(d).tries,
         stored.processed = Inbox!Stored(d).processed \/ stored.processed,
         ~handled' => /\ Inbox!Stored(d).error => stored.error
                      /\ stored.processed => stored.error
  PROVE  InboxInv'
<1>1. /\ key' = dlv[d].content /\ event' = stored /\ scan' = scan
      /\ dlv' = [dlv EXCEPT ![d] = Inbox!Idle]
  BY DEF Inbox!Commit
<1>2. /\ dlv \in [Deliveries -> {Inbox!Idle} \cup
             [at : {"handler"}, new : BOOLEAN, content : Contents, error : BOOLEAN]]
      /\ scan \in Inbox!Event \cup {Inbox!NoRow} /\ handled \in BOOLEAN
      /\ key' \in Contents
  BY <1>1, DeliveryFields DEF InboxInv, InboxTypes, Inbox!InboundTypeOK
<1>3. /\ stored # Inbox!NoRow /\ stored.processed \in BOOLEAN /\ stored.error \in BOOLEAN
      /\ stored.tries \in 0..GiveUp
  BY RowFields
<1>4. stored.tries = GiveUp => stored.processed
  BY <1>3, DeliveryFields, Assumptions DEF InboxInv, InboxTypes, Inbox!InboundAssumption
<1>5. \A e \in Deliveries : dlv'[e] # Inbox!Idle =>
        e # d /\ dlv'[e] = dlv[e] /\ dlv[e].new = FALSE /\ dlv[d].new = FALSE
  BY <1>1, <1>2 DEF InboxInv, InboxTypes
<1>6. scan # Inbox!NoRow => ~dlv[d].new
  BY DEF InboxInv, InboxTypes
<1>7. InboxTypes'
  <2>1. Inbox!InboundTypeOK'
    BY <1>1, <1>2 DEF Inbox!InboundTypeOK
  <2> QED
    BY <2>1, <1>1, <1>3, <1>4, <1>5 DEF InboxInv, InboxTypes
<1>8. Inbox!ProcessedWasHandled'
  BY <1>1, <1>3 DEF Inbox!ProcessedWasHandled, Inbox!Settled
<1>9. ~handled' /\ ~dlv[d].new => ~handled /\ (event.error => stored.error)
  BY DeliveryFields DEF InboxInv
<1> QED
  BY <1>1, <1>5, <1>6, <1>7, <1>8, <1>9 DEF InboxInv

LEMMA InboxStep ==
  ASSUME InboxInv, Inbox!Next \/ UNCHANGED inVars
  PROVE  InboxInv'
<1>0. /\ dlv \in [Deliveries -> {Inbox!Idle} \cup
             [at : {"handler"}, new : BOOLEAN, content : Contents, error : BOOLEAN]]
      /\ scan \in Inbox!Event \cup {Inbox!NoRow} /\ handled \in BOOLEAN
      /\ event \in Inbox!Event \cup {Inbox!NoRow} /\ key \in Contents \cup {Inbox!None}
  BY DEF InboxInv, InboxTypes, Inbox!InboundTypeOK
<1>1. ASSUME NEW d \in Deliveries, Inbox!Receive(d) PROVE InboxInv'
  <2>1. PICK c \in Contents :
          dlv' = [dlv EXCEPT ![d] = [at |-> "handler", content |-> c,
                    new |-> event = Inbox!NoRow,
                    error |-> event # Inbox!NoRow /\ event.error]]
    BY <1>1 DEF Inbox!Receive
  <2> DEFINE q == [at |-> "handler", content |-> c, new |-> event = Inbox!NoRow,
                   error |-> event # Inbox!NoRow /\ event.error]
  <2>2. /\ UNCHANGED <<key, event, scan, handled>> /\ ~Inbox!Settled
        /\ \A e \in Deliveries : dlv[e] # Inbox!Idle => ~dlv[e].new
    BY <1>1 DEF Inbox!Receive, Inbox!Reserving
  <2>3. event = Inbox!NoRow => \A e \in Deliveries : dlv[e] = Inbox!Idle
    BY <2>2 DEF InboxInv, InboxTypes
  <2>4. /\ q \in [at : {"handler"}, new : BOOLEAN, content : Contents, error : BOOLEAN]
        /\ q # Inbox!Idle /\ (q.new <=> event = Inbox!NoRow) /\ (q.new => ~q.error)
        /\ q.error => event.error
    BY <1>0, RowFields DEF Inbox!Idle
  <2> HIDE DEF q
  <2>5. dlv' = [dlv EXCEPT ![d] = q]
    BY <2>1 DEF q
  <2>6. Inbox!InboundTypeOK'
    BY <1>0, <2>2, <2>4, <2>5 DEF Inbox!InboundTypeOK
  <2>7. InboxTypes'
    BY <1>0, <2>2, <2>3, <2>4, <2>5, <2>6 DEF InboxInv, InboxTypes
  <2>8. Inbox!ProcessedWasHandled'
    BY <2>2 DEF InboxInv, Inbox!ProcessedWasHandled, Inbox!Settled
  <2> QED
    BY <1>0, <2>2, <2>4, <2>5, <2>7, <2>8 DEF InboxInv
<1>2. ASSUME NEW d \in Deliveries, Inbox!HandledInTime(d) PROVE InboxInv'
  <2>1. PICK ok \in BOOLEAN :
          /\ Inbox!Commit(d, [Inbox!Stored(d) EXCEPT !.processed = TRUE,
                                !.error = Inbox!Column(dlv[d].error, ~ok, @)])
          /\ handled' = (handled \/ ok)
    BY <1>2 DEF Inbox!HandledInTime
  <2> DEFINE s == Inbox!Stored(d)
             stored == [s EXCEPT !.processed = TRUE,
                              !.error = Inbox!Column(dlv[d].error, ~ok, @)]
  <2>2. /\ s \in Inbox!Event /\ dlv[d].error \in BOOLEAN /\ dlv[d] # Inbox!Idle
        /\ dlv[d].new => ~s.error /\ ~dlv[d].error
        /\ dlv[d].new \in BOOLEAN
        /\ ~dlv[d].new => s = event
    BY <1>2, DeliveryFields DEF Inbox!HandledInTime, InboxInv, InboxTypes
  <2>3. ~handled /\ ~dlv[d].new /\ dlv[d].error => s.error
    BY <2>2 DEF InboxInv
  <2> HIDE DEF s
  <2>4. /\ stored \in Inbox!Event /\ stored.tries = s.tries /\ stored.processed = TRUE
        /\ stored.error = Inbox!Column(dlv[d].error, ~ok, s.error)
    BY <2>2 DEF Inbox!Event, Inbox!Column
  <2>5. ~handled /\ ~ok => stored.error
    BY <2>2, <2>3, <2>4, RowFields DEF Inbox!Column
  <2>6. Inbox!Commit(d, stored)
    BY <2>1 DEF s
  <2> HIDE DEF stored
  <2> QED
    BY <1>0, <2>1, <2>2, <2>4, <2>5, <2>6, InboxCommit DEF s
<1>3. ASSUME NEW d \in Deliveries, Inbox!HandledLate(d) PROVE InboxInv'
  <2>1. dlv[d] # Inbox!Idle /\ Inbox!Commit(d, Inbox!Stored(d)) /\ handled' = TRUE
    BY <1>3 DEF Inbox!HandledLate
  <2>2. Inbox!Stored(d) \in Inbox!Event
    BY <2>1, DeliveryFields DEF InboxInv
  <2> QED
    BY <2>1, <2>2, InboxCommit
<1>4. ASSUME NEW d \in Deliveries, Inbox!Crash(d) PROVE InboxInv'
  <2>1. dlv' = [dlv EXCEPT ![d] = Inbox!Idle] /\ UNCHANGED <<key, event, scan, handled>>
    BY <1>4 DEF Inbox!Crash
  <2>2. Inbox!InboundTypeOK'
    BY <1>0, <2>1 DEF Inbox!InboundTypeOK
  <2>3. \A e \in Deliveries : dlv'[e] = IF e = d THEN Inbox!Idle ELSE dlv[e]
    BY <1>0, <2>1
  <2>4. InboxTypes'
    BY <2>1, <2>2, <2>3 DEF InboxInv, InboxTypes
  <2> QED
    BY <2>1, <2>3, <2>4 DEF InboxInv, Inbox!ProcessedWasHandled, Inbox!Settled
<1>5. CASE Inbox!Age
  <2>1. /\ event \in Inbox!Event /\ event' = [event EXCEPT !.old = TRUE]
        /\ UNCHANGED <<key, dlv, scan, handled>>
    BY <1>0, <1>5 DEF Inbox!Age
  <2>5. /\ event' \in Inbox!Event /\ event'.error = event.error
        /\ event'.processed = event.processed /\ event'.tries = event.tries
    BY <2>1 DEF Inbox!Event
  <2>2. event' # Inbox!NoRow /\ event # Inbox!NoRow
    BY <2>1, <2>5, RowFields
  <2>3. Inbox!InboundTypeOK'
    BY <1>0, <2>1, <2>5 DEF Inbox!InboundTypeOK
  <2>4. InboxTypes'
    BY <2>1, <2>2, <2>3, <2>5 DEF InboxInv, InboxTypes
  <2> QED
    BY <2>1, <2>2, <2>4, <2>5 DEF InboxInv, Inbox!ProcessedWasHandled, Inbox!Settled
<1>6. CASE Inbox!Scan
  <2>1. /\ event \in Inbox!Event /\ ~event.processed /\ scan' = event
        /\ UNCHANGED <<key, event, dlv, handled>> /\ event # Inbox!NoRow
    BY <1>0, <1>6 DEF Inbox!Scan, Inbox!Settled
  <2>2. event.tries < GiveUp
    BY <2>1, RowFields, Assumptions DEF InboxInv, InboxTypes, Inbox!InboundAssumption
  <2>3. InboxTypes'
    BY <1>0, <2>1, <2>2 DEF InboxInv, InboxTypes, Inbox!InboundTypeOK
  <2> QED
    BY <2>1, <2>3 DEF InboxInv, Inbox!ProcessedWasHandled, Inbox!Settled
<1>7. CASE Inbox!JobSucceeds
  <2>1. /\ event \in Inbox!Event /\ scan \in Inbox!Event
        /\ event' = [event EXCEPT !.processed = TRUE,
                       !.error = Inbox!Column(scan.error, FALSE, @)]
        /\ handled' = TRUE /\ scan' = Inbox!NoRow /\ UNCHANGED <<key, dlv>>
    BY <1>0, <1>7 DEF Inbox!JobSucceeds, InboxInv, InboxTypes
  <2>5. event' \in Inbox!Event /\ event'.processed = TRUE /\ event'.tries = event.tries
    <3>1. Inbox!Column(scan.error, FALSE, event.error) \in BOOLEAN
      BY <2>1 DEF Inbox!Event, Inbox!Column
    <3> QED
      BY <2>1, <3>1 DEF Inbox!Event
  <2>2. event' # Inbox!NoRow /\ event # Inbox!NoRow
    BY <2>1, <2>5, RowFields
  <2>3. Inbox!InboundTypeOK'
    BY <1>0, <2>1, <2>5 DEF Inbox!InboundTypeOK
  <2>4. InboxTypes'
    BY <2>1, <2>2, <2>3, <2>5 DEF InboxInv, InboxTypes
  <2> QED
    BY <2>1, <2>4 DEF InboxInv, Inbox!ProcessedWasHandled
<1>8. CASE Inbox!JobFails
  <2>1. /\ event \in Inbox!Event /\ scan \in Inbox!Event /\ scan.tries < GiveUp
        /\ event' = [event EXCEPT !.tries = scan.tries + 1,
                       !.error = Inbox!Column(scan.error, TRUE, @),
                       !.processed = @ \/ scan.tries + 1 >= GiveUp]
        /\ scan' = Inbox!NoRow /\ UNCHANGED <<key, dlv, handled>>
        /\ scan # Inbox!NoRow
    BY <1>0, <1>8 DEF Inbox!JobFails, InboxInv, InboxTypes
  <2>2. scan.tries \in Nat /\ GiveUp \in Nat /\ scan.tries + 1 \in 0..GiveUp
        /\ scan.error \in BOOLEAN
    BY <2>1, RowFields, Assumptions DEF Inbox!InboundAssumption
  <2>3. /\ event' \in Inbox!Event /\ event'.tries = scan.tries + 1
        /\ event'.error = Inbox!Column(scan.error, TRUE, event.error)
        /\ scan.tries + 1 >= GiveUp => event'.processed = TRUE
    <3>1. Inbox!Column(scan.error, TRUE, event.error) \in BOOLEAN
      BY <2>1 DEF Inbox!Event, Inbox!Column
    <3>2. (event.processed \/ scan.tries + 1 >= GiveUp) \in BOOLEAN
      BY <2>1, <2>2 DEF Inbox!Event
    <3> QED
      BY <2>1, <2>2, <3>1 DEF Inbox!Event
  <2>4. event' # Inbox!NoRow /\ event # Inbox!NoRow /\ event.error \in BOOLEAN
    BY <2>1, <2>3, RowFields
  <2>5. Inbox!InboundTypeOK'
    BY <1>0, <2>1, <2>3 DEF Inbox!InboundTypeOK
  <2>8. event'.tries = GiveUp => event'.processed
    <3>1. scan.tries + 1 = GiveUp => scan.tries + 1 >= GiveUp
      BY <2>2
    <3> QED
      BY <2>3, <3>1
  <2>7. InboxTypes'
    BY <2>1, <2>4, <2>5, <2>8 DEF InboxInv, InboxTypes
  <2>6. ~handled => event'.error
    BY <2>1, <2>2, <2>3, <2>4 DEF InboxInv, Inbox!Column
  <2> QED
    BY <2>1, <2>7, <2>6 DEF InboxInv, Inbox!ProcessedWasHandled
<1>9. CASE Inbox!JobCrash \/ Inbox!KeyExpires
  BY <1>0, <1>9 DEF Inbox!JobCrash, Inbox!KeyExpires, InboxInv, InboxTypes,
     Inbox!InboundTypeOK, Inbox!ProcessedWasHandled, Inbox!Settled
<1>10. CASE UNCHANGED inVars
  BY <1>10 DEF inVars, InboxInv, InboxTypes,
     Inbox!InboundTypeOK, Inbox!ProcessedWasHandled, Inbox!Settled
<1> QED
  BY <1>1, <1>2, <1>3, <1>4, <1>5, <1>6, <1>7, <1>8, <1>9, <1>10
     DEF Inbox!Next, Inbox!Serve, Inbox!Handle

LEMMA InboxInit == Inbox!Init => InboxInv
  BY DEF Inbox!Init, InboxInv, InboxTypes, Inbox!InboundTypeOK,
     Inbox!ProcessedWasHandled, Inbox!Settled

-----------------------------------------------------------------------------
(* Logins.  What is on record is counted as a set of attempts, so that one *)
(* more attempt is one more element and time only takes elements away.     *)
Counts == [Lock!Ages -> 0..MaxRecords]

LEMMA AttemptsFinite ==
  ASSUME NEW f \in Counts
  PROVE  IsFiniteSet(Lock!Attempts(f)) /\ Lock!Total(f) \in Nat
         /\ Lock!Total(f) = Cardinality(Lock!Attempts(f))
<1>1. Window \in Nat \ {0} /\ MaxRecords \in Nat
  BY Assumptions DEF Lock!LockoutAssumption
<1>2. IsFiniteSet(Lock!Ages) /\ IsFiniteSet(1..MaxRecords)
  BY <1>1, FS_Interval DEF Lock!Ages
<1>3. IsFiniteSet(Lock!Ages \X (1..MaxRecords))
  BY <1>2, FS_Product
<1>4. Lock!Attempts(f) \subseteq Lock!Ages \X (1..MaxRecords)
  BY DEF Lock!Attempts
<1>5. IsFiniteSet(Lock!Attempts(f))
  BY <1>3, <1>4, FS_Subset
<1> QED
  BY <1>5, FS_CardinalityType, SameCount DEF Lock!Total

LEMMA MoreAttempts ==
  ASSUME NEW f \in Counts, NEW g \in Counts, \A a \in Lock!Ages : f[a] <= g[a]
  PROVE  Lock!Total(f) <= Lock!Total(g)
<1>1. \A a \in Lock!Ages : f[a] \in Int /\ g[a] \in Int
  BY Assumptions DEF Lock!LockoutAssumption, Counts
<1>2. Lock!Attempts(f) \subseteq Lock!Attempts(g)
  BY <1>1 DEF Lock!Attempts
<1> QED
  BY <1>2, AttemptsFinite, FS_Subset

LEMMA NoAttempts ==
  /\ [a \in Lock!Ages |-> 0] \in Counts
  /\ Lock!Total([a \in Lock!Ages |-> 0]) = 0
<1>1. MaxRecords \in Nat
  BY Assumptions DEF Lock!LockoutAssumption
<1>2. [a \in Lock!Ages |-> 0] \in Counts
  BY <1>1 DEF Counts
<1>3. Lock!Attempts([a \in Lock!Ages |-> 0]) = {}
  BY <1>1 DEF Lock!Attempts
<1> QED
  BY <1>2, <1>3, AttemptsFinite, FS_EmptySet

LEMMA OneMoreAttempt ==
  ASSUME NEW f \in Counts, f[0] < MaxRecords
  PROVE  /\ [f EXCEPT ![0] = @ + 1] \in Counts
         /\ Lock!Total([f EXCEPT ![0] = @ + 1]) = Lock!Total(f) + 1
<1> DEFINE g == [f EXCEPT ![0] = @ + 1]
           x == <<0, f[0] + 1>>
<1>1. Window \in Nat \ {0} /\ MaxRecords \in Nat /\ 0 \in Lock!Ages
  BY Assumptions DEF Lock!LockoutAssumption, Lock!Ages
<1>2. f[0] \in 0..MaxRecords /\ \A a \in Lock!Ages : f[a] \in 0..MaxRecords
  BY <1>1 DEF Counts
<1>3. f[0] + 1 \in 1..MaxRecords
  BY <1>1, <1>2
<1>4. g \in Counts /\ g[0] = f[0] + 1 /\ \A a \in Lock!Ages : a # 0 => g[a] = f[a]
  BY <1>1, <1>3 DEF Counts
<1> HIDE DEF g
<1>5. x \in Lock!Attempts(g) /\ x \notin Lock!Attempts(f)
  BY <1>1, <1>2, <1>3, <1>4 DEF Lock!Attempts
<1>6. Lock!Attempts(g) \subseteq Lock!Attempts(f) \cup {x}
  <2> SUFFICES ASSUME NEW r \in Lock!Attempts(g), r \notin Lock!Attempts(f) PROVE r = x
    OBVIOUS
  <2>1. /\ r \in Lock!Ages \X (1..MaxRecords) /\ r[1] \in Lock!Ages /\ r[2] \in 1..MaxRecords
        /\ r[2] <= g[r[1]] /\ ~(r[2] <= f[r[1]]) /\ r = <<r[1], r[2]>>
    BY DEF Lock!Attempts
  <2>2. r[1] = 0
    BY <2>1, <1>4
  <2>3. r[2] = f[0] + 1
    BY <2>1, <2>2, <1>1, <1>2, <1>4
  <2> QED
    BY <2>1, <2>2, <2>3
<1>7. Lock!Attempts(f) \subseteq Lock!Attempts(g)
  <2>1. \A a \in Lock!Ages : f[a] <= g[a] /\ f[a] \in Int /\ g[a] \in Int
    BY <1>2, <1>4, <1>1
  <2> QED
    BY <2>1 DEF Lock!Attempts
<1>8. Lock!Attempts(g) = Lock!Attempts(f) \cup {x}
  BY <1>5, <1>6, <1>7
<1>9. Cardinality(Lock!Attempts(g)) = Cardinality(Lock!Attempts(f)) + 1
  BY <1>5, <1>8, AttemptsFinite, FS_AddElement
<1> QED
  BY <1>4, <1>9, AttemptsFinite DEF g

(* Each attempt that is left was an attempt of the tick before.            *)
LEMMA TimeTakesAway ==
  ASSUME NEW f \in Counts
  PROVE  Lock!Older(f) \in Counts /\ Lock!Total(Lock!Older(f)) <= Lock!Total(f)
<1> DEFINE g == Lock!Older(f)
           S == Lock!Attempts(g)
           T == Lock!Attempts(f)
           h == [r \in S |-> <<r[1] - 1, r[2]>>]
<1>1. Window \in Nat \ {0} /\ MaxRecords \in Nat /\ Lock!Ages = 0..(Window - 1)
  BY Assumptions DEF Lock!LockoutAssumption, Lock!Ages
<1>2. g \in Counts /\ g[0] = 0 /\ \A a \in Lock!Ages : a # 0 => a - 1 \in Lock!Ages /\ g[a] = f[a - 1]
  BY <1>1 DEF Counts, Lock!Older
<1> HIDE DEF g
<1>3. \A r \in S : /\ r = <<r[1], r[2]>> /\ r[1] \in Lock!Ages /\ r[1] # 0
                   /\ r[2] \in 1..MaxRecords /\ r[2] <= g[r[1]]
  BY <1>1, <1>2 DEF Lock!Attempts
<1>4. \A r \in S : <<r[1] - 1, r[2]>> \in T
  BY <1>1, <1>2, <1>3 DEF Lock!Attempts
<1>5. h \in Injection(S, T)
  <2>1. h \in [S -> T]
    BY <1>4
  <2>2. ASSUME NEW r \in S, NEW s \in S, h[r] = h[s] PROVE r = s
    <3>1. r[1] - 1 = s[1] - 1 /\ r[2] = s[2]
      BY <2>2
    <3>2. r[1] \in Int /\ s[1] \in Int
      BY <1>1, <1>3
    <3>3. r[1] = s[1]
      BY <3>1, <3>2
    <3> QED
      BY <1>3, <3>1, <3>3
  <2> QED
    BY <2>1, <2>2 DEF Injection, IsInjective
<1>6. IsFiniteSet(S) /\ IsFiniteSet(T)
  BY <1>2, AttemptsFinite
<1>7. Cardinality(S) <= Cardinality(T)
  BY <1>5, <1>6, FS_Injection
<1> QED
  BY <1>2, <1>7, AttemptsFinite DEF g

(* Whoever looks at a password counts already: it is on record or lost.    *)
Guessing == {w \in Workers : login[w] \in {"open", "wrong"}}

LockInv ==
  /\ Lock!LockoutTypeOK
  /\ \A a \in Lock!Ages : guessed[a] <= failed[a]
  /\ Lock!Total(guessed) + Cardinality(Guessing) <= MaxAttempts + Cardinality(Workers)

LEMMA GuessersFinite ==
  ASSUME NEW S, S \subseteq Workers
  PROVE  /\ IsFiniteSet(S) /\ Cardinality(S) \in Nat
         /\ Cardinality(S) <= Cardinality(Workers) /\ Cardinality(Workers) \in Nat
<1>1. IsFiniteSet(Workers)
  BY Assumptions, SameCount DEF Lock!LockoutAssumption
<1> QED
  BY <1>1, FS_Subset, FS_CardinalityType

(* A worker moves on, and nothing is put on record.                        *)
LEMMA GotoKeeps ==
  ASSUME LockInv, NEW w \in Workers,
         NEW at \in {"idle", "refused", "open", "wrong", "right", "reset"},
         login' = [login EXCEPT ![w] = at], UNCHANGED <<failed, guessed>>,
         at \in {"open", "wrong"} => w \in Guessing \/ Lock!Total(failed) <= MaxAttempts
  PROVE  LockInv'
<1>1. /\ login \in [Workers -> {"idle", "refused", "open", "wrong", "right", "reset"}]
      /\ failed \in Counts /\ guessed \in Counts
      /\ MaxAttempts \in Nat
  BY Assumptions DEF LockInv, Lock!LockoutTypeOK, Counts, Lock!LockoutAssumption
<1>2. Lock!LockoutTypeOK'
  BY <1>1 DEF LockInv, Lock!LockoutTypeOK
<1>3. Guessing \subseteq Workers /\ Guessing' \subseteq Workers
  BY DEF Guessing
<1>4. /\ Cardinality(Guessing) \in Nat /\ Cardinality(Guessing') \in Nat
      /\ Cardinality(Guessing') <= Cardinality(Workers)
      /\ Cardinality(Workers) \in Nat /\ IsFiniteSet(Guessing)
  BY <1>3, GuessersFinite
<1>5. Lock!Total(guessed) \in Nat /\ Lock!Total(failed) \in Nat
  BY <1>1, AttemptsFinite
<1>6. Lock!Total(guessed)' = Lock!Total(guessed)
  BY DEF Lock!Total, Lock!Attempts
<1>7. Lock!Total(guessed) + Cardinality(Guessing') <= MaxAttempts + Cardinality(Workers)
  <2>1. CASE at \notin {"open", "wrong"} \/ w \in Guessing
    <3>1. Guessing' \subseteq Guessing
      BY <1>1, <2>1 DEF Guessing
    <3>2. Cardinality(Guessing') <= Cardinality(Guessing)
      BY <1>4, <3>1, FS_Subset
    <3> QED
      BY <1>1, <1>4, <1>5, <3>2 DEF LockInv
  <2>2. CASE Lock!Total(failed) <= MaxAttempts
    <3>1. Lock!Total(guessed) <= Lock!Total(failed)
      BY <1>1, MoreAttempts DEF LockInv
    <3> QED
      BY <1>1, <1>4, <1>5, <2>2, <3>1
  <2> QED
    BY <2>1, <2>2
<1>8. (\A a \in Lock!Ages : guessed[a] <= failed[a])'
  BY DEF LockInv
<1> QED
  BY <1>2, <1>6, <1>7, <1>8 DEF LockInv

(* A failure is put on record; it was a guess if the password was looked at.*)
LEMMA FailureKeeps ==
  ASSUME LockInv, NEW w \in Workers, Lock!RecordFailure(w)
  PROVE  LockInv'
<1>1. /\ login \in [Workers -> {"idle", "refused", "open", "wrong", "right", "reset"}]
      /\ failed \in Counts /\ guessed \in Counts
      /\ MaxAttempts \in Nat /\ MaxRecords \in Nat /\ 0 \in Lock!Ages
  BY Assumptions DEF LockInv, Lock!LockoutTypeOK, Counts, Lock!LockoutAssumption, Lock!Ages
<1>2. /\ failed' = [failed EXCEPT ![0] = @ + 1] /\ login' = [login EXCEPT ![w] = "idle"]
      /\ guessed' = IF login[w] = "wrong" THEN [guessed EXCEPT ![0] = @ + 1] ELSE guessed
      /\ Lock!Total(failed) < MaxRecords
  BY DEF Lock!RecordFailure, Lock!Goto
<1>3. failed[0] \in 0..MaxRecords /\ guessed[0] \in 0..MaxRecords /\ guessed[0] <= failed[0]
  BY <1>1 DEF Counts, LockInv
<1>15. failed[0] \in Nat /\ guessed[0] \in Nat
  BY <1>1, <1>3
<1>4. failed[0] < MaxRecords
  <2>1. \A n \in 1..failed[0] : <<0, n>> \in Lock!Attempts(failed)
    BY <1>1, <1>3 DEF Lock!Attempts
  <2>2. {0} \X (1..failed[0]) \subseteq Lock!Attempts(failed)
    BY <2>1
  <2>3. IsFiniteSet(1..failed[0]) /\ Cardinality(1..failed[0]) = failed[0]
    BY <1>15, FirstNumbers
  <2>4. Cardinality({0} \X (1..failed[0])) = failed[0]
    <3>1. Cardinality({0} \X (1..failed[0])) = Cardinality({0}) * Cardinality(1..failed[0])
      BY <2>3, FS_Product, FS_Singleton
    <3>2. Cardinality({0}) = 1
      BY FS_Singleton
    <3>3. 1 * failed[0] = failed[0]
      BY <1>15
    <3> QED
      BY <2>3, <3>1, <3>2, <3>3
  <2>5. Cardinality({0} \X (1..failed[0])) <= Cardinality(Lock!Attempts(failed))
    BY <1>1, <2>2, AttemptsFinite, FS_Subset
  <2> QED
    BY <1>1, <1>2, <1>3, <2>4, <2>5, AttemptsFinite
<1>5. guessed[0] < MaxRecords
  BY <1>1, <1>3, <1>4, <1>15
<1>6. /\ failed' \in Counts /\ guessed' \in Counts
      /\ Lock!Total(guessed') = Lock!Total(guessed) + (IF login[w] = "wrong" THEN 1 ELSE 0)
  <2>1. failed' \in Counts
    BY <1>1, <1>2, <1>4, OneMoreAttempt
  <2>2. CASE login[w] = "wrong"
    BY <1>1, <1>2, <1>5, <2>1, <2>2, OneMoreAttempt
  <2>3. CASE login[w] # "wrong"
    BY <1>1, <1>2, <2>1, <2>3, AttemptsFinite
  <2> QED
    BY <2>2, <2>3
<1>7. Lock!LockoutTypeOK'
  BY <1>1, <1>2, <1>6 DEF Lock!LockoutTypeOK, Counts
<1>8. ASSUME NEW a \in Lock!Ages PROVE guessed'[a] <= failed'[a]
  <2>1. failed[a] \in Int /\ guessed[a] \in Int /\ guessed[a] <= failed[a]
    BY <1>1 DEF Counts, LockInv
  <2>2. failed'[a] = (IF a = 0 THEN failed[a] + 1 ELSE failed[a])
    BY <1>1, <1>2 DEF Counts
  <2>3. guessed'[a] = guessed[a] \/ (a = 0 /\ guessed'[a] = guessed[a] + 1)
    BY <1>1, <1>2 DEF Counts
  <2> QED
    BY <2>1, <2>2, <2>3
<1>9. Guessing' = Guessing \ {w} /\ Guessing \subseteq Workers
  BY <1>1, <1>2 DEF Guessing
<1>10. /\ Cardinality(Guessing) \in Nat /\ Cardinality(Workers) \in Nat
       /\ Cardinality(Guessing') = IF w \in Guessing THEN Cardinality(Guessing) - 1
                                   ELSE Cardinality(Guessing)
  BY <1>9, GuessersFinite, FS_RemoveElement
<1>11. login[w] = "wrong" => w \in Guessing
  BY DEF Guessing
<1>12. Lock!Total(guessed) \in Nat
  BY <1>1, AttemptsFinite
<1>13. Lock!Total(guessed') + Cardinality(Guessing') <= MaxAttempts + Cardinality(Workers)
  BY <1>1, <1>6, <1>10, <1>11, <1>12 DEF LockInv
<1>14. Lock!Total(guessed)' = Lock!Total(guessed')
  BY DEF Lock!Total, Lock!Attempts
<1> QED
  BY <1>7, <1>8, <1>13, <1>14 DEF LockInv

LEMMA LockStep ==
  ASSUME LockInv, Lock!Next \/ UNCHANGED lockVars
  PROVE  LockInv'
<1>1. /\ login \in [Workers -> {"idle", "refused", "open", "wrong", "right", "reset"}]
      /\ failed \in Counts /\ guessed \in Counts /\ MaxAttempts \in Nat
      /\ Lock!Total(guessed) \in Nat /\ Lock!Total(failed) \in Nat
      /\ Guessing \subseteq Workers
  BY Assumptions, AttemptsFinite
     DEF LockInv, Lock!LockoutTypeOK, Counts, Lock!LockoutAssumption, Guessing
<1>2. Cardinality(Guessing) \in Nat /\ Cardinality(Workers) \in Nat
      /\ Cardinality(Guessing) <= Cardinality(Workers)
  BY <1>1, GuessersFinite
<1>3. ASSUME NEW w \in Workers, Lock!Begin(w) PROVE LockInv'
  <2>1. CASE Lock!LockedOut
    BY <1>3, <2>1, GotoKeeps DEF Lock!Begin, Lock!Goto
  <2>2. CASE ~Lock!LockedOut
    <3>1. Lock!Total(failed) <= MaxAttempts
      BY <1>1, <2>2 DEF Lock!LockedOut
    <3> QED
      BY <1>3, <2>2, <3>1, GotoKeeps DEF Lock!Begin, Lock!Goto
  <2> QED
    BY <2>1, <2>2
<1>4. ASSUME NEW w \in Workers, Lock!CheckPassword(w) PROVE LockInv'
  <2>1. w \in Guessing /\ UNCHANGED <<failed, guessed>>
    BY <1>4 DEF Lock!CheckPassword, Guessing
  <2>2. login' = [login EXCEPT ![w] = "wrong"] \/ login' = [login EXCEPT ![w] = "right"]
    BY <1>4 DEF Lock!CheckPassword, Lock!Goto
  <2> QED
    BY <2>1, <2>2, GotoKeeps
<1>5. ASSUME NEW w \in Workers, Lock!RecordSuccess(w) \/ Lock!Fail(w) PROVE LockInv'
  BY <1>5, GotoKeeps DEF Lock!RecordSuccess, Lock!Fail, Lock!Goto
<1>6. ASSUME NEW w \in Workers, Lock!Reset(w) PROVE LockInv'
  <2>1. /\ login' = [login EXCEPT ![w] = "idle"]
        /\ failed' = [a \in Lock!Ages |-> 0] /\ guessed' = [a \in Lock!Ages |-> 0]
    BY <1>6 DEF Lock!Reset, Lock!Goto
  <2>2. Lock!Total(guessed') = 0 /\ guessed' \in Counts /\ failed' \in Counts
    BY <2>1, NoAttempts
  <2>3. Lock!LockoutTypeOK'
    BY <1>1, <2>1, <2>2 DEF Lock!LockoutTypeOK, Counts
  <2>4. Guessing' \subseteq Workers
    BY DEF Guessing
  <2>5. Cardinality(Guessing') \in Nat /\ Cardinality(Guessing') <= Cardinality(Workers)
    BY <2>4, GuessersFinite
  <2>6. Lock!Total(guessed') + Cardinality(Guessing') <= MaxAttempts + Cardinality(Workers)
    BY <1>1, <1>2, <2>2, <2>5
  <2>7. Lock!Total(guessed)' = Lock!Total(guessed')
    BY DEF Lock!Total, Lock!Attempts
  <2>8. \A a \in Lock!Ages : guessed'[a] <= failed'[a]
    BY <2>1
  <2> QED
    BY <2>3, <2>6, <2>7, <2>8 DEF LockInv
<1>7. CASE Lock!Tick
  <2>1. failed' = Lock!Older(failed) /\ guessed' = Lock!Older(guessed) /\ login' = login
    BY <1>7 DEF Lock!Tick
  <2>2. /\ failed' \in Counts /\ guessed' \in Counts
        /\ Lock!Total(guessed') <= Lock!Total(guessed)
    BY <1>1, <2>1, TimeTakesAway
  <2>3. Lock!LockoutTypeOK'
    BY <1>1, <2>1, <2>2 DEF Lock!LockoutTypeOK, Counts
  <2>4. ASSUME NEW a \in Lock!Ages PROVE guessed'[a] <= failed'[a]
    <3>1. a # 0 => a - 1 \in Lock!Ages
      BY Assumptions DEF Lock!Ages, Lock!LockoutAssumption
    <3>2. CASE a = 0
      BY <2>1, <3>2 DEF Lock!Older
    <3>3. CASE a # 0
      <4>1. guessed'[a] = guessed[a - 1] /\ failed'[a] = failed[a - 1]
        BY <2>1, <3>3 DEF Lock!Older
      <4> QED
        BY <3>1, <3>3, <4>1 DEF LockInv
    <3> QED
      BY <3>2, <3>3
  <2>5. Guessing' = Guessing
    BY <2>1 DEF Guessing
  <2>6. Lock!Total(guessed)' = Lock!Total(guessed')
    BY DEF Lock!Total, Lock!Attempts
  <2>7. Lock!Total(guessed') \in Nat
    BY <2>2, AttemptsFinite
  <2>8. Lock!Total(guessed') + Cardinality(Guessing') <= MaxAttempts + Cardinality(Workers)
    BY <1>1, <1>2, <2>2, <2>5, <2>7 DEF LockInv
  <2> QED
    BY <2>3, <2>4, <2>6, <2>8 DEF LockInv
<1>8. CASE UNCHANGED lockVars
  BY <1>8 DEF lockVars, LockInv, Lock!LockoutTypeOK, Guessing, Lock!Total, Lock!Attempts
<1> QED
  BY <1>3, <1>4, <1>5, <1>6, <1>7, <1>8, FailureKeeps DEF Lock!Next, Lock!Serve

LEMMA LockInit == Lock!Init => LockInv
<1> SUFFICES ASSUME Lock!Init PROVE LockInv
  OBVIOUS
<1>1. guessed \in Counts /\ failed \in Counts /\ Lock!Total(guessed) = 0
  BY NoAttempts DEF Lock!Init
<1>2. Guessing \subseteq Workers
  BY DEF Guessing
<1>3. /\ Cardinality(Guessing) \in Nat /\ Cardinality(Guessing) <= Cardinality(Workers)
      /\ Cardinality(Workers) \in Nat /\ MaxAttempts \in Nat
  BY <1>2, GuessersFinite, Assumptions DEF Lock!LockoutAssumption
<1>4. Lock!LockoutTypeOK
  BY <1>1 DEF Lock!Init, Lock!LockoutTypeOK, Counts
<1> QED
  BY <1>1, <1>3, <1>4 DEF LockInv, Lock!Init

LEMMA LockSound == LockInv => Lock!GuessesAreLimited
<1> SUFFICES ASSUME LockInv PROVE Lock!GuessesAreLimited
  OBVIOUS
<1>1. guessed \in Counts /\ Guessing \subseteq Workers /\ MaxAttempts \in Nat
  BY Assumptions DEF LockInv, Lock!LockoutTypeOK, Counts, Guessing, Lock!LockoutAssumption
<1>2. Lock!Total(guessed) \in Nat /\ Cardinality(Guessing) \in Nat
      /\ Cardinality(Workers) \in Nat
  BY <1>1, AttemptsFinite, GuessersFinite
<1> QED
  BY <1>1, <1>2, SameCount DEF LockInv, Lock!GuessesAreLimited

-----------------------------------------------------------------------------
(* Tokens that let one in.  What a token was used for, its row and the set *)
(* of codes that replaced it are bound to each other; a worker that has    *)
(* found a token knows what the row still says (SignInv).  Codes come in   *)
(* whole sets.                                                             *)
Backups == {t \in Sign!Made : token[t].kind = "backup"}
Links == {t \in Sign!Made : token[t].kind # "backup"}

TokenTypes ==
  /\ token \in Seq(Sign!Token)
  /\ \A t \in Sign!Made : token[t].age <= Sign!Late(token[t].kind)
  /\ Cardinality(Links) <= MaxLinks
  /\ \E k \in 0..MaxSets : Cardinality(Backups) = Codes * k

Serving == [at : {"found", "enter"}, token : Sign!Made, codes : SUBSET Sign!Made]

RestTypes ==
  /\ taken \in [1..Sign!MaxTokens -> Nat] /\ lost \in [1..Sign!MaxTokens -> 0..1]
  /\ active \in [Sign!Users -> BOOLEAN] /\ enabled \in [Admins -> BOOLEAN]
  /\ session \in [Sign!Users -> {"out", "half", "in"}]
  /\ clerk \in [Clerks -> {Sign!Free} \cup Serving]

LEMMA SignConstants ==
  /\ Codes \in Nat /\ Codes > 0 /\ MaxLinks \in Nat /\ MaxSets \in Nat
  /\ Sign!MaxTokens \in Nat
  /\ Life \in [Sign!LinkKinds -> Nat]
<1>1. /\ Codes \in Nat \ {0} /\ MaxLinks \in Nat /\ MaxSets \in Nat
      /\ Life \in [Sign!LinkKinds -> Nat \ {0}]
  BY Assumptions DEF Sign!SignInAssumption
<1>2. Codes * MaxSets \in Nat
  BY <1>1
<1> QED
  BY <1>1, <1>2 DEF Sign!MaxTokens

LEMMA MoreSets ==
  ASSUME NEW a \in Nat, NEW b \in Nat, NEW c \in Nat, a <= b
  PROVE  c * a <= c * b
  OBVIOUS

LEMMA TokenFields ==
  ASSUME TokenTypes, NEW t \in Sign!Made
  PROVE  /\ token[t] \in Sign!Token /\ token[t].kind \in Sign!LinkKinds \cup {"backup"}
         /\ token[t].user \in Sign!Users /\ token[t].age \in Nat
         /\ token[t].used \in BOOLEAN /\ token[t].there \in BOOLEAN
<1>1. token[t] \in Sign!Token
  BY DEF TokenTypes, Sign!Made
<1> QED
  BY <1>1 DEF Sign!Token

LEMMA MadeCount ==
  ASSUME TokenTypes
  PROVE  /\ Len(token) \in Nat /\ Sign!Made = 1..Len(token)
         /\ Links \subseteq Sign!Made /\ Backups \subseteq Sign!Made
         /\ IsFiniteSet(Links) /\ IsFiniteSet(Backups)
         /\ Cardinality(Links) \in Nat /\ Cardinality(Backups) \in Nat
         /\ Len(token) = Cardinality(Links) + Cardinality(Backups)
         /\ Len(token) <= Sign!MaxTokens
<1>1. Len(token) \in Nat /\ Sign!Made = 1..Len(token)
  BY DEF TokenTypes, Sign!Made
<1>2. IsFiniteSet(1..Len(token)) /\ Cardinality(1..Len(token)) = Len(token)
  BY <1>1, FirstNumbers
<1>3. /\ Links \subseteq 1..Len(token) /\ Backups \subseteq 1..Len(token)
      /\ Links \cap Backups = {} /\ Links \cup Backups = 1..Len(token)
  BY <1>1 DEF Links, Backups
<1>4. /\ IsFiniteSet(Links) /\ IsFiniteSet(Backups)
      /\ Cardinality(Links) \in Nat /\ Cardinality(Backups) \in Nat
  BY <1>2, <1>3, FS_Subset, FS_CardinalityType
<1>5. Len(token) = Cardinality(Links) + Cardinality(Backups)
  <2>1. Cardinality(Links \cup Backups)
          = Cardinality(Links) + Cardinality(Backups) - Cardinality(Links \cap Backups)
    BY <1>4, FS_Union
  <2>2. Cardinality(Links \cap Backups) = 0
    BY <1>3, FS_EmptySet
  <2>3. Cardinality(Links \cup Backups) = Len(token)
    BY <1>2, <1>3
  <2> QED
    BY <1>4, <2>1, <2>2, <2>3
<1>6. Cardinality(Backups) <= Codes * MaxSets
  <2>1. PICK k \in 0..MaxSets : Cardinality(Backups) = Codes * k
    BY DEF TokenTypes
  <2>2. k \in Nat /\ k <= MaxSets
    BY <2>1, SignConstants
  <2> QED
    BY <2>1, <2>2, SignConstants, MoreSets
<1>7. Codes * MaxSets \in Nat
  BY SignConstants
<1>8. Len(token) <= Sign!MaxTokens
  BY <1>4, <1>5, <1>6, <1>7, SignConstants DEF TokenTypes, Sign!MaxTokens
<1> QED
  BY <1>1, <1>3, <1>4, <1>5, <1>8

LEMMA BusyClerk ==
  ASSUME RestTypes, NEW w \in Clerks, clerk[w] # Sign!Free
  PROVE  /\ clerk[w] \in Serving /\ clerk[w].at \in {"found", "enter"}
         /\ clerk[w].token \in Sign!Made /\ clerk[w].codes \subseteq Sign!Made
<1>1. clerk[w] \in Serving
  BY DEF RestTypes
<1> QED
  BY <1>1 DEF Serving

LEMMA MadeCountNext ==
  TokenTypes' => /\ Len(token') \in Nat /\ Sign!Made' = 1..Len(token')
                 /\ Len(token') <= Sign!MaxTokens
<1>1. TokenTypes => /\ Len(token) \in Nat /\ Sign!Made = 1..Len(token)
                    /\ Len(token) <= Sign!MaxTokens
  BY MadeCount
<1>2. TokenTypes' => (/\ Len(token) \in Nat /\ Sign!Made = 1..Len(token)
                      /\ Len(token) <= Sign!MaxTokens)'
  BY <1>1, PTL
<1> QED
  BY <1>2 DEF Sign!MaxTokens

LEMMA SignTypes ==
  TokenTypes /\ RestTypes => Sign!SignInTypeOK
<1> SUFFICES ASSUME TokenTypes, RestTypes PROVE Sign!SignInTypeOK
  OBVIOUS
<1>1. \A w \in Clerks : clerk[w] # Sign!Free =>
        clerk[w].at \in {"found", "enter"} /\ clerk[w].token \in Sign!Made
  BY BusyClerk
<1> QED
  BY <1>1, MadeCount DEF TokenTypes, RestTypes, Sign!SignInTypeOK

(* The tokens change, each for itself.                                     *)
LEMMA SameTokens ==
  ASSUME TokenTypes, NEW f \in [Sign!Made -> Sign!Token], token' = f,
         \A t \in Sign!Made : f[t].kind = token[t].kind
                              /\ f[t].age <= Sign!Late(token[t].kind)
  PROVE  TokenTypes' /\ Sign!Made' = Sign!Made
<1>1. Len(token) \in Nat /\ Sign!Made = 1..Len(token)
  BY MadeCount
<1>2. token' \in Seq(Sign!Token) /\ Len(token') = Len(token)
  BY <1>1
<1>3. Sign!Made' = Sign!Made
  BY <1>1, <1>2 DEF Sign!Made
<1>4. Links' = Links /\ Backups' = Backups
  BY <1>3 DEF Links, Backups
<1>5. \A t \in Sign!Made : token'[t].age <= Sign!Late(token'[t].kind)
  OBVIOUS
<1> QED
  BY <1>2, <1>3, <1>4, <1>5 DEF TokenTypes, Sign!Late

(* A link or a mailed code is made.                                        *)
LEMMA OneMoreToken ==
  ASSUME TokenTypes, NEW u \in Sign!Users, NEW kind \in Sign!LinkKinds, Sign!Room,
         token' = Append(token, Sign!New(kind, u))
  PROVE  /\ TokenTypes' /\ Sign!Made' = Sign!Made \cup {Len(token) + 1}
         /\ Len(token) + 1 \notin Sign!Made
         /\ token'[Len(token) + 1] = Sign!New(kind, u)
         /\ \A t \in Sign!Made : token'[t] = token[t]
<1> DEFINE x == Sign!New(kind, u)
           n == Len(token) + 1
<1>1. /\ Len(token) \in Nat /\ Sign!Made = 1..Len(token) /\ IsFiniteSet(Links)
      /\ Cardinality(Links) \in Nat /\ token \in Seq(Sign!Token)
  BY MadeCount DEF TokenTypes
<1>2. x \in Sign!Token /\ x.kind = kind /\ kind # "backup" /\ x.age = 0
  BY DEF Sign!New, Sign!Token, Sign!LinkKinds
<1> HIDE DEF x
<1>3. token' \in Seq(Sign!Token) /\ Len(token') = n
  BY <1>1, <1>2 DEF x
<1>4. token'[n] = x /\ \A t \in Sign!Made : token'[t] = token[t]
  BY <1>1 DEF x
<1>5. Sign!Made' = Sign!Made \cup {n} /\ n \notin Sign!Made
  BY <1>1, <1>3 DEF Sign!Made
<1>6. Links' = Links \cup {n} /\ Backups' = Backups /\ n \notin Links
  BY <1>2, <1>4, <1>5 DEF Links, Backups
<1>7. Cardinality(Links') = Cardinality(Links) + 1
  BY <1>1, <1>6, FS_AddElement
<1>8. Cardinality(Links) < MaxLinks
  BY SameCount DEF Sign!Room, Links
<1>9. Cardinality(Links') <= MaxLinks
  BY <1>1, <1>7, <1>8, SignConstants
<1>10. x.age <= Sign!Late(x.kind)
  <2>1. Life[kind] \in Nat /\ Sign!Late(kind) = Life[kind] + 1
    BY <1>2, SignConstants DEF Sign!Late
  <2> QED
    BY <1>2, <2>1
<1>11. \A t \in Sign!Made' : token'[t].age <= Sign!Late(token'[t].kind)
  BY <1>4, <1>5, <1>10 DEF TokenTypes, Sign!Late
<1>12. TokenTypes'
  BY <1>3, <1>6, <1>9, <1>11 DEF TokenTypes, Sign!Late
<1> QED
  BY <1>4, <1>5, <1>12 DEF x

(* A set of backup codes is made in place of the one before.               *)
LEMMA OneMoreSet ==
  ASSUME TokenTypes, NEW u \in Admins, Sign!NewCodes(u)
  PROVE  /\ TokenTypes' /\ Len(token') = Len(token) + Codes
         /\ Sign!Made' = 1..(Len(token) + Codes) /\ Sign!Made \subseteq Sign!Made'
         /\ \A t \in Sign!Made :
              token'[t] = [token[t] EXCEPT !.there = @ /\ ~Sign!IsBackupOf(t, u)]
         /\ \A t \in (Len(token) + 1)..(Len(token) + Codes) :
              token'[t] = Sign!New("backup", u)
<1> DEFINE old == [t \in Sign!Made |->
                    [token[t] EXCEPT !.there = @ /\ ~Sign!IsBackupOf(t, u)]]
           new == [n \in 1..Codes |-> Sign!New("backup", u)]
           L == Len(token)
           N == (L + 1)..(L + Codes)
<1>1. /\ L \in Nat /\ L = Len(token) /\ Sign!Made = 1..L /\ IsFiniteSet(Backups)
      /\ Cardinality(Backups) \in Nat /\ Codes \in Nat /\ Codes > 0 /\ MaxSets \in Nat
      /\ Backups \subseteq Sign!Made
  BY MadeCount, SignConstants
<1>2. token' = old \o new /\ Sign!RoomForSet
  BY DEF Sign!NewCodes
<1>3. Sign!New("backup", u) \in Sign!Token
  BY DEF Sign!New, Sign!Token, Sign!Users
<1>4. \A t \in Sign!Made : old[t] \in Sign!Token
  <2> SUFFICES ASSUME NEW t \in Sign!Made PROVE old[t] \in Sign!Token
    OBVIOUS
  <2>1. token[t] \in Sign!Token /\ token[t].there \in BOOLEAN
    BY TokenFields
  <2> QED
    BY <2>1 DEF Sign!Token
<1>5. old \in Seq(Sign!Token) /\ Len(old) = L /\ new \in Seq(Sign!Token) /\ Len(new) = Codes
  BY <1>1, <1>3, <1>4
<1>6. /\ \A t \in Sign!Made : old[t] = [token[t] EXCEPT !.there = @ /\ ~Sign!IsBackupOf(t, u)]
      /\ \A n \in 1..Codes : new[n] = Sign!New("backup", u)
  BY <1>1
<1> HIDE DEF old, new, L
<1>7. /\ token' \in Seq(Sign!Token) /\ Len(token') = L + Codes
      /\ \A t \in Sign!Made : token'[t] = old[t]
      /\ \A t \in N : token'[t] = new[t - L]
  <2>1. /\ token' \in Seq(Sign!Token) /\ Len(token') = L + Codes
        /\ \A t \in 1..(L + Codes) : token'[t] = IF t <= L THEN old[t] ELSE new[t - L]
    <3>1. /\ old \o new \in Seq(Sign!Token) /\ Len(old \o new) = Len(old) + Len(new)
          /\ \A i \in 1..(Len(old) + Len(new)) : (old \o new)[i] =
               IF i <= Len(old) THEN old[i] ELSE new[i - Len(old)]
      BY <1>5, ConcatProperties
    <3> QED
      BY <1>2, <1>5, <3>1
  <2> QED
    BY <1>1, <2>1
<1>8. Sign!Made' = 1..(L + Codes)
  BY <1>7 DEF Sign!Made
<1>9. ASSUME NEW t \in N PROVE token'[t] = Sign!New("backup", u)
  <2>1. t - L \in 1..Codes
    BY <1>1
  <2> QED
    BY <1>6, <1>7, <2>1
<1>10. \A t \in Sign!Made : /\ token'[t].kind = token[t].kind /\ token'[t].age = token[t].age
                            /\ token[t].kind # "backup" => t \in Links
                            /\ token[t].kind = "backup" => t \in Backups
  <2> SUFFICES ASSUME NEW t \in Sign!Made
               PROVE  token'[t].kind = token[t].kind /\ token'[t].age = token[t].age
    BY <1>1 DEF Links, Backups
  <2>1. token[t] \in Sign!Token
    BY <1>1, TokenFields
  <2>2. token'[t] = [token[t] EXCEPT !.there = @ /\ ~Sign!IsBackupOf(t, u)]
    BY <1>6, <1>7
  <2> QED
    BY <2>1, <2>2 DEF Sign!Token
<1>11. \A t \in N : token'[t].kind = "backup" /\ token'[t].age = 0
  BY <1>9 DEF Sign!New
<1>12. Sign!Made' = Sign!Made \cup N /\ Sign!Made \cap N = {}
  BY <1>1, <1>8
<1> HIDE DEF N
<1>13. Links' = Links /\ Backups' = Backups \cup N
  <2>1. /\ \A t \in Sign!Made' : t \in Sign!Made \/ t \in N
        /\ Sign!Made \subseteq Sign!Made' /\ N \subseteq Sign!Made'
    BY <1>12
  <2>2. \A t \in Links : t \in Sign!Made /\ token[t].kind # "backup"
    BY <1>1 DEF Links
  <2>3. \A t \in Backups : t \in Sign!Made /\ token[t].kind = "backup"
    BY <1>1 DEF Backups
  <2>4. Links' = {t \in Sign!Made' : token'[t].kind # "backup"}
        /\ Backups' = {t \in Sign!Made' : token'[t].kind = "backup"}
    BY DEF Links, Backups
  <2>5. Links' = Links
    <3>1. ASSUME NEW t \in Links PROVE t \in Links'
      BY <1>10, <2>1, <2>2, <2>4
    <3>2. ASSUME NEW t \in Links' PROVE t \in Links
      BY <1>10, <1>11, <2>1, <2>4
    <3> QED
      BY <3>1, <3>2
  <2>6. Backups' = Backups \cup N
    <3>1. ASSUME NEW t \in Backups PROVE t \in Backups'
      BY <1>10, <2>1, <2>3, <2>4
    <3>2. ASSUME NEW t \in Backups', t \notin N PROVE t \in Backups
      BY <1>10, <2>1, <2>4, <3>2
    <3>3. ASSUME NEW t \in N PROVE t \in Backups'
      BY <1>11, <2>1, <2>4
    <3> QED
      BY <3>1, <3>2, <3>3
  <2> QED
    BY <2>5, <2>6
<1>14. Cardinality(Backups') = Cardinality(Backups) + Codes
  <2>1. IsFiniteSet(N) /\ Cardinality(N) = Codes
    BY <1>1, NextNumbers DEF N
  <2>2. Backups \cap N = {}
    BY <1>1, <1>12
  <2>3. Cardinality(Backups \cup N)
          = Cardinality(Backups) + Cardinality(N)
            - Cardinality(Backups \cap N)
    BY <1>1, <2>1, FS_Union
  <2>4. Cardinality(Backups \cap N) = 0
    BY <2>2, FS_EmptySet
  <2> QED
    BY <1>1, <1>13, <2>1, <2>3, <2>4
<1>15. \E k \in 0..MaxSets : Cardinality(Backups') = Codes * k
  <2>1. PICK k \in 0..MaxSets : Cardinality(Backups) = Codes * k
    BY DEF TokenTypes
  <2>2. Cardinality(Backups) < Codes * MaxSets
    BY <1>2, SameCount DEF Sign!RoomForSet, Backups
  <2>3. k # MaxSets
    BY <1>1, <2>1, <2>2
  <2>4. k \in Nat /\ k + 1 \in 0..MaxSets
    BY <1>1, <2>3
  <2>5. Codes * (k + 1) = Codes * k + Codes
    BY <1>1, <2>4
  <2> QED
    BY <1>14, <2>1, <2>4, <2>5
<1>16. \A t \in Sign!Made' : token'[t].age <= Sign!Late(token'[t].kind)
  <2> SUFFICES ASSUME NEW t \in Sign!Made'
               PROVE  token'[t].age <= Sign!Late(token'[t].kind)
    OBVIOUS
  <2>1. CASE t \in Sign!Made
    <3>1. token[t].age <= Sign!Late(token[t].kind)
      BY <1>1, <2>1 DEF TokenTypes
    <3>2. token'[t].kind = token[t].kind /\ token'[t].age = token[t].age
      BY <1>1, <1>10, <2>1
    <3> QED
      BY <3>1, <3>2
  <2>2. CASE t \in N
    BY <1>11, <2>2 DEF Sign!Late
  <2> QED
    BY <1>8, <1>12, <2>1, <2>2
<1>17. TokenTypes'
  BY <1>7, <1>13, <1>15, <1>16 DEF TokenTypes, Sign!Late
<1> QED
  BY <1>1, <1>6, <1>7, <1>8, <1>9, <1>12, <1>17 DEF N

-----------------------------------------------------------------------------
(* The types are kept by every step.                                       *)
LEMMA NotFree ==
  ASSUME NEW w \in Clerks, clerk[w].at \in {"found", "enter"}
  PROVE  clerk[w] # Sign!Free
  BY DEF Sign!Free

LEMMA ClerksKeep ==
  ASSUME RestTypes, NEW w \in Clerks, NEW c, clerk' = [clerk EXCEPT ![w] = c],
         c \in {Sign!Free} \cup Serving
  PROVE  clerk' \in [Clerks -> {Sign!Free} \cup Serving]
  BY DEF RestTypes

LEMMA LetInTypes ==
  ASSUME TokenTypes, RestTypes, NEW w \in Clerks, clerk[w].at = "found",
         Sign!LetIn(w, clerk[w].token)
  PROVE  /\ taken' \in [1..Sign!MaxTokens -> Nat]
         /\ session' \in [Sign!Users -> {"out", "half", "in"}]
         /\ clerk' \in [Clerks -> {Sign!Free} \cup Serving]
<1> DEFINE t == clerk[w].token
<1>1. t \in Sign!Made /\ clerk[w] \in Serving
  BY NotFree, BusyClerk
<1>2. t \in 1..Sign!MaxTokens
  BY <1>1, MadeCount, SignConstants
<1>3. taken' \in [1..Sign!MaxTokens -> Nat]
  BY <1>2 DEF Sign!LetIn, RestTypes
<1>4. session' \in [Sign!Users -> {"out", "half", "in"}]
  BY <1>1, TokenFields DEF Sign!LetIn, RestTypes
<1>5. CASE token[t].kind = "magic"
  <2> DEFINE c == [clerk[w] EXCEPT !.at = "enter"]
  <2>1. c \in Serving
    BY <1>1 DEF Serving
  <2>2. clerk' = [clerk EXCEPT ![w] = c]
    BY <1>5 DEF Sign!LetIn
  <2> HIDE DEF c
  <2> QED
    BY <1>3, <1>4, <2>1, <2>2, ClerksKeep
<1>6. CASE token[t].kind # "magic"
  BY <1>3, <1>4, <1>6, ClerksKeep DEF Sign!LetIn
<1> QED
  BY <1>5, <1>6

(* More tokens, or the same.                                               *)
LEMMA ServingGrows ==
  ASSUME Sign!Made \subseteq Sign!Made'
  PROVE  Serving \subseteq Serving'
  BY DEF Serving

Swept(i, w) == /\ Sign!IsBackupOf(i, token[clerk[w].token].user)
               /\ token[clerk[w].token].kind = "backup"

LEMMA SpendIsToken ==
  ASSUME TokenTypes, NEW w \in Clerks
  PROVE  /\ Sign!Spend(clerk[w]) \in [Sign!Made -> Sign!Token]
         /\ \A t \in Sign!Made :
              /\ Sign!Spend(clerk[w])[t].kind = token[t].kind
              /\ Sign!Spend(clerk[w])[t].user = token[t].user
              /\ Sign!Spend(clerk[w])[t].age = token[t].age
              /\ Swept(t, w) =>
                   /\ Sign!Spend(clerk[w])[t].used = token[t].used
                   /\ Sign!Spend(clerk[w])[t].there
                        = (t \in clerk[w].codes \ {clerk[w].token})
              /\ ~Swept(t, w) =>
                   /\ Sign!Spend(clerk[w])[t].used = (token[t].used \/ t = clerk[w].token)
                   /\ Sign!Spend(clerk[w])[t].there = token[t].there
<1> DEFINE r == clerk[w]
           turned(t) == IF Swept(t, w)
                        THEN [token[t] EXCEPT !.there = t \in r.codes \ {r.token}]
                        ELSE [token[t] EXCEPT !.used = @ \/ t = r.token]
           Good(t) == /\ turned(t).kind = token[t].kind /\ turned(t).user = token[t].user
                      /\ turned(t).age = token[t].age
                      /\ Swept(t, w) =>
                           /\ turned(t).used = token[t].used
                           /\ turned(t).there = (t \in r.codes \ {r.token})
                      /\ ~Swept(t, w) =>
                           /\ turned(t).used = (token[t].used \/ t = r.token)
                           /\ turned(t).there = token[t].there
<1>1. ASSUME NEW t \in Sign!Made PROVE turned(t) \in Sign!Token /\ Good(t)
  <2>1. token[t] \in Sign!Token /\ token[t].used \in BOOLEAN
    BY TokenFields
  <2>2. CASE Swept(t, w)
    <3> DEFINE b == t \in r.codes \ {r.token}
    <3>1. b \in BOOLEAN
      OBVIOUS
    <3>2. turned(t) = [token[t] EXCEPT !.there = b]
      BY <2>2
    <3> HIDE DEF b, turned
    <3>3. turned(t) \in Sign!Token /\ turned(t).there = b
      BY <2>1, <3>1, <3>2 DEF Sign!Token
    <3>4. /\ turned(t).kind = token[t].kind /\ turned(t).user = token[t].user
          /\ turned(t).age = token[t].age /\ turned(t).used = token[t].used
      BY <2>1, <3>2 DEF Sign!Token
    <3> QED
      BY <2>2, <3>3, <3>4 DEF b
  <2>3. CASE ~Swept(t, w)
    <3> DEFINE b == token[t].used \/ t = r.token
    <3>1. b \in BOOLEAN
      BY <2>1
    <3>2. turned(t) = [token[t] EXCEPT !.used = b]
      BY <2>3
    <3> HIDE DEF b, turned
    <3>3. turned(t) \in Sign!Token /\ turned(t).used = b
      BY <2>1, <3>1, <3>2 DEF Sign!Token
    <3>4. /\ turned(t).kind = token[t].kind /\ turned(t).user = token[t].user
          /\ turned(t).age = token[t].age /\ turned(t).there = token[t].there
      BY <2>1, <3>2 DEF Sign!Token
    <3> QED
      BY <2>3, <3>3, <3>4 DEF b
  <2> QED
    BY <2>2, <2>3
<1>2. Sign!Spend(clerk[w]) = [t \in Sign!Made |-> turned(t)]
  BY DEF Sign!Spend, Swept
<1> HIDE DEF turned
<1> QED
  BY <1>1, <1>2

LEMMA AgedIsToken ==
  ASSUME TokenTypes, Sign!Cleanup \/ Sign!Tick
  PROVE  /\ token' \in [Sign!Made -> Sign!Token]
         /\ \A t \in Sign!Made : /\ token'[t].kind = token[t].kind
                                 /\ token'[t].user = token[t].user
                                 /\ token'[t].used = token[t].used
                                 /\ token'[t].age >= token[t].age
                                 /\ token'[t].age <= Sign!Late(token[t].kind)
                                 /\ token'[t].there => token[t].there
                                 /\ token[t].there => token'[t].there \/
                                      /\ token[t].kind # "backup"
                                      /\ token[t].age > Life[token[t].kind]
<1>1. CASE Sign!Cleanup
  <2> DEFINE turned(t) == [token[t] EXCEPT !.there =
               @ /\ (token[t].kind = "backup" \/ token[t].age <= Life[token[t].kind])]
  <2>1. ASSUME NEW t \in Sign!Made
        PROVE  turned(t) \in Sign!Token /\ turned(t).kind = token[t].kind
               /\ turned(t).user = token[t].user /\ turned(t).age = token[t].age
               /\ turned(t).used = token[t].used
               /\ turned(t).age \in Nat /\ token[t].age <= Sign!Late(token[t].kind)
               /\ (turned(t).there => token[t].there)
               /\ (token[t].there => turned(t).there \/
                    (token[t].kind # "backup" /\ token[t].age > Life[token[t].kind]))
    <3> DEFINE kept == token[t].kind = "backup" \/ token[t].age <= Life[token[t].kind]
    <3>1. token[t] \in Sign!Token /\ token[t].age \in Nat /\ token[t].there \in BOOLEAN
      BY TokenFields
    <3>2. token[t].age <= Sign!Late(token[t].kind)
      BY DEF TokenTypes
    <3>3. ~kept => token[t].kind # "backup" /\ token[t].age > Life[token[t].kind]
      BY TokenFields, SignConstants
    <3>4. (token[t].there /\ kept) \in BOOLEAN
      OBVIOUS
    <3> HIDE DEF kept
    <3>5. turned(t) = [token[t] EXCEPT !.there = @ /\ kept]
      BY DEF kept
    <3> HIDE DEF turned
    <3> QED
      BY <3>1, <3>2, <3>3, <3>4, <3>5 DEF Sign!Token
  <2>2. token' = [t \in Sign!Made |-> turned(t)]
    BY <1>1 DEF Sign!Cleanup
  <2> HIDE DEF turned
  <2> QED
    BY <2>1, <2>2
<1>2. CASE Sign!Tick
  <2> DEFINE turned(t) == [token[t] EXCEPT !.age =
               IF @ < Sign!Late(token[t].kind) THEN @ + 1 ELSE @]
  <2>1. ASSUME NEW t \in Sign!Made
        PROVE  turned(t) \in Sign!Token /\ turned(t).kind = token[t].kind
               /\ turned(t).user = token[t].user /\ turned(t).age >= token[t].age
               /\ turned(t).used = token[t].used
               /\ turned(t).age <= Sign!Late(token[t].kind)
               /\ turned(t).there = token[t].there
    <3>1. token[t] \in Sign!Token /\ token[t].age \in Nat
      BY TokenFields
    <3>2. token[t].age <= Sign!Late(token[t].kind)
      BY DEF TokenTypes
    <3>3. Sign!Late(token[t].kind) \in Nat
      BY TokenFields, SignConstants DEF Sign!Late
    <3> QED
      BY <3>1, <3>2, <3>3 DEF Sign!Token
  <2>2. token' = [t \in Sign!Made |-> turned(t)]
    BY <1>2 DEF Sign!Tick
  <2> HIDE DEF turned
  <2> QED
    BY <2>1, <2>2
<1> QED
  BY <1>1, <1>2

LEMMA SignTypeStep ==
  ASSUME TokenTypes, RestTypes, Sign!Next \/ UNCHANGED signVars
  PROVE  TokenTypes' /\ RestTypes' /\ Sign!Made \subseteq Sign!Made'
<1> DEFINE Kept == TokenTypes' /\ Sign!Made \subseteq Sign!Made'
           ClerksOK == clerk' \in [Clerks -> {Sign!Free} \cup Serving]
           OthersOK ==
             /\ taken' \in [1..Sign!MaxTokens -> Nat] /\ lost' \in [1..Sign!MaxTokens -> 0..1]
             /\ active' \in [Sign!Users -> BOOLEAN] /\ enabled' \in [Admins -> BOOLEAN]
             /\ session' \in [Sign!Users -> {"out", "half", "in"}]
<1>1. ASSUME Kept, ClerksOK, OthersOK
      PROVE  TokenTypes' /\ RestTypes' /\ Sign!Made \subseteq Sign!Made'
  <2>1. clerk' \in [Clerks -> {Sign!Free} \cup Serving']
    BY <1>1, ServingGrows
  <2> QED
    BY <1>1, <2>1 DEF RestTypes, Sign!MaxTokens, Sign!Users, Sign!Free
<1>2. ASSUME UNCHANGED token PROVE Kept
  BY <1>2 DEF TokenTypes, Sign!Made, Links, Backups
<1>3. ASSUME UNCHANGED clerk PROVE ClerksOK
  BY <1>3 DEF RestTypes
<1>4. Admins \subseteq Sign!Users /\ Guests \subseteq Sign!Users
  BY DEF Sign!Users
<1>5. ASSUME NEW u \in Sign!Users, NEW kind \in Sign!LinkKinds, Sign!Room,
             token' = Append(token, Sign!New(kind, u))
      PROVE  Kept
  BY <1>5, OneMoreToken
<1>6. ASSUME NEW u \in Sign!Users, Sign!Pages(u) PROVE Kept /\ ClerksOK /\ OthersOK
  <2>1. CASE Sign!RequestReset(u)
    <3>1. Kept
      BY <1>5, <2>1 DEF Sign!RequestReset, Sign!LinkKinds
    <3> QED
      BY <1>3, <2>1, <3>1 DEF Sign!RequestReset, RestTypes
  <2>2. CASE Sign!Login(u)
    BY <1>2, <1>3, <2>2 DEF Sign!Login, RestTypes
  <2>3. CASE Sign!Logout(u)
    BY <1>2, <1>3, <2>3 DEF Sign!Logout, RestTypes
  <2>4. ASSUME NEW a \in BOOLEAN, Sign!SetActive(u, a) PROVE Kept /\ ClerksOK /\ OthersOK
    BY <1>2, <1>3, <2>4 DEF Sign!SetActive, RestTypes
  <2> QED
    BY <1>6, <2>1, <2>2, <2>3, <2>4 DEF Sign!Pages
<1>7. ASSUME NEW u \in Guests, Sign!RequestMagic(u) PROVE Kept /\ ClerksOK /\ OthersOK
  <2>1. Kept
    BY <1>4, <1>5, <1>7 DEF Sign!RequestMagic, Sign!LinkKinds
  <2> QED
    BY <1>3, <1>7, <2>1 DEF Sign!RequestMagic, RestTypes
<1>8. ASSUME NEW u \in Admins, Sign!AdminPages(u) PROVE Kept /\ ClerksOK /\ OthersOK
  <2>1. CASE Sign!SendCode(u)
    <3>1. Kept
      BY <1>4, <1>5, <2>1 DEF Sign!SendCode, Sign!LinkKinds
    <3> QED
      BY <1>3, <2>1, <3>1 DEF Sign!SendCode, RestTypes
  <2>2. CASE Sign!SetUp(u)
    <3>1. Kept
      BY <2>2, OneMoreSet DEF Sign!SetUp
    <3> QED
      BY <1>3, <1>4, <2>2, <3>1 DEF Sign!SetUp, RestTypes
  <2>3. CASE Sign!Regenerate(u)
    <3>1. Kept
      BY <2>3, OneMoreSet DEF Sign!Regenerate
    <3> QED
      BY <1>3, <2>3, <3>1 DEF Sign!Regenerate, RestTypes
  <2> QED
    BY <1>8, <2>1, <2>2, <2>3 DEF Sign!AdminPages
<1>9. ASSUME NEW w \in Clerks, NEW t \in Sign!Made, Sign!Find(w, t)
      PROVE  Kept /\ ClerksOK /\ OthersOK
  <2> DEFINE c == [at |-> "found", token |-> t,
        codes |-> {i \in Sign!Made : Sign!IsBackupOf(i, token[t].user) /\ token[i].there}]
  <2>1. c \in Serving /\ clerk' = [clerk EXCEPT ![w] = c]
    BY <1>9 DEF Sign!Find, Serving
  <2> HIDE DEF c
  <2>2. ClerksOK
    BY <2>1, ClerksKeep
  <2> QED
    BY <1>2, <1>9, <2>2 DEF Sign!Find, RestTypes
<1>10. ASSUME NEW w \in Clerks, Sign!Commit(w) PROVE Kept /\ ClerksOK /\ OthersOK
  <2>1. /\ clerk[w].at = "found" /\ token' = Sign!Spend(clerk[w])
        /\ Sign!LetIn(w, clerk[w].token) /\ UNCHANGED <<lost, active, enabled>>
    BY <1>10 DEF Sign!Commit
  <2>2. \A t \in Sign!Made : token[t].age <= Sign!Late(token[t].kind)
    BY DEF TokenTypes
  <2>3. Kept
    <3> DEFINE f == Sign!Spend(clerk[w])
    <3>1. /\ f \in [Sign!Made -> Sign!Token]
          /\ \A t \in Sign!Made : f[t].kind = token[t].kind
                                  /\ f[t].age <= Sign!Late(token[t].kind)
      BY <2>2, SpendIsToken
    <3>2. token' = f
      BY <2>1
    <3> HIDE DEF f
    <3> QED
      BY <3>1, <3>2, SameTokens
  <2>4. taken' \in [1..Sign!MaxTokens -> Nat] /\ ClerksOK
        /\ session' \in [Sign!Users -> {"out", "half", "in"}]
    BY <2>1, LetInTypes
  <2> QED
    BY <2>1, <2>3, <2>4 DEF RestTypes
<1>11. ASSUME NEW w \in Clerks, Sign!CommitUnrecorded(w) PROVE Kept /\ ClerksOK /\ OthersOK
  <2>1. /\ clerk[w].at = "found" /\ lost' = [lost EXCEPT ![clerk[w].token] = 1]
        /\ Sign!LetIn(w, clerk[w].token) /\ UNCHANGED <<token, active, enabled>>
    BY <1>11 DEF Sign!CommitUnrecorded
  <2>2. lost' \in [1..Sign!MaxTokens -> 0..1]
    <3>1. 1 \in 0..1 /\ lost \in [1..Sign!MaxTokens -> 0..1]
      BY DEF RestTypes
    <3> HIDE DEF OthersOK
    <3> QED
      BY <2>1, <3>1
  <2>3. taken' \in [1..Sign!MaxTokens -> Nat] /\ ClerksOK
        /\ session' \in [Sign!Users -> {"out", "half", "in"}]
    BY <2>1, LetInTypes
  <2> QED
    BY <1>2, <2>1, <2>2, <2>3 DEF RestTypes
<1>12. ASSUME NEW w \in Clerks, Sign!Enter(w) PROVE Kept /\ ClerksOK /\ OthersOK
  <2>1. clerk[w].at = "enter" /\ clerk' = [clerk EXCEPT ![w] = Sign!Free]
    BY <1>12 DEF Sign!Enter
  <2>2. clerk[w].token \in Sign!Made
    BY <2>1, NotFree, BusyClerk
  <2>3. ClerksOK
    BY <2>1, ClerksKeep
  <2>4. session' \in [Sign!Users -> {"out", "half", "in"}]
    BY <1>12, <2>2, TokenFields DEF Sign!Enter, RestTypes
  <2> QED
    BY <1>2, <1>12, <2>3, <2>4 DEF Sign!Enter, RestTypes
<1>13. ASSUME NEW w \in Clerks, Sign!Fail(w) PROVE Kept /\ ClerksOK /\ OthersOK
  <2>1. ClerksOK
    BY <1>13, ClerksKeep DEF Sign!Fail
  <2> QED
    BY <1>2, <1>13, <2>1 DEF Sign!Fail, RestTypes
<1>14. ASSUME Sign!Cleanup \/ Sign!Tick PROVE Kept /\ ClerksOK /\ OthersOK
  <2>1. Kept
    BY <1>14, AgedIsToken, SameTokens
  <2>2. UNCHANGED <<taken, lost, active, enabled, session, clerk>>
    BY <1>14 DEF Sign!Cleanup, Sign!Tick
  <2> QED
    BY <1>3, <2>1, <2>2 DEF RestTypes
<1>15. ASSUME UNCHANGED signVars PROVE Kept /\ ClerksOK /\ OthersOK
  BY <1>2, <1>3, <1>15 DEF signVars, RestTypes
<1> HIDE DEF Kept, ClerksOK, OthersOK
<1>16. CASE Sign!Next
  BY <1>1, <1>6, <1>7, <1>8, <1>9, <1>10, <1>11, <1>12, <1>13, <1>14, <1>16 DEF Sign!Next
<1> QED
  BY <1>1, <1>15, <1>16

LEMMA SignTypeInit ==
  Sign!Init => TokenTypes /\ RestTypes
<1> SUFFICES ASSUME Sign!Init PROVE TokenTypes /\ RestTypes
  OBVIOUS
<1>1. token = <<>> /\ Sign!Made = {} /\ Links = {} /\ Backups = {}
  BY DEF Sign!Init, Sign!Made, Links, Backups
<1>2. Cardinality(Links) = 0 /\ Cardinality(Backups) = 0
  BY <1>1, FS_EmptySet
<1>3. 0 \in 0..MaxSets /\ Codes * 0 = 0 /\ 0 <= MaxLinks
  BY SignConstants
<1>4. TokenTypes
  BY <1>1, <1>2, <1>3 DEF TokenTypes
<1>5. RestTypes
  BY DEF Sign!Init, RestTypes
<1> QED
  BY <1>4, <1>5

-----------------------------------------------------------------------------
(* What is known of a token, and of what a worker has found.               *)
TokenIsSound(t) ==
  /\ taken[t] = lost[t] \/ taken[t] = lost[t] + 1
  /\ token[t].kind = "backup" =>
       /\ ~token[t].used
       /\ \A u \in Sign!Users : token[t].user = u =>
            (token[t].there <=> taken[t] = lost[t] /\ t \in Sign!Newest(u))
  /\ token[t].kind # "backup" =>
       /\ token[t].used <=> taken[t] # lost[t]
       /\ token[t].there \/ token[t].age > Life[token[t].kind]

FindIsSound(w) ==
  clerk[w].at = "found" =>
    /\ taken[clerk[w].token] = lost[clerk[w].token]
    /\ clerk[w].codes = {c \in Sign!Made : /\ Sign!IsBackupOf(c, token[clerk[w].token].user)
                                         /\ token[c].there}

SoundTokens ==
  /\ \A t \in Sign!Made : TokenIsSound(t)
  /\ \A t \in 1..Sign!MaxTokens : t \notin Sign!Made => taken[t] = 0 /\ lost[t] = 0

SignInv ==
  /\ TokenTypes /\ RestTypes /\ SoundTokens
  /\ \A w \in Clerks : FindIsSound(w)

Own(u) == {t \in Sign!Made : Sign!IsBackupOf(t, u)}

LEMMA NewestKeeps ==
  ASSUME NEW u, Own(u)' = Own(u)
  PROVE  Sign!Newest(u)' = Sign!Newest(u)
<1>1. Sign!Newest(u)' = {t \in Own(u)' : Sign!Cardinality({c \in Own(u)' : c > t}) < Codes}
  BY DEF Sign!Newest, Own
<1>2. Sign!Newest(u) = {t \in Own(u) : Sign!Cardinality({c \in Own(u) : c > t}) < Codes}
  BY DEF Sign!Newest, Own
<1> QED
  BY <1>1, <1>2

LEMMA SameOwn ==
  ASSUME Sign!Made' = Sign!Made,
         \A t \in Sign!Made : token'[t].kind = token[t].kind /\ token'[t].user = token[t].user
  PROVE  \A u : Own(u)' = Own(u)
  BY DEF Own, Sign!IsBackupOf

LEMMA SignSound ==
  SignInv => Sign!SpentOnce /\ Sign!ServesUntilSpent
<1> SUFFICES ASSUME SignInv PROVE Sign!SpentOnce /\ Sign!ServesUntilSpent
  OBVIOUS
<1>1. ASSUME NEW t \in Sign!Made
      PROVE  /\ taken[t] <= 1 + lost[t]
             /\ Sign!Usable(t) <=>
                  /\ taken[t] = lost[t]
                  /\ IF token[t].kind = "backup" THEN t \in Sign!Newest(token[t].user)
                     ELSE token[t].age <= Life[token[t].kind]
  <2>1. TokenIsSound(t) /\ TokenTypes /\ RestTypes
    BY DEF SignInv, SoundTokens
  <2>2. t \in 1..Sign!MaxTokens
    BY <2>1, MadeCount, SignConstants
  <2>3. taken[t] \in Nat /\ lost[t] \in Nat
    BY <2>1, <2>2 DEF RestTypes
  <2>4. /\ token[t].kind \in Sign!LinkKinds \cup {"backup"} /\ token[t].age \in Nat
        /\ token[t].kind # "backup" => Life[token[t].kind] \in Nat
    BY <2>1, TokenFields, SignConstants
  <2>5. taken[t] <= 1 + lost[t]
    BY <2>1, <2>3 DEF TokenIsSound
  <2>6. CASE token[t].kind = "backup"
    <3>1. token[t].user \in Sign!Users
      BY <2>1, TokenFields
    <3> QED
      BY <2>1, <2>5, <2>6, <3>1 DEF TokenIsSound, Sign!Usable
  <2>7. CASE token[t].kind # "backup"
    <3>1. token[t].there \/ ~(token[t].age <= Life[token[t].kind])
      BY <2>1, <2>4, <2>7 DEF TokenIsSound
    <3>2. token[t].used <=> taken[t] # lost[t]
      BY <2>1, <2>7 DEF TokenIsSound
    <3> QED
      BY <2>5, <2>7, <3>1, <3>2 DEF Sign!Usable
  <2> QED
    BY <2>5, <2>6, <2>7
<1> QED
  BY <1>1 DEF Sign!SpentOnce, Sign!ServesUntilSpent

(* The rows that change keep their kind and their owner.                   *)
LEMMA SoundKeeps ==
  ASSUME NEW t \in Sign!Made, TokenIsSound(t), token'[t].kind = token[t].kind,
         token'[t].user = token[t].user, token'[t].used = token[t].used,
         token'[t].there = token[t].there, token'[t].age = token[t].age,
         taken'[t] = taken[t], lost'[t] = lost[t],
         \A u \in Sign!Users : token[t].kind = "backup" /\ token[t].user = u =>
                              Sign!Newest(u)' = Sign!Newest(u)
  PROVE  TokenIsSound(t)'
  BY DEF TokenIsSound, Sign!Users

LEMMA LinkStep ==
  ASSUME TokenTypes, RestTypes, SoundTokens, NEW u \in Sign!Users,
         NEW kind \in Sign!LinkKinds, Sign!Room,
         token' = Append(token, Sign!New(kind, u)), UNCHANGED <<taken, lost>>
  PROVE  SoundTokens'
<1>0. PICK n : n = Len(token) + 1
  OBVIOUS
<1>1. /\ TokenTypes' /\ Sign!Made' = Sign!Made \cup {n} /\ n \notin Sign!Made
      /\ token'[n] = Sign!New(kind, u) /\ \A t \in Sign!Made : token'[t] = token[t]
  BY <1>0, OneMoreToken
<1>2. kind # "backup"
  BY DEF Sign!LinkKinds
<1>3. token'[n].kind # "backup" /\ token'[n].used = FALSE /\ token'[n].there = TRUE
  <2> DEFINE x == Sign!New(kind, u)
  <2>1. x.kind = kind /\ x.used = FALSE /\ x.there = TRUE
    BY DEF Sign!New
  <2>2. token'[n] = x
    BY <1>1
  <2> HIDE DEF x
  <2> QED
    BY <1>2, <2>1, <2>2
<1>4. \A v : Own(v)' = Own(v)
  BY <1>1, <1>3 DEF Own, Sign!IsBackupOf
<1>5. n \in 1..Sign!MaxTokens
  <2> QED
    BY <1>1, MadeCountNext, SignConstants
<1>6. taken[n] = 0 /\ lost[n] = 0
  BY <1>1, <1>5 DEF SoundTokens
<1>7. TokenIsSound(n)'
  <2>1. taken'[n] = lost'[n]
    BY <1>6
  <2> QED
    BY <1>3, <2>1 DEF TokenIsSound
<1>8. ASSUME NEW t \in Sign!Made PROVE TokenIsSound(t)'
  <2>1. \A v \in Sign!Users : Sign!Newest(v)' = Sign!Newest(v)
    BY <1>4, NewestKeeps
  <2>2. TokenIsSound(t) /\ token'[t] = token[t] /\ taken'[t] = taken[t] /\ lost'[t] = lost[t]
    BY <1>1 DEF SoundTokens
  <2> QED
    BY <2>1, <2>2, SoundKeeps
<1>9. \A t \in Sign!Made' : TokenIsSound(t)'
  BY <1>1, <1>7, <1>8
<1>10. \A t \in 1..Sign!MaxTokens : t \notin Sign!Made' => taken'[t] = 0 /\ lost'[t] = 0
  BY <1>1 DEF SoundTokens
<1> QED
  BY <1>9, <1>10 DEF SoundTokens, Sign!MaxTokens

LEMMA SetStep ==
  ASSUME TokenTypes, RestTypes, SoundTokens, NEW u \in Admins, Sign!NewCodes(u),
         UNCHANGED <<taken, lost>>
  PROVE  SoundTokens'
<1> DEFINE L == Len(token)
           N == (L + 1)..(L + Codes)
<1>1. /\ TokenTypes' /\ Sign!Made' = Sign!Made \cup N /\ Sign!Made \cap N = {}
      /\ \A t \in N : token'[t] = Sign!New("backup", u)
      /\ \A t \in Sign!Made :
           token'[t] = [token[t] EXCEPT !.there = @ /\ ~Sign!IsBackupOf(t, u)]
      /\ L \in Nat /\ Sign!Made = 1..L
  <2>1. L \in Nat /\ Sign!Made = 1..L /\ Codes \in Nat
    BY MadeCount, SignConstants
  <2>2. Sign!Made' = 1..(L + Codes)
    BY OneMoreSet
  <2>3. Sign!Made' = Sign!Made \cup N /\ Sign!Made \cap N = {}
    BY <2>1, <2>2
  <2> QED
    BY <2>1, <2>3, OneMoreSet
<1>2. \A t \in N : /\ token'[t].kind = "backup" /\ token'[t].user = u
                   /\ token'[t].used = FALSE /\ token'[t].there = TRUE
  BY <1>1 DEF Sign!New
<1>3. \A t \in Sign!Made :
        /\ token'[t].kind = token[t].kind /\ token'[t].user = token[t].user
        /\ token'[t].used = token[t].used /\ token'[t].age = token[t].age
        /\ Sign!IsBackupOf(t, u) => token'[t].there = FALSE
        /\ ~Sign!IsBackupOf(t, u) => token'[t].there = token[t].there
  <2> SUFFICES ASSUME NEW t \in Sign!Made
               PROVE  /\ token'[t].kind = token[t].kind /\ token'[t].user = token[t].user
                      /\ token'[t].used = token[t].used /\ token'[t].age = token[t].age
                      /\ Sign!IsBackupOf(t, u) => token'[t].there = FALSE
                      /\ ~Sign!IsBackupOf(t, u) => token'[t].there = token[t].there
    OBVIOUS
  <2>1. token[t] \in Sign!Token /\ token[t].there \in BOOLEAN
    BY TokenFields
  <2>2. token'[t] = [token[t] EXCEPT !.there = @ /\ ~Sign!IsBackupOf(t, u)]
    BY <1>1
  <2> QED
    BY <2>1, <2>2 DEF Sign!Token
<1>4. \A t \in N : t \in Nat /\ t > L
  BY <1>1, SignConstants
<1>5. \A t \in Sign!Made : t \in Nat /\ t <= L
  BY <1>1
<1>6. N \subseteq Nat /\ IsFiniteSet(N) /\ Cardinality(N) = Codes
  <2>1. IsFiniteSet(N) /\ Cardinality(N) = Codes
    BY <1>1, SignConstants, NextNumbers
  <2> QED
    BY <1>4, <2>1
<1> HIDE DEF L, N
<1>7. Own(u)' = Own(u) \cup N /\ Own(u) \subseteq Sign!Made
  BY <1>1, <1>2, <1>3 DEF Own, Sign!IsBackupOf
<1>8. \A v : v # u => Own(v)' = Own(v)
  BY <1>1, <1>2, <1>3 DEF Own, Sign!IsBackupOf
<1>9. IsFiniteSet(Own(u)')
  <2>1. IsFiniteSet(Backups) /\ Own(u) \subseteq Backups
    BY MadeCount DEF Own, Sign!IsBackupOf, Backups
  <2>2. IsFiniteSet(Own(u))
    BY <2>1, FS_Subset
  <2> QED
    BY <1>6, <1>7, <2>2, FS_Union
<1>10. Sign!Newest(u)' = N
  <2> DEFINE above(t) == {c \in Own(u)' : c > t}
  <2>1. Sign!Newest(u)' = {t \in Own(u)' : Cardinality(above(t)) < Codes}
    BY SameCount DEF Sign!Newest, Own
  <2>2. ASSUME NEW t \in Sign!Made PROVE ~(Cardinality(above(t)) < Codes)
    <3>1. N \subseteq above(t)
      BY <1>1, <1>4, <1>5, <1>7
    <3>2. IsFiniteSet(above(t))
      BY <1>9, FS_Subset
    <3> HIDE DEF above
    <3>3. Cardinality(N) <= Cardinality(above(t)) /\ Cardinality(above(t)) \in Nat
      BY <3>1, <3>2, FS_Subset, FS_CardinalityType
    <3> QED
      BY <1>6, <3>3, SignConstants
  <2>3. ASSUME NEW t \in N PROVE Cardinality(above(t)) < Codes
    <3>1. above(t) \subseteq N \ {t} /\ t \in N
      <4> SUFFICES ASSUME NEW c \in above(t) PROVE c \in N /\ c # t
        BY <2>3
      <4>1. c > t /\ (c \in Sign!Made \/ c \in N)
        BY <1>7
      <4>2. t \in Nat /\ t > L /\ L \in Nat
        BY <1>1, <1>4, <2>3
      <4>3. c \in Sign!Made => c \in Nat /\ c <= L
        BY <1>5
      <4>4. c \in N => c \in Nat
        BY <1>4
      <4> QED
        BY <4>1, <4>2, <4>3, <4>4
    <3>2. IsFiniteSet(N \ {t}) /\ Cardinality(N \ {t}) = Cardinality(N) - 1
      BY <1>6, FS_RemoveElement
    <3> HIDE DEF above
    <3>3. Cardinality(above(t)) <= Cardinality(N \ {t}) /\ Cardinality(above(t)) \in Nat
      BY <3>1, <3>2, FS_Subset, FS_CardinalityType
    <3> QED
      BY <1>6, <3>2, <3>3, SignConstants
  <2> HIDE DEF above
  <2> QED
    BY <1>7, <2>1, <2>2, <2>3
<1>11. N \subseteq 1..Sign!MaxTokens
  <2>2. /\ Sign!Made' = 1..Len(token') /\ Len(token') <= Sign!MaxTokens
        /\ Len(token') \in Nat /\ Sign!MaxTokens \in Nat
    BY <1>1, MadeCountNext, SignConstants
  <2>3. 1..Len(token') \subseteq 1..Sign!MaxTokens
    BY <2>2
  <2> QED
    BY <1>1, <2>2, <2>3
<1>12. ASSUME NEW t \in N PROVE TokenIsSound(t)'
  <2>1. t \in 1..Sign!MaxTokens /\ t \notin Sign!Made
    BY <1>1, <1>11
  <2>2. taken[t] = 0 /\ lost[t] = 0 /\ taken'[t] = lost'[t]
    BY <2>1 DEF SoundTokens
  <2>3. \A v \in Sign!Users : token'[t].user = v => t \in Sign!Newest(v)'
    BY <1>2, <1>10
  <2> QED
    BY <1>2, <2>2, <2>3 DEF TokenIsSound, Sign!Users
<1>13. ASSUME NEW t \in Sign!Made PROVE TokenIsSound(t)'
  <2>1. TokenIsSound(t)
    BY DEF SoundTokens
  <2>2. CASE Sign!IsBackupOf(t, u)
    <3>1. /\ token'[t].kind = "backup" /\ token'[t].user = u /\ token'[t].there = FALSE
          /\ ~token'[t].used /\ t \notin N
      BY <1>1, <1>3, <2>1, <2>2 DEF Sign!IsBackupOf, TokenIsSound
    <3>2. \A v \in Sign!Users : token'[t].user = v => t \notin Sign!Newest(v)'
      BY <1>10, <3>1
    <3>3. taken'[t] = lost'[t] \/ taken'[t] = lost'[t] + 1
      BY <2>1 DEF TokenIsSound
    <3> QED
      BY <3>1, <3>2, <3>3 DEF TokenIsSound, Sign!Users
  <2>3. CASE ~Sign!IsBackupOf(t, u)
    <3>1. CASE token[t].kind = "backup"
      <4>1. \A v \in Sign!Users : token[t].user = v => Sign!Newest(v)' = Sign!Newest(v)
        BY <1>8, <2>3, <3>1, NewestKeeps DEF Sign!IsBackupOf
      <4>2. /\ token'[t].kind = token[t].kind /\ token'[t].used = token[t].used
            /\ token'[t].user = token[t].user
            /\ token'[t].there = token[t].there /\ token'[t].age = token[t].age
            /\ taken'[t] = taken[t] /\ lost'[t] = lost[t]
        BY <1>3, <2>3
      <4> QED
        BY <2>1, <4>1, <4>2, SoundKeeps
    <3>2. CASE token[t].kind # "backup"
      <4>1. /\ token'[t].kind = token[t].kind /\ token'[t].used = token[t].used
            /\ token'[t].there = token[t].there /\ token'[t].age = token[t].age
        BY <1>3, <2>3
      <4> QED
        BY <2>1, <3>2, <4>1 DEF TokenIsSound
    <3> QED
      BY <3>1, <3>2
  <2> QED
    BY <2>2, <2>3
<1>14. \A t \in Sign!Made' : TokenIsSound(t)'
  BY <1>1, <1>12, <1>13
<1>15. \A t \in 1..Sign!MaxTokens : t \notin Sign!Made' => taken'[t] = 0 /\ lost'[t] = 0
  BY <1>1 DEF SoundTokens
<1> QED
  BY <1>14, <1>15 DEF SoundTokens, Sign!MaxTokens

LEMMA SpendStep ==
  ASSUME TokenTypes, RestTypes, SoundTokens, NEW w \in Clerks, clerk[w].at = "found",
         FindIsSound(w), token' = Sign!Spend(clerk[w]), Sign!LetIn(w, clerk[w].token),
         UNCHANGED lost
  PROVE  SoundTokens'
<1>0. PICK p, u : p = clerk[w].token /\ u = token[p].user
  OBVIOUS
<1>1. clerk[w] \in Serving /\ p \in Sign!Made
  BY <1>0, NotFree, BusyClerk
<1>2. taken[p] = lost[p] /\ clerk[w].codes = {c \in Own(u) : token[c].there}
  BY <1>0 DEF FindIsSound, Own
<1>3. p \in 1..Sign!MaxTokens /\ \A t \in Sign!Made : t \in 1..Sign!MaxTokens
  BY <1>1, MadeCount, SignConstants
<1>4. taken[p] \in Nat
  BY <1>3 DEF RestTypes
<1>5. taken'[p] = lost[p] + 1 /\ \A t \in 1..Sign!MaxTokens : t # p => taken'[t] = taken[t]
  BY <1>0, <1>2, <1>3 DEF Sign!LetIn, RestTypes
<1>6. \A t \in Sign!Made :
        /\ token'[t].kind = token[t].kind /\ token'[t].user = token[t].user
        /\ token'[t].age = token[t].age
        /\ Swept(t, w) => /\ token'[t].used = token[t].used
                          /\ token'[t].there = (t \in clerk[w].codes \ {clerk[w].token})
        /\ ~Swept(t, w) => /\ token'[t].used = (token[t].used \/ t = clerk[w].token)
                           /\ token'[t].there = token[t].there
  BY SpendIsToken
<1>7. Sign!Made' = Sign!Made
  <2> DEFINE f == Sign!Spend(clerk[w])
  <2>1. /\ f \in [Sign!Made -> Sign!Token]
        /\ \A t \in Sign!Made : f[t].kind = token[t].kind
                                /\ f[t].age <= Sign!Late(token[t].kind)
    BY SpendIsToken DEF TokenTypes
  <2> HIDE DEF f
  <2> QED
    BY <2>1, SameTokens DEF f
<1>8. \A v \in Sign!Users : Sign!Newest(v)' = Sign!Newest(v)
  BY <1>6, <1>7, SameOwn, NewestKeeps
<1>9. ASSUME NEW t \in Sign!Made PROVE TokenIsSound(t)'
  <2>1. TokenIsSound(t) /\ token[t].used \in BOOLEAN /\ token[t].there \in BOOLEAN
    BY TokenFields DEF SoundTokens
  <2>2. CASE Swept(t, w)
    <3>1. token[t].kind = "backup" /\ token[t].user = u /\ t \in Own(u)
      BY <1>0, <2>2 DEF Swept, Sign!IsBackupOf, Own
    <3>2. /\ token'[t].kind = "backup" /\ token'[t].user = u
          /\ token'[t].used = token[t].used
      BY <1>6, <2>2, <3>1
    <3>3. token'[t].there <=> token[t].there /\ t # p
      <4> DEFINE b == t \in clerk[w].codes \ {clerk[w].token}
      <4>1. b <=> token[t].there /\ t # p
        BY <1>0, <1>2, <3>1
      <4>2. token'[t].there = b
        BY <1>6, <2>2
      <4> HIDE DEF b
      <4> QED
        BY <4>1, <4>2
    <3>4. CASE t = p
      <4>1. taken'[t] = lost'[t] + 1 /\ lost'[t] = lost[t] /\ lost[t] \in Nat
        BY <1>2, <1>4, <1>5, <3>4
      <4>2. taken'[t] # lost'[t]
        BY <4>1
      <4> QED
        BY <2>1, <3>1, <3>2, <3>3, <3>4, <4>1, <4>2 DEF TokenIsSound, Sign!Users
    <3>5. CASE t # p
      <4>1. taken'[t] = taken[t] /\ lost'[t] = lost[t]
        BY <1>3, <1>5, <3>5
      <4>2. token'[t].there <=> token[t].there
        BY <3>3, <3>5
      <4> QED
        BY <1>8, <2>1, <3>1, <3>2, <4>1, <4>2 DEF TokenIsSound, Sign!Users
    <3> QED
      BY <3>4, <3>5
  <2>3. CASE ~Swept(t, w)
    <3>1. /\ token'[t].kind = token[t].kind /\ token'[t].user = token[t].user
          /\ token'[t].age = token[t].age /\ token'[t].there = token[t].there
          /\ token'[t].used = (token[t].used \/ t = p)
      BY <1>0, <1>6, <2>3
    <3>2. CASE t = p
      <4>1. token[t].kind # "backup"
        BY <1>0, <2>3, <3>2 DEF Swept, Sign!IsBackupOf
      <4>2. taken'[t] = lost'[t] + 1 /\ lost'[t] = lost[t] /\ lost[t] \in Nat
        BY <1>2, <1>4, <1>5, <3>2
      <4>3. taken'[t] # lost'[t] /\ token'[t].used
        <5>1. (token[t].used \/ t = p) = TRUE
          BY <3>2
        <5>2. token'[t].used = TRUE
          BY <3>1, <5>1
        <5>3. taken'[t] # lost'[t]
          BY <4>2
        <5> QED
          BY <5>2, <5>3
      <4> QED
        BY <2>1, <3>1, <4>1, <4>2, <4>3 DEF TokenIsSound
    <3>3. CASE t # p
      <4>1. taken'[t] = taken[t] /\ lost'[t] = lost[t] /\ token'[t].used = token[t].used
        BY <1>3, <1>5, <2>1, <3>1, <3>3
      <4> QED
        BY <1>8, <2>1, <3>1, <4>1, SoundKeeps
    <3> QED
      BY <3>2, <3>3
  <2> QED
    BY <2>2, <2>3
<1>10. \A t \in 1..Sign!MaxTokens : t \notin Sign!Made' => taken'[t] = 0 /\ lost'[t] = 0
  BY <1>1, <1>5, <1>7 DEF SoundTokens
<1> QED
  BY <1>7, <1>9, <1>10 DEF SoundTokens, Sign!MaxTokens

(* The record for the audit log failed: the token is as good as before.    *)
LEMMA RollbackStep ==
  ASSUME TokenTypes, RestTypes, SoundTokens, NEW w \in Clerks, FindIsSound(w),
         Sign!CommitUnrecorded(w)
  PROVE  SoundTokens'
<1>0. PICK p : p = clerk[w].token
  OBVIOUS
<1>1. /\ clerk[w].at = "found" /\ token' = token /\ lost[p] = 0
      /\ lost' = [lost EXCEPT ![p] = 1] /\ taken' = [taken EXCEPT ![p] = @ + 1]
  BY <1>0 DEF Sign!CommitUnrecorded, Sign!LetIn
<1>2. p \in Sign!Made /\ taken[p] = lost[p]
  BY <1>0, <1>1, NotFree, BusyClerk DEF FindIsSound
<1>3. p \in 1..Sign!MaxTokens /\ \A t \in Sign!Made : t \in 1..Sign!MaxTokens
  BY <1>2, MadeCount, SignConstants
<1>4. /\ taken'[p] = 1 /\ lost'[p] = 1
      /\ \A t \in 1..Sign!MaxTokens : t # p => taken'[t] = taken[t] /\ lost'[t] = lost[t]
  BY <1>1, <1>2, <1>3 DEF RestTypes
<1>5. Sign!Made' = Sign!Made /\ \A v : Sign!Newest(v)' = Sign!Newest(v)
  BY <1>1, SameOwn, NewestKeeps DEF Sign!Made
<1>6. ASSUME NEW t \in Sign!Made PROVE TokenIsSound(t)'
  <2>1. TokenIsSound(t)
    BY DEF SoundTokens
  <2>2. CASE t = p
    <3>1. taken[t] = lost[t] /\ taken'[t] = lost'[t]
      BY <1>2, <1>4, <2>2
    <3> QED
      BY <1>1, <1>5, <2>1, <3>1 DEF TokenIsSound, Sign!Users
  <2>3. CASE t # p
    <3>1. taken'[t] = taken[t] /\ lost'[t] = lost[t]
      BY <1>3, <1>4, <2>3
    <3> QED
      BY <1>1, <1>5, <2>1, <3>1, SoundKeeps
  <2> QED
    BY <2>2, <2>3
<1>7. \A t \in 1..Sign!MaxTokens : t \notin Sign!Made' => taken'[t] = 0 /\ lost'[t] = 0
  BY <1>2, <1>4, <1>5 DEF SoundTokens
<1> QED
  BY <1>5, <1>6, <1>7 DEF SoundTokens, Sign!MaxTokens

LEMMA AgedStep ==
  ASSUME TokenTypes, RestTypes, SoundTokens, Sign!Cleanup \/ Sign!Tick
  PROVE  SoundTokens' /\ Sign!Made' = Sign!Made
<1>1. UNCHANGED <<taken, lost>>
  BY DEF Sign!Cleanup, Sign!Tick
<1>2. \A t \in Sign!Made :
        /\ token'[t].kind = token[t].kind /\ token'[t].user = token[t].user
        /\ token'[t].used = token[t].used /\ token'[t].age >= token[t].age
        /\ token'[t].there => token[t].there
        /\ token[t].there => token'[t].there \/
             (token[t].kind # "backup" /\ token[t].age > Life[token[t].kind])
  BY AgedIsToken
<1>3. Sign!Made' = Sign!Made /\ TokenTypes'
  BY AgedIsToken, SameTokens
<1>4. \A v : Sign!Newest(v)' = Sign!Newest(v)
  BY <1>2, <1>3, SameOwn, NewestKeeps
<1>5. ASSUME NEW t \in Sign!Made PROVE TokenIsSound(t)'
  <2>1. TokenIsSound(t) /\ taken'[t] = taken[t] /\ lost'[t] = lost[t]
    BY <1>1 DEF SoundTokens
  <2>2. CASE token[t].kind = "backup"
    <3>1. token'[t].there <=> token[t].there
      BY <1>2, <2>2
    <3> QED
      BY <1>2, <1>4, <2>1, <2>2, <3>1 DEF TokenIsSound, Sign!Users
  <2>3. CASE token[t].kind # "backup"
    <3>1. token'[t].there \/ token'[t].age > Life[token[t].kind]
      <4>1. token[t].there \/ token[t].age > Life[token[t].kind]
        BY <2>1, <2>3 DEF TokenIsSound
      <4>2. token'[t].there \/ token[t].age > Life[token[t].kind]
        BY <1>2, <4>1
      <4>3. token[t].age \in Nat /\ Life[token[t].kind] \in Nat
        BY <2>3, TokenFields, SignConstants
      <4>4. token'[t].age \in Nat /\ token'[t].age >= token[t].age
        <5>1. token' \in [Sign!Made -> Sign!Token]
          BY AgedIsToken
        <5> QED
          BY <1>2, <5>1 DEF Sign!Token
      <4> QED
        BY <4>2, <4>3, <4>4
    <3> QED
      BY <1>2, <2>1, <2>3, <3>1 DEF TokenIsSound
  <2> QED
    BY <2>2, <2>3
<1>6. \A t \in 1..Sign!MaxTokens : t \notin Sign!Made' => taken'[t] = 0 /\ lost'[t] = 0
  BY <1>1, <1>3 DEF SoundTokens
<1> QED
  BY <1>3, <1>5, <1>6 DEF SoundTokens, Sign!MaxTokens

(* With one worker nothing is served while it has a token in its hand.     *)
OneClerk == \A v, w \in Clerks : v = w

LEMMA SignStep ==
  ASSUME OneClerk, SignInv, Sign!Next \/ UNCHANGED signVars
  PROVE  SignInv'
<1> DEFINE FindsOK == \A w \in Clerks : FindIsSound(w)'
<1>1. TokenTypes /\ RestTypes /\ SoundTokens /\ TokenTypes' /\ RestTypes'
  BY SignTypeStep DEF SignInv
<1>2. \A w \in Clerks : FindIsSound(w)
  BY DEF SignInv
<1>3. ASSUME \A w \in Clerks : clerk'[w].at # "found" PROVE FindsOK
  BY <1>3 DEF FindIsSound
<1>4. ASSUME UNCHANGED <<token, taken, lost>> PROVE SoundTokens'
  <2>1. Sign!Made' = Sign!Made /\ \A v : Sign!Newest(v)' = Sign!Newest(v)
    BY <1>4, SameOwn, NewestKeeps DEF Sign!Made
  <2>2. ASSUME NEW t \in Sign!Made PROVE TokenIsSound(t)'
    BY <1>1, <1>4, <2>1, SoundKeeps DEF SoundTokens
  <2> QED
    BY <1>1, <1>4, <2>1, <2>2 DEF SoundTokens, Sign!MaxTokens
<1>5. ASSUME UNCHANGED <<token, taken, lost, clerk>> PROVE FindsOK
  BY <1>2, <1>5 DEF FindIsSound, Sign!Made, Sign!IsBackupOf
<1>6. ASSUME NEW v \in Clerks, clerk[v] = Sign!Free, UNCHANGED clerk PROVE FindsOK
  <2>1. \A w \in Clerks : clerk'[w].at = "free"
    BY <1>6 DEF OneClerk, Sign!Free
  <2> QED
    BY <1>3, <2>1
<1>7. ASSUME NEW v \in Clerks, clerk'[v].at # "found" PROVE FindsOK
  BY <1>3, <1>7 DEF OneClerk
<1>8. ASSUME NEW v \in Clerks, clerk' = [clerk EXCEPT ![v] = Sign!Free] PROVE FindsOK
  <2>1. clerk'[v].at = "free"
    BY <1>1, <1>8 DEF RestTypes, Sign!Free
  <2> QED
    BY <1>7, <2>1
<1>9. Admins \subseteq Sign!Users /\ Guests \subseteq Sign!Users
  BY DEF Sign!Users
<1>10. ASSUME NEW w \in Clerks, clerk[w] = Sign!Free, NEW u \in Sign!Users, Sign!Pages(u)
       PROVE  SoundTokens' /\ FindsOK
  <2>1. CASE Sign!RequestReset(u)
    BY <1>1, <1>6, <1>10, <2>1, LinkStep DEF Sign!RequestReset, Sign!LinkKinds
  <2>2. CASE Sign!Login(u) \/ Sign!Logout(u) \/ \E a \in BOOLEAN : Sign!SetActive(u, a)
    BY <1>4, <1>5, <2>2 DEF Sign!Login, Sign!Logout, Sign!SetActive
  <2> QED
    BY <1>10, <2>1, <2>2 DEF Sign!Pages
<1>11. ASSUME NEW w \in Clerks, clerk[w] = Sign!Free, NEW u \in Guests, Sign!RequestMagic(u)
       PROVE  SoundTokens' /\ FindsOK
  BY <1>1, <1>6, <1>9, <1>11, LinkStep DEF Sign!RequestMagic, Sign!LinkKinds
<1>12. ASSUME NEW w \in Clerks, clerk[w] = Sign!Free, NEW u \in Admins, Sign!AdminPages(u)
       PROVE  SoundTokens' /\ FindsOK
  <2>1. CASE Sign!SendCode(u)
    BY <1>1, <1>6, <1>9, <1>12, <2>1, LinkStep DEF Sign!SendCode, Sign!LinkKinds
  <2>2. CASE Sign!SetUp(u)
    BY <1>1, <1>6, <1>12, <2>2, SetStep DEF Sign!SetUp
  <2>3. CASE Sign!Regenerate(u)
    BY <1>1, <1>6, <1>12, <2>3, SetStep DEF Sign!Regenerate
  <2> QED
    BY <1>12, <2>1, <2>2, <2>3 DEF Sign!AdminPages
<1>13. ASSUME NEW w \in Clerks, NEW t \in Sign!Made, Sign!Find(w, t)
       PROVE  SoundTokens' /\ FindsOK
  <2> DEFINE c == [at |-> "found", token |-> t,
        codes |-> {i \in Sign!Made : Sign!IsBackupOf(i, token[t].user) /\ token[i].there}]
  <2>1. clerk' = [clerk EXCEPT ![w] = c] /\ UNCHANGED <<token, taken, lost>>
    BY <1>13 DEF Sign!Find
  <2>2. clerk'[w] = c
    BY <1>1, <2>1 DEF RestTypes
  <2>3. /\ c.token = t
        /\ c.codes = {i \in Sign!Made : Sign!IsBackupOf(i, token[t].user) /\ token[i].there}
    OBVIOUS
  <2>4. taken[t] = lost[t]
    <3>1. TokenIsSound(t) /\ Sign!Usable(t)
      BY <1>1, <1>13 DEF SoundTokens, Sign!Find
    <3>2. token[t].user \in Sign!Users
      BY <1>1, TokenFields
    <3> QED
      BY <3>1, <3>2 DEF TokenIsSound, Sign!Usable
  <2> HIDE DEF c
  <2>5. FindIsSound(w)'
    BY <2>1, <2>2, <2>3, <2>4 DEF FindIsSound, Sign!Made, Sign!IsBackupOf
  <2>6. FindsOK
    BY <2>5 DEF OneClerk
  <2> QED
    BY <1>4, <2>1, <2>6
<1>14. ASSUME NEW w \in Clerks, Sign!LetIn(w, clerk[w].token) PROVE FindsOK
  <2>1. CASE clerk' = [clerk EXCEPT ![w].at = "enter"]
    <3>1. clerk'[w].at # "found"
      <4>1. clerk'[w] = [clerk[w] EXCEPT !.at = "enter"]
        BY <1>1, <2>1 DEF RestTypes
      <4>2. clerk[w] \in {Sign!Free} \cup Serving
        BY <1>1 DEF RestTypes
      <4> QED
        BY <4>1, <4>2 DEF Sign!Free, Serving
    <3> QED
      BY <1>7, <3>1
  <2>2. CASE clerk' = [clerk EXCEPT ![w] = Sign!Free]
    BY <1>8, <2>2
  <2> QED
    BY <1>14, <2>1, <2>2 DEF Sign!LetIn
<1>15. ASSUME NEW w \in Clerks, Sign!Commit(w) PROVE SoundTokens' /\ FindsOK
  BY <1>1, <1>2, <1>14, <1>15, SpendStep DEF Sign!Commit
<1>16. ASSUME NEW w \in Clerks, Sign!CommitUnrecorded(w) PROVE SoundTokens' /\ FindsOK
  <2>1. SoundTokens'
    BY <1>1, <1>2, <1>16, RollbackStep
  <2> QED
    BY <1>14, <1>16, <2>1 DEF Sign!CommitUnrecorded
<1>17. ASSUME NEW w \in Clerks, Sign!Enter(w) \/ Sign!Fail(w) PROVE SoundTokens' /\ FindsOK
  BY <1>4, <1>8, <1>17 DEF Sign!Enter, Sign!Fail
<1>18. ASSUME Sign!Cleanup \/ Sign!Tick PROVE SoundTokens' /\ FindsOK
  <2>1. SoundTokens' /\ Sign!Made' = Sign!Made
    BY <1>1, <1>18, AgedStep
  <2>2. UNCHANGED <<taken, lost, clerk>>
    BY <1>18 DEF Sign!Cleanup, Sign!Tick
  <2>3. ASSUME NEW w \in Clerks, clerk[w].at = "found"
        PROVE  {c \in Sign!Made' : /\ token'[c].kind = "backup"
                                   /\ token'[c].user = token'[clerk[w].token].user
                                   /\ token'[c].there}
               = {c \in Sign!Made : /\ token[c].kind = "backup"
                                    /\ token[c].user = token[clerk[w].token].user
                                    /\ token[c].there}
    <3>1. clerk[w].token \in Sign!Made
      BY <1>1, <2>3, NotFree, BusyClerk
    <3>2. \A t \in Sign!Made :
            /\ token'[t].kind = token[t].kind /\ token'[t].user = token[t].user
            /\ token[t].kind = "backup" => (token'[t].there <=> token[t].there)
      BY <1>1, <1>18, AgedIsToken
    <3> QED
      BY <2>1, <3>1, <3>2
  <2>4. FindsOK
    BY <1>2, <2>2, <2>3 DEF FindIsSound, Sign!IsBackupOf
  <2> QED
    BY <2>1, <2>4
<1>19. SoundTokens' /\ FindsOK
  <2>1. CASE UNCHANGED signVars
    BY <1>4, <1>5, <2>1 DEF signVars
  <2> HIDE DEF FindsOK
  <2>2. CASE Sign!Next
    BY <1>10, <1>11, <1>12, <1>13, <1>15, <1>16, <1>17, <1>18, <2>2 DEF Sign!Next
  <2> QED
    BY <2>1, <2>2
<1> QED
  BY <1>1, <1>19 DEF SignInv

LEMMA SignInvInit ==
  Sign!Init => SignInv
<1> SUFFICES ASSUME Sign!Init PROVE SignInv
  OBVIOUS
<1>1. /\ Sign!Made = {} /\ \A t \in 1..Sign!MaxTokens : taken[t] = 0 /\ lost[t] = 0
      /\ \A w \in Clerks : clerk[w].at = "free"
  BY DEF Sign!Init, Sign!Made, Sign!Free
<1> QED
  BY <1>1, SignTypeInit DEF SignInv, SoundTokens, FindIsSound

-----------------------------------------------------------------------------
(* The parts together.                                                     *)
allVars == <<part, vars, inVars, lockVars, signVars>>

RepeatsStep == [RepeatsNext]_allVars

LEMMA StepOfAPart ==
  RepeatsStep => /\ [Next]_vars
                 /\ Inbox!Next \/ UNCHANGED inVars
                 /\ Lock!Next \/ UNCHANGED lockVars
                 /\ Sign!Next \/ UNCHANGED signVars
  BY DEF RepeatsStep, allVars, RepeatsNext

LEMMA PartsBegin == RepeatsInit => Init /\ Inbox!Init /\ Lock!Init /\ Sign!Init
  BY DEF RepeatsInit

AllInv ==
  KeyInv /\ KeySets /\ InboxInv /\ LockInv /\ TokenTypes /\ RestTypes

LEMMA AllInit == RepeatsInit => AllInv
  BY PartsBegin, InitInv, SetsInit, InboxInit, LockInit, SignTypeInit DEF AllInv

LEMMA AllStep == AllInv /\ RepeatsStep => AllInv'
<1> SUFFICES ASSUME AllInv, RepeatsStep PROVE AllInv'
  OBVIOUS
<1>1. KeyInv' /\ KeySets'
  BY StepOfAPart, KeyStep, SetsStep DEF AllInv
<1>2. InboxInv' /\ LockInv'
  BY StepOfAPart, InboxStep, LockStep DEF AllInv
<1>3. TokenTypes' /\ RestTypes'
  BY StepOfAPart, SignTypeStep DEF AllInv
<1> QED
  BY <1>1, <1>2, <1>3 DEF AllInv

LEMMA AllTyped == AllInv => RepeatsTypeOK
<1> SUFFICES ASSUME AllInv PROVE RepeatsTypeOK
  OBVIOUS
<1>1. IdempotencyTypeOK
  BY KeysAreTyped DEF AllInv
<1>2. Inbox!InboundTypeOK /\ Lock!LockoutTypeOK
  BY DEF AllInv, InboxInv, InboxTypes, LockInv
<1>3. Sign!SignInTypeOK
  BY SignTypes DEF AllInv
<1> QED
  BY <1>1, <1>2, <1>3 DEF RepeatsTypeOK

(* Every variable of the four parts keeps its type, whoever overlaps.      *)
THEOREM RepeatsAreTyped == RepeatsSpec => []RepeatsTypeOK
  BY AllInit, AllStep, AllTyped, PTL DEF RepeatsSpec, RepeatsStep, allVars

(* An event on record as processed without an error was handled, for any   *)
(* number of deliveries that overlap with each other and with the job that *)
(* tries stale events again (handle_webhook, mark_processed,               *)
(* process_stale_inbound_webhook_events).                                  *)
THEOREM ProcessedEventsWereHandled == RepeatsSpec => []ProcessedWasHandled
<1>1. AllInv => ProcessedWasHandled
  BY DEF AllInv, InboxInv, ProcessedWasHandled
<1> QED
  BY AllInit, AllStep, <1>1, PTL DEF RepeatsSpec, RepeatsStep, allVars

(* Any number of workers that overlap looks at no more wrong passwords     *)
(* within the window than the limit and one each (authenticate_user,       *)
(* _is_locked_out).                                                        *)
THEOREM GuessesStayLimited == RepeatsSpec => []Lock!GuessesAreLimited
<1>1. AllInv => Lock!GuessesAreLimited
  BY LockSound DEF AllInv
<1> QED
  BY AllInit, AllStep, <1>1, PTL DEF RepeatsSpec, RepeatsStep, allVars

(* One worker, beside the command that deletes old rows, honours a link or *)
(* a code until it is spent, replaced or too old, and once, over any       *)
(* number of tokens of any kinds, audit records that fail and workers that *)
(* stop (find_active_by_raw, consume_active_code, consume_backup_code).    *)
THEOREM LoginsAreLimited ==
  ASSUME OneClerk
  PROVE  RepeatsSpec => []LoginsAreSound
<1> DEFINE LogInv == LockInv /\ SignInv
<1>1. RepeatsInit => LogInv
  BY PartsBegin, LockInit, SignInvInit
<1>2. LogInv /\ RepeatsStep => LogInv'
  <2> SUFFICES ASSUME LogInv, RepeatsStep PROVE LogInv'
    OBVIOUS
  <2>1. LockInv'
    BY StepOfAPart, LockStep
  <2>2. SignInv'
    BY StepOfAPart, SignStep
  <2> QED
    BY <2>1, <2>2
<1>3. LogInv => LoginsAreSound
  BY LockSound, SignSound DEF LoginsAreSound
<1> HIDE DEF LogInv
<1> QED
  BY <1>1, <1>2, <1>3, PTL DEF RepeatsSpec, RepeatsStep, allVars
=============================================================================
