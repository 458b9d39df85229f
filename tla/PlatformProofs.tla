--------------------------- MODULE PlatformProofs ---------------------------
(***************************************************************************)
(* What holds of the application's backups, calendar views, reports on     *)
(* money, lists, galleries, people and settings, for every value of the    *)
(* constants.                                                              *)
(* Each part has an inductive invariant of its own; the parts share no     *)
(* state, so that all of them hold at once (AllInv).                       *)
(***************************************************************************)
EXTENDS MCPlatform, BackupsProofs, FiniteSetTheorems, SequenceTheorems,
        WellFoundedInduction, TLAPS

(* A set of natural numbers has a least one.                               *)
LEMMA LeastNatural ==
  ASSUME NEW T \in SUBSET Nat, T # {}
  PROVE  \E m \in T : \A k \in T : m <= k
<1>1. PICK m \in T : \A k \in T : <<k, m>> \notin OpToRel(<, Nat)
  BY NatLessThanWellFounded, WFMin, Zenon
<1>2. \A k \in T : ~(k < m)
  BY <1>1 DEF OpToRel
<1> QED
  BY <1>2

-----------------------------------------------------------------------------
(* People.  A guest that is there stays, in its organization.              *)
ManInv == Man!PeopleTypeOK /\ Man!RecordsStayAtHome

GuestsStay ==
  \A g \in Man!Ids : Man!Has(guests, g) =>
    guests'[g] # Man!NoRow /\ guests'[g].org = guests[g].org

LEMMA Numbers ==
  /\ MaxUsers \in Nat /\ MaxGuests \in Nat
  /\ 1..MaxUsers \subseteq Man!Ids /\ 1..MaxGuests \subseteq Man!Ids /\ Man!Ids \subseteq Nat
  BY Assumptions DEF Man!PeopleAssumption, Man!Ids

LEMMA GuestFields ==
  ASSUME Man!PeopleTypeOK, NEW g \in Man!Ids, Man!Has(guests, g)
  PROVE  guests[g] \in Man!GuestRow /\ guests[g].org \in Orgs
<1>1. guests[g] \in Man!GuestRow
  BY DEF Man!PeopleTypeOK, Man!Has
<1> QED
  BY <1>1 DEF Man!GuestRow

LEMMA UserFields ==
  ASSUME Man!PeopleTypeOK, NEW u \in Man!Ids, Man!Has(users, u)
  PROVE  users[u] \in Man!UserRow /\ users[u].org \in Orgs
<1>1. users[u] \in Man!UserRow
  BY DEF Man!PeopleTypeOK, Man!Has
<1> QED
  BY <1>1 DEF Man!UserRow

LEMMA RowsDiffer ==
  /\ \A kept \in Man!GuestRow : kept # Man!NoRow
  /\ \A kept \in Man!UserRow : kept # Man!NoRow
  BY DEF Man!GuestRow, Man!UserRow, Man!NoRow

(* What keeps labels and comments at home.                                 *)
LEMMA HomeKeeps ==
  ASSUME ManInv, Man!PeopleTypeOK', GuestsStay,
         \A l \in links' : l \in links \/
            (guests[l[2]] # Man!NoRow /\ guests[l[2]].org = l[1]),
         \A c \in comments' :
            \/ \E b \in comments : c.about = b.about /\ c.org = b.org
            \/ guests[c.about] # Man!NoRow /\ guests[c.about].org = c.org
  PROVE  Man!RecordsStayAtHome'
<1>1. ASSUME NEW l \in links' PROVE guests'[l[2]] # Man!NoRow /\ guests'[l[2]].org = l[1]
  <2>1. l \in Orgs \X Man!Ids
    BY DEF Man!PeopleTypeOK
  <2>2. l[2] \in Man!Ids
    BY <2>1
  <2>3. guests[l[2]] # Man!NoRow /\ guests[l[2]].org = l[1]
    BY DEF ManInv, Man!RecordsStayAtHome, Man!Has
  <2> QED
    BY <2>2, <2>3 DEF GuestsStay, Man!Has
<1>2. ASSUME NEW c \in comments'
      PROVE  guests'[c.about] # Man!NoRow /\ guests'[c.about].org = c.org
  <2>1. c.about \in Man!Ids
    BY DEF Man!PeopleTypeOK, Man!Comment
  <2>2. guests[c.about] # Man!NoRow /\ guests[c.about].org = c.org
    BY DEF ManInv, Man!RecordsStayAtHome, Man!Has
  <2> QED
    BY <2>1, <2>2 DEF GuestsStay, Man!Has
<1> QED
  BY <1>1, <1>2 DEF Man!RecordsStayAtHome, Man!Has, Man!NoRow

LEMMA SameHome ==
  ASSUME ManInv, Man!PeopleTypeOK', GuestsStay, UNCHANGED <<links, comments>>
  PROVE  ManInv'
  BY HomeKeeps DEF ManInv

(* A row of the users or of the guests is made or changed.                 *)
LEMMA GuestChanges ==
  ASSUME Man!PeopleTypeOK, NEW g \in Man!Ids, Man!Has(guests, g),
         NEW p \in Persons \cup {Man!Nobody}, guests' = [guests EXCEPT ![g].person = p]
  PROVE  GuestsStay /\ guests' \in [Man!Ids -> Man!GuestRow \cup {Man!NoRow}]
<1> DEFINE kept == [guests[g] EXCEPT !.person = p]
<1>1. guests[g] \in Man!GuestRow
  BY GuestFields
<1>2. kept \in Man!GuestRow /\ kept.org = guests[g].org
  BY <1>1 DEF Man!GuestRow
<1>3. guests' = [guests EXCEPT ![g] = kept]
  OBVIOUS
<1> HIDE DEF kept
<1>4. kept # Man!NoRow
  BY <1>2, RowsDiffer
<1>5. guests' \in [Man!Ids -> Man!GuestRow \cup {Man!NoRow}]
  BY <1>2, <1>3 DEF Man!PeopleTypeOK
<1>6. GuestsStay
  BY <1>2, <1>3, <1>4 DEF GuestsStay, Man!Has, Man!PeopleTypeOK
<1> QED
  BY <1>5, <1>6

LEMMA GuestMade ==
  ASSUME Man!PeopleTypeOK, NEW g \in Man!Ids, NEW p \in Persons, NEW o \in Orgs,
         NEW b \in BOOLEAN,
         guests' = IF Man!Has(guests, g) THEN guests
                   ELSE [guests EXCEPT ![g] = [org |-> o, person |-> p, shadow |-> b]]
  PROVE  GuestsStay /\ guests' \in [Man!Ids -> Man!GuestRow \cup {Man!NoRow}]
<1>1. [org |-> o, person |-> p, shadow |-> b] \in Man!GuestRow
  BY DEF Man!GuestRow
<1>2. CASE Man!Has(guests, g)
  BY <1>2 DEF GuestsStay, Man!Has, Man!PeopleTypeOK
<1>3. CASE ~Man!Has(guests, g)
  BY <1>1, <1>3 DEF GuestsStay, Man!Has, Man!PeopleTypeOK
<1> QED
  BY <1>2, <1>3

LEMMA BlankTypes ==
  ASSUME Man!PeopleTypeOK, NEW u \in Man!Ids, Man!Has(users, u), Man!Blank(u)
  PROVE  /\ users' \in [Man!Ids -> Man!UserRow \cup {Man!NoRow}]
         /\ guests' \in [Man!Ids -> Man!GuestRow \cup {Man!NoRow}] /\ GuestsStay
<1> DEFINE kept == [users[u] EXCEPT !.person = Man!Nobody, !.active = FALSE]
<1>1. users[u] \in Man!UserRow
  BY UserFields
<1>2. kept \in Man!UserRow
  BY <1>1 DEF Man!UserRow
<1>3. users' = [users EXCEPT ![u] = kept]
  BY DEF Man!Blank, Man!PeopleTypeOK
<1> HIDE DEF kept
<1>4. users' \in [Man!Ids -> Man!UserRow \cup {Man!NoRow}]
  BY <1>2, <1>3 DEF Man!PeopleTypeOK
<1>5. CASE Man!Has(guests, u)
  <2>1. guests' = [guests EXCEPT ![u].person = Man!Nobody]
    BY <1>5 DEF Man!Blank
  <2> QED
    BY <1>4, <1>5, <2>1, GuestChanges
<1>6. CASE ~Man!Has(guests, u)
  <2>1. guests' = guests
    BY <1>6 DEF Man!Blank
  <2> QED
    BY <1>4, <2>1 DEF GuestsStay, Man!Has, Man!PeopleTypeOK
<1> QED
  BY <1>5, <1>6

LEMMA GuestsSame ==
  ASSUME UNCHANGED guests PROVE GuestsStay
  BY DEF GuestsStay, Man!Has

(* Users and guests come, change and go.                                   *)
LEMMA RowStep ==
  ASSUME ManInv,
         Man!UserPages \/ Man!NewGuestPage \/ Man!EditGuestPage \/ Man!GdprPage \/ Man!Erasure
  PROVE  ManInv'
<1>0. Man!PeopleTypeOK
  BY DEF ManInv
<1>1. ASSUME NEW p \in Persons, NEW o \in Orgs, Man!CreateUser(p, o) PROVE ManInv'
  <2>1. nextUser \in Man!Ids /\ nextUser + 1 \in 1..(MaxUsers + 1)
    BY <1>0, <1>1, Numbers DEF Man!CreateUser, Man!PeopleTypeOK
  <2>2. GuestsStay /\ guests' \in [Man!Ids -> Man!GuestRow \cup {Man!NoRow}]
    BY <1>0, <1>1, <2>1, GuestMade DEF Man!CreateUser
  <2>3. [org |-> o, person |-> p, active |-> TRUE] \in Man!UserRow
    BY DEF Man!UserRow
  <2>4. users' \in [Man!Ids -> Man!UserRow \cup {Man!NoRow}]
    BY <1>0, <1>1, <2>3 DEF Man!CreateUser, Man!PeopleTypeOK
  <2>5. Man!PeopleTypeOK'
    BY <1>0, <1>1, <2>1, <2>2, <2>4 DEF Man!CreateUser, Man!PeopleTypeOK, Man!written
  <2> QED
    BY <1>1, <2>2, <2>5, SameHome DEF Man!CreateUser, Man!written
<1>2. ASSUME NEW u \in Man!Ids, NEW o \in Orgs, NEW b \in BOOLEAN, Man!EditUser(u, o, b)
      PROVE  ManInv'
  <2> DEFINE kept == [users[u] EXCEPT !.org = o, !.active = b]
  <2>1. users[u] \in Man!UserRow
    BY <1>0, <1>2, UserFields DEF Man!EditUser
  <2>2. kept \in Man!UserRow
    BY <2>1 DEF Man!UserRow
  <2>3. users' = [users EXCEPT ![u] = kept]
    BY <1>0, <1>2 DEF Man!EditUser, Man!PeopleTypeOK
  <2> HIDE DEF kept
  <2>4. Man!PeopleTypeOK'
    BY <1>0, <1>2, <2>2, <2>3 DEF Man!EditUser, Man!PeopleTypeOK, Man!written
  <2> QED
    BY <1>2, <2>4, SameHome, GuestsSame DEF Man!EditUser, Man!written
<1>3. ASSUME NEW p \in Persons, NEW o \in Orgs, Man!CreateGuest(p, o) PROVE ManInv'
  <2>1. nextGuest \in Man!Ids /\ nextGuest + 1 \in 1..(MaxGuests + 1)
    BY <1>0, <1>3, Numbers DEF Man!CreateGuest, Man!PeopleTypeOK
  <2>2. GuestsStay /\ guests' \in [Man!Ids -> Man!GuestRow \cup {Man!NoRow}]
    BY <1>0, <1>3, <2>1, GuestMade DEF Man!CreateGuest
  <2>3. Man!PeopleTypeOK'
    BY <1>0, <1>3, <2>1, <2>2 DEF Man!CreateGuest, Man!PeopleTypeOK, Man!written
  <2> QED
    BY <1>3, <2>2, <2>3, SameHome DEF Man!CreateGuest, Man!written
<1>4. ASSUME NEW p \in Persons, NEW o \in Orgs, NEW g \in Man!Ids, Man!UpdateGuest(g, p, o)
      PROVE  ManInv'
  <2>1. GuestsStay /\ guests' \in [Man!Ids -> Man!GuestRow \cup {Man!NoRow}]
    BY <1>0, <1>4, GuestChanges DEF Man!UpdateGuest
  <2>2. Man!PeopleTypeOK'
    BY <1>0, <1>4, <2>1 DEF Man!UpdateGuest, Man!PeopleTypeOK, Man!written
  <2> QED
    BY <1>4, <2>1, <2>2, SameHome DEF Man!UpdateGuest, Man!written
<1>5. ASSUME NEW u \in Man!Ids, Man!Anonymize(u) PROVE ManInv'
  <2>1. /\ users' \in [Man!Ids -> Man!UserRow \cup {Man!NoRow}] /\ GuestsStay
        /\ guests' \in [Man!Ids -> Man!GuestRow \cup {Man!NoRow}]
    BY <1>0, <1>5, BlankTypes DEF Man!Anonymize
  <2>2. Man!PeopleTypeOK'
    BY <1>0, <1>5, <2>1 DEF Man!Anonymize, Man!PeopleTypeOK, Man!written
  <2> QED
    BY <1>5, <2>1, <2>2, SameHome DEF Man!Anonymize, Man!written
<1>6. ASSUME NEW u \in Man!Ids, Man!Delete(u) PROVE ManInv'
  <2>1. /\ users' \in [Man!Ids -> Man!UserRow \cup {Man!NoRow}] /\ GuestsStay
        /\ guests' \in [Man!Ids -> Man!GuestRow \cup {Man!NoRow}]
    BY <1>0, <1>6, BlankTypes DEF Man!Delete
  <2>2. users[u].org \in Orgs
    BY <1>0, <1>6, UserFields DEF Man!Delete
  <2>3. Man!PeopleTypeOK'
    BY <1>0, <1>6, <2>1, <2>2 DEF Man!Delete, Man!PeopleTypeOK, Man!written
  <2> QED
    BY <1>6, <2>1, <2>3, SameHome DEF Man!Delete, Man!written
<1>7. ASSUME NEW e \in erasing, Man!Remove(e) PROVE ManInv'
  <2>1. Man!Heir(e) \in Man!Ids
    <3>1. Man!Colleagues(e) \subseteq Nat /\ Man!Colleagues(e) # {}
          /\ Man!Colleagues(e) \subseteq Man!Ids
      BY <1>7, Numbers DEF Man!Remove, Man!Colleagues
    <3>2. \E v \in Man!Colleagues(e) : \A w \in Man!Colleagues(e) : v <= w
      BY <3>1, LeastNatural
    <3> QED
      BY <3>1, <3>2 DEF Man!Heir
  <2>2. authored' \subseteq [by : Man!Ids, org : Orgs]
    <3>1. ASSUME NEW x \in authored
          PROVE  [x EXCEPT !.by = Man!Heir(e)] \in [by : Man!Ids, org : Orgs]
      BY <1>0, <2>1 DEF Man!PeopleTypeOK
    <3>2. authored \subseteq [by : Man!Ids, org : Orgs]
      BY <1>0 DEF Man!PeopleTypeOK
    <3>3. authored' = {IF x.by = e.user THEN [x EXCEPT !.by = Man!Heir(e)] ELSE x : x \in authored}
      BY <1>7 DEF Man!Remove
    <3> QED
      BY <3>1, <3>2, <3>3
  <2>3. e.user \in Man!Ids
    BY <1>0 DEF Man!PeopleTypeOK
  <2>4. users' \in [Man!Ids -> Man!UserRow \cup {Man!NoRow}]
    BY <1>0, <1>7, <2>3 DEF Man!Remove, Man!PeopleTypeOK
  <2>5. Man!PeopleTypeOK'
    BY <1>0, <1>7, <2>2, <2>4 DEF Man!Remove, Man!PeopleTypeOK
  <2> QED
    BY <1>7, <2>5, SameHome, GuestsSame DEF Man!Remove
<1>8. ASSUME NEW e \in erasing, Man!Refuse(e) PROVE ManInv'
  <2>1. Man!PeopleTypeOK'
    BY <1>0, <1>8 DEF Man!Refuse, Man!PeopleTypeOK, Man!written
  <2> QED
    BY <1>8, <2>1, SameHome, GuestsSame DEF Man!Refuse, Man!written
<1> QED
  BY <1>1, <1>2, <1>3, <1>4, <1>5, <1>6, <1>7, <1>8
     DEF Man!UserPages, Man!NewGuestPage, Man!EditGuestPage, Man!GdprPage, Man!Erasure

(* What is written about them.                                             *)
LEMMA WrittenStep ==
  ASSUME ManInv,
         Man!TagPages \/ Man!CommentPages \/ Man!NoticePages \/ Man!OtherPages
  PROVE  ManInv'
<1>0. Man!PeopleTypeOK
  BY DEF ManInv
<1>1. ASSUME NEW o \in Orgs, NEW g \in Man!Ids, Man!Attach(o, g) \/ Man!Detach(o, g)
      PROVE  ManInv'
  <2>1. Man!PeopleTypeOK'
    BY <1>0, <1>1 DEF Man!Attach, Man!Detach, Man!PeopleTypeOK
  <2>2. GuestsStay
    BY <1>1, GuestsSame DEF Man!Attach, Man!Detach
  <2>3. /\ UNCHANGED comments
        /\ \A l \in links' : l \in links \/
             (guests[l[2]] # Man!NoRow /\ guests[l[2]].org = l[1])
    BY <1>1 DEF Man!Attach, Man!Detach, Man!InOrganization, Man!Has
  <2> QED
    BY <2>1, <2>2, <2>3, HomeKeeps DEF ManInv
<1>2. ASSUME NEW u \in Man!Ids, NEW o \in Orgs, NEW g \in Man!Ids, NEW m \in SUBSET Man!Ids,
             Man!Say(u, o, g, m)
      PROVE  ManInv'
  <2> DEFINE c == [by |-> u, org |-> o, about |-> g, edited |-> FALSE]
             told == {v \in m \ {u} : Man!Has(users, v) /\ users[v].org = o}
             news == {[to |-> v, org |-> o, read |-> FALSE] : v \in told}
  <2>1. /\ comments' = comments \cup {c} /\ notices' = notices \cup news
        /\ UNCHANGED <<users, guests, nextUser, nextGuest, links, authored, erasing>>
        /\ guests[g] # Man!NoRow /\ guests[g].org = o
    BY <1>2 DEF Man!Say, Man!InOrganization, Man!Has
  <2>2. c \in Man!Comment /\ c.about = g /\ c.org = o
    BY DEF Man!Comment
  <2>3. news \subseteq Man!Notice
    <3>1. told \subseteq Man!Ids
      OBVIOUS
    <3> HIDE DEF told
    <3>2. \A v \in told : [to |-> v, org |-> o, read |-> FALSE] \in Man!Notice
      BY <3>1 DEF Man!Notice
    <3> QED
      BY <3>2
  <2> HIDE DEF c, news
  <2>4. Man!PeopleTypeOK'
    BY <1>0, <2>1, <2>2, <2>3 DEF Man!PeopleTypeOK
  <2>5. GuestsStay
    BY <2>1, GuestsSame
  <2>6. \A b \in comments' :
          \/ \E d \in comments : b.about = d.about /\ b.org = d.org
          \/ guests[b.about] # Man!NoRow /\ guests[b.about].org = b.org
    BY <2>1, <2>2
  <2> QED
    BY <2>1, <2>4, <2>5, <2>6, HomeKeeps DEF ManInv
<1>3. ASSUME NEW u \in Man!Ids, NEW c \in comments, Man!EditComment(u, c) PROVE ManInv'
  <2> DEFINE d == [c EXCEPT !.edited = TRUE]
  <2>1. /\ comments' = (comments \ {c}) \cup {d}
        /\ UNCHANGED <<users, guests, nextUser, nextGuest, links, notices, authored, erasing>>
    BY <1>3 DEF Man!EditComment
  <2>2. c \in Man!Comment
    BY <1>0 DEF Man!PeopleTypeOK
  <2>3. d \in Man!Comment /\ d.about = c.about /\ d.org = c.org
    BY <2>2 DEF Man!Comment
  <2> HIDE DEF d
  <2>4. Man!PeopleTypeOK'
    BY <1>0, <2>1, <2>3 DEF Man!PeopleTypeOK
  <2>5. GuestsStay
    BY <2>1, GuestsSame
  <2>6. \A b \in comments' : \E a \in comments : b.about = a.about /\ b.org = a.org
    BY <2>1, <2>3
  <2> QED
    BY <2>1, <2>4, <2>5, <2>6, HomeKeeps DEF ManInv
<1>4. ASSUME NEW u \in Man!Ids, NEW c \in comments, Man!DeleteComment(u, c) PROVE ManInv'
  <2>1. /\ comments' = comments \ {c}
        /\ UNCHANGED <<users, guests, nextUser, nextGuest, links, notices, authored, erasing>>
    BY <1>4 DEF Man!DeleteComment
  <2>2. Man!PeopleTypeOK'
    BY <1>0, <2>1 DEF Man!PeopleTypeOK
  <2> QED
    BY <2>1, <2>2, HomeKeeps, GuestsSame DEF ManInv
<1>5. ASSUME NEW some \in SUBSET notices,
             Man!PruneNotices(some) \/ \E u \in Man!Ids : Man!ReadNotices(u, some)
      PROVE  ManInv'
  <2>1. /\ UNCHANGED <<users, guests, nextUser, nextGuest, links, comments, authored, erasing>>
        /\ \/ notices' = notices \ some
           \/ notices' = (notices \ some) \cup {[n EXCEPT !.read = TRUE] : n \in some}
    BY <1>5 DEF Man!PruneNotices, Man!ReadNotices
  <2>2. notices' \subseteq Man!Notice
    <3>1. notices \subseteq Man!Notice
      BY <1>0 DEF Man!PeopleTypeOK
    <3>2. ASSUME NEW n \in some PROVE [n EXCEPT !.read = TRUE] \in Man!Notice
      BY <3>1 DEF Man!Notice
    <3> QED
      BY <2>1, <3>1, <3>2
  <2>3. Man!PeopleTypeOK'
    BY <1>0, <2>1, <2>2 DEF Man!PeopleTypeOK
  <2> QED
    BY <2>1, <2>3, SameHome, GuestsSame
<1>6. ASSUME NEW u \in Man!Ids, NEW o \in Orgs, Man!Make(u, o) PROVE ManInv'
  <2>1. Man!PeopleTypeOK'
    BY <1>0, <1>6 DEF Man!Make, Man!PeopleTypeOK
  <2> QED
    BY <1>6, <2>1, SameHome, GuestsSame DEF Man!Make
<1>7. CASE Man!CommentPages
  <2>1. ASSUME NEW u \in Man!Ids, NEW o \in Orgs, NEW g \in Man!Ids,
               NEW v \in {{}} \cup {{i} : i \in Man!Ids}, Man!Say(u, o, g, v)
        PROVE  ManInv'
    <3>1. v \in SUBSET Man!Ids
      OBVIOUS
    <3> QED
      BY <1>2, <2>1, <3>1
  <2> QED
    BY <1>3, <1>4, <1>7, <2>1 DEF Man!CommentPages
<1> QED
  BY <1>1, <1>5, <1>6, <1>7 DEF Man!TagPages, Man!NoticePages, Man!OtherPages

LEMMA ManStep ==
  ASSUME ManInv, Man!Next \/ UNCHANGED manVars
  PROVE  ManInv'
<1>1. CASE UNCHANGED manVars
  BY <1>1 DEF manVars, ManInv, Man!PeopleTypeOK, Man!RecordsStayAtHome, Man!Has
<1>2. CASE Man!Next
  BY <1>2, RowStep, WrittenStep DEF Man!Next, Man!TagApi, Man!CommentApi
<1> QED
  BY <1>1, <1>2

LEMMA ManInit == Man!Init => ManInv
  BY Numbers DEF Man!Init, ManInv, Man!PeopleTypeOK, Man!RecordsStayAtHome

(* Galleries.  What a worker is doing, with what it has done so far.       *)
Lefts == {<<"full", "thumb">>, <<"thumb">>, <<>>}
UploadReqs == [op : {"upload"}, pic : Pictures, left : Lefts, row : Gal!PictureRow]
DeleteReqs == [op : {"delete"}, pic : Pictures, left : Lefts]

Uploading(w) == galReq[w].op = "upload"
Deleting(w) == galReq[w].op = "delete"

GalTypes ==
  /\ Gal!GalleryTypeOK
  /\ galReq \in [Uploaders -> {Gal!Idle} \cup UploadReqs \cup DeleteReqs]

GalUploads ==
  /\ dropping \subseteq used
  /\ \A i \in Pictures : Gal!Has(picture, i) => i \in used
  /\ \A w \in Uploaders : Uploading(w) =>
       /\ galReq[w].pic \in used \ dropping
       /\ ~Gal!Has(picture, galReq[w].pic)
       /\ galReq[w].left # <<"full", "thumb">> => <<galReq[w].pic, "full">> \in files
       /\ galReq[w].left = <<>> => <<galReq[w].pic, "thumb">> \in files
  /\ \A v, w \in Uploaders :
       Uploading(v) /\ Uploading(w) /\ galReq[v].pic = galReq[w].pic => v = w
  /\ \A w \in Uploaders : Deleting(w) => galReq[w].pic \in dropping

GalInv == GalTypes /\ GalUploads /\ Gal!ShownIsThere

LEMMA SameSizes ==
  \A S : /\ Gal!Cardinality(S) = Cardinality(S)
         /\ Gal!IsFiniteSet(S) <=> IsFiniteSet(S)
  BY DEF Gal!Cardinality, Gal!IsFiniteSet, Cardinality, IsFiniteSet

(* A bounded set of natural numbers has a greatest one.                    *)
LEMMA GreatestNatural ==
  ASSUME NEW N \in Nat, NEW T, T \subseteq 0 .. N, T # {}
  PROVE  \E m \in T : \A k \in T : k <= m
<1> DEFINE R == {N - k : k \in T}
<1>0. \A k \in T : k \in Nat /\ N - k \in Nat
  OBVIOUS
<1>1. R \in SUBSET Nat /\ R # {}
  BY <1>0
<1>2. PICK r \in R : \A k \in R : r <= k
  BY <1>1, LeastNatural
<1>3. PICK m \in T : r = N - m
  OBVIOUS
<1>4. \A k \in T : N - m <= N - k
  BY <1>2, <1>3
<1>5. \A k \in T : k <= m
  <2> SUFFICES ASSUME NEW k \in T PROVE k <= m
    OBVIOUS
  <2>1. k \in Nat /\ m \in Nat /\ N - m <= N - k
    BY <1>0, <1>4
  <2> QED
    BY <2>1
<1> QED
  BY <1>5

LEMMA GalSizes ==
  /\ IsFiniteSet(Pictures) /\ Cardinality(Pictures) \in Nat
  /\ Gal!Orders = 1 .. Cardinality(Pictures) + 1
<1>1. IsFiniteSet(Pictures)
  BY Assumptions, SameSizes DEF Gal!GalleryAssumption
<1> QED
  BY <1>1, FS_CardinalityType, SameSizes DEF Gal!Orders

LEMMA GalRowsDiffer ==
  /\ \A r \in Gal!PictureRow : r # Gal!NoRow
  /\ \A r \in Gal!UnitRow : r # Gal!NoRow
  BY DEF Gal!PictureRow, Gal!UnitRow, Gal!NoRow

LEMMA PictureFields ==
  ASSUME Gal!GalleryTypeOK, NEW i \in Pictures, Gal!Has(picture, i)
  PROVE  /\ picture[i] \in Gal!PictureRow /\ picture[i].of \in Properties
         /\ picture[i].order \in Gal!Orders /\ picture[i].order \in Nat \ {0}
<1>1. picture[i] \in Gal!PictureRow
  BY DEF Gal!GalleryTypeOK, Gal!Has
<1> QED
  BY <1>1, GalSizes DEF Gal!PictureRow

LEMMA UnitFields ==
  ASSUME Gal!GalleryTypeOK, NEW u \in Flats, Gal!Has(unit, u)
  PROVE  unit[u] \in Gal!UnitRow
  BY DEF Gal!GalleryTypeOK, Gal!Has

LEMMA OfSizes ==
  ASSUME NEW p
  PROVE  /\ Gal!Of(p) \subseteq Pictures /\ IsFiniteSet(Gal!Of(p))
         /\ Cardinality(Gal!Of(p)) \in Nat
         /\ Cardinality(Gal!Of(p)) <= Cardinality(Pictures)
<1>1. Gal!Of(p) \subseteq Pictures
  BY DEF Gal!Of
<1> QED
  BY <1>1, GalSizes, FS_Subset, FS_CardinalityType

(* Each picture that is named has its last place in a list.                *)
LEMMA PlaceIsThere ==
  ASSUME NEW n \in Nat, NEW list, DOMAIN list = 1 .. n,
         NEW i, \E k \in 1 .. n : list[k] = i
  PROVE  Gal!Place(list, i) \in 1 .. n /\ list[Gal!Place(list, i)] = i
<1> DEFINE T == {k \in 1 .. n : list[k] = i}
<1>1. T \subseteq 0 .. n /\ T # {}
  OBVIOUS
<1>2. PICK m \in T : \A k \in T : k <= m
  BY <1>1, GreatestNatural
<1>3. \E k \in DOMAIN list : list[k] = i /\ \A o \in DOMAIN list : list[o] = i => o <= k
  BY <1>2
<1> QED
  BY <1>3 DEF Gal!Place

LEMMA ReqFields ==
  ASSUME GalTypes, NEW w \in Uploaders
  PROVE  /\ Uploading(w) => galReq[w] \in UploadReqs
         /\ Deleting(w) => galReq[w] \in DeleteReqs
         /\ ~Uploading(w) /\ ~Deleting(w) => galReq[w] = Gal!Idle
  BY DEF GalTypes, Uploading, Deleting, UploadReqs, DeleteReqs, Gal!Idle

LEMMA ReqOps ==
  /\ Gal!Idle.op = "idle"
  /\ \A r \in UploadReqs : r.op = "upload" /\ r.pic \in Pictures /\ r.left \in Lefts
                           /\ r.row \in Gal!PictureRow
  /\ \A r \in DeleteReqs : r.op = "delete" /\ r.pic \in Pictures /\ r.left \in Lefts
  BY DEF Gal!Idle, UploadReqs, DeleteReqs

LEMMA LeftOver ==
  ASSUME NEW left \in Lefts, left # <<>>
  PROVE  /\ Tail(left) \in Lefts /\ Tail(left) # <<"full", "thumb">>
         /\ Head(left) \in Gal!Sizes
         /\ Tail(left) # <<>> => left = <<"full", "thumb">> /\ Head(left) = "full"
         /\ Tail(left) = <<>> => left = <<"thumb">> /\ Head(left) = "thumb"
<1>1. CASE left = <<"full", "thumb">>
  BY <1>1 DEF Lefts, Gal!Sizes
<1>2. CASE left = <<"thumb">>
  BY <1>2 DEF Lefts, Gal!Sizes
<1> QED
  BY <1>1, <1>2 DEF Lefts

(* What one worker does, when it is told what it does next.                *)
LEMMA OneReq ==
  ASSUME GalTypes, NEW w \in Uploaders,
         NEW r \in {Gal!Idle} \cup UploadReqs \cup DeleteReqs,
         galReq' = [galReq EXCEPT ![w] = r]
  PROVE  /\ galReq' \in [Uploaders -> {Gal!Idle} \cup UploadReqs \cup DeleteReqs]
         /\ galReq'[w] = r
         /\ \A v \in Uploaders : v # w => galReq'[v] = galReq[v]
         /\ \A v \in Uploaders : galReq'[v].op \in {"idle", "upload", "delete"}
<1>1. galReq' \in [Uploaders -> {Gal!Idle} \cup UploadReqs \cup DeleteReqs]
  BY DEF GalTypes
<1>2. \A v \in Uploaders : galReq'[v].op \in {"idle", "upload", "delete"}
  BY <1>1, ReqOps
<1> QED
  BY <1>1, <1>2 DEF GalTypes

LEMMA UploadStep ==
  ASSUME GalInv, NEW w \in Uploaders, NEW i \in Pictures, NEW p \in Properties,
         Gal!Upload(w, i, p)
  PROVE  GalInv'
<1> DEFINE kept == [of |-> p, order |-> Gal!NextOrder(p)]
           r == [op |-> "upload", pic |-> i, left |-> <<"full", "thumb">>, row |-> kept]
<1>1. /\ galReq' = [galReq EXCEPT ![w] = r]
      /\ UNCHANGED <<property, unit, picture, files, dropping>>
      /\ used' = used \cup {i} /\ i \notin used /\ kept \in Gal!PictureRow
  BY DEF Gal!Upload, Gal!PictureRow
<1>2. r \in UploadReqs /\ r.pic = i /\ r.op = "upload" /\ r.left = <<"full", "thumb">>
  BY <1>1 DEF UploadReqs, Lefts
<1> HIDE DEF kept, r
<1>3. /\ galReq' \in [Uploaders -> {Gal!Idle} \cup UploadReqs \cup DeleteReqs]
      /\ galReq'[w] = r
      /\ \A v \in Uploaders : v # w => galReq'[v] = galReq[v]
      /\ \A v \in Uploaders : galReq'[v].op \in {"idle", "upload", "delete"}
  BY <1>1, <1>2, OneReq DEF GalInv
<1>4. GalTypes'
  BY <1>1, <1>3 DEF GalInv, GalTypes, Gal!GalleryTypeOK
<1>5. ~Gal!Has(picture, i) /\ i \notin dropping
  BY <1>1 DEF GalInv, GalUploads
<1>6. \A v \in Uploaders : v # w /\ Uploading(v) => galReq[v].pic # i
  BY <1>1 DEF GalInv, GalUploads
<1>7. \A v \in Uploaders : Uploading(v)' =>
        /\ galReq'[v].pic \in used' \ dropping'
        /\ ~Gal!Has(picture', galReq'[v].pic)
        /\ galReq'[v].left # <<"full", "thumb">> => <<galReq'[v].pic, "full">> \in files'
        /\ galReq'[v].left = <<>> => <<galReq'[v].pic, "thumb">> \in files'
  BY <1>1, <1>2, <1>3, <1>5 DEF GalInv, GalUploads, Uploading
<1>8. \A u, v \in Uploaders :
        Uploading(u)' /\ Uploading(v)' /\ galReq'[u].pic = galReq'[v].pic => u = v
  BY <1>2, <1>3, <1>6 DEF GalInv, GalUploads, Uploading
<1>9. \A v \in Uploaders : Deleting(v)' => galReq'[v].pic \in dropping'
  BY <1>1, <1>2, <1>3 DEF GalInv, GalUploads, Deleting
<1>10. GalUploads'
  BY <1>1, <1>7, <1>8, <1>9 DEF GalInv, GalUploads, Gal!Has
<1>11. Gal!ShownIsThere'
  BY <1>1 DEF GalInv, Gal!ShownIsThere, Gal!Has
<1> QED
  BY <1>4, <1>10, <1>11 DEF GalInv

LEMMA StoreStep ==
  ASSUME GalInv, NEW w \in Uploaders, Gal!Store(w)
  PROVE  GalInv'
<1> DEFINE pic == galReq[w].pic
           left == galReq[w].left
           r == [galReq[w] EXCEPT !.left = Tail(@)]
<1>1. /\ galReq' = [galReq EXCEPT ![w] = r] /\ Uploading(w) /\ left # <<>>
      /\ UNCHANGED <<property, unit, picture, used, dropping>>
      /\ files' = files \cup {<<pic, Head(left)>>}
  BY DEF Gal!Store, Uploading, GalInv, GalTypes
<1>2. galReq[w] \in UploadReqs /\ left \in Lefts /\ pic \in Pictures
  BY <1>1, ReqFields, ReqOps DEF GalInv
<1>3. r \in UploadReqs /\ r.pic = pic /\ r.op = "upload" /\ r.left = Tail(left)
  BY <1>1, <1>2, LeftOver DEF UploadReqs
<1> HIDE DEF r
<1>4. /\ galReq' \in [Uploaders -> {Gal!Idle} \cup UploadReqs \cup DeleteReqs]
      /\ galReq'[w] = r
      /\ \A v \in Uploaders : v # w => galReq'[v] = galReq[v]
      /\ \A v \in Uploaders : galReq'[v].op \in {"idle", "upload", "delete"}
  BY <1>1, <1>3, OneReq DEF GalInv
<1>5. files' \subseteq Pictures \X Gal!Sizes
  BY <1>1, <1>2, LeftOver DEF GalInv, GalTypes, Gal!GalleryTypeOK
<1>6. GalTypes'
  BY <1>1, <1>4, <1>5 DEF GalInv, GalTypes, Gal!GalleryTypeOK
<1>7. /\ Tail(left) # <<"full", "thumb">> /\ <<pic, "full">> \in files'
      /\ Tail(left) = <<>> => <<pic, "thumb">> \in files'
  BY <1>1, <1>2, LeftOver DEF GalInv, GalUploads
<1> HIDE DEF pic, left
<1>7a. pic \in used \ dropping /\ ~Gal!Has(picture, pic)
  BY <1>1 DEF GalInv, GalUploads, pic
<1>8. \A v \in Uploaders : Uploading(v)' =>
        /\ galReq'[v].pic \in used' \ dropping'
        /\ ~Gal!Has(picture', galReq'[v].pic)
        /\ galReq'[v].left # <<"full", "thumb">> => <<galReq'[v].pic, "full">> \in files'
        /\ galReq'[v].left = <<>> => <<galReq'[v].pic, "thumb">> \in files'
  BY <1>1, <1>3, <1>4, <1>7, <1>7a DEF GalInv, GalUploads, Uploading
<1>9. \A u, v \in Uploaders :
        Uploading(u)' /\ Uploading(v)' /\ galReq'[u].pic = galReq'[v].pic => u = v
  <2>1. \A v \in Uploaders : galReq'[v].pic = galReq[v].pic /\ Uploading(v)' = Uploading(v)
    BY <1>1, <1>3, <1>4 DEF Uploading, pic
  <2> QED
    BY <2>1 DEF GalInv, GalUploads
<1>10. \A v \in Uploaders : Deleting(v)' => galReq'[v].pic \in dropping'
  BY <1>1, <1>3, <1>4 DEF GalInv, GalUploads, Deleting
<1>11. GalUploads'
  BY <1>1, <1>8, <1>9, <1>10 DEF GalInv, GalUploads, Gal!Has
<1>12. Gal!ShownIsThere'
  BY <1>1 DEF GalInv, Gal!ShownIsThere, Gal!Has
<1> QED
  BY <1>6, <1>11, <1>12 DEF GalInv

(* Nothing is left to a worker whose request has ended.                    *)
LEMMA EndOfRequest ==
  ASSUME GalInv, NEW w \in Uploaders, galReq' = [galReq EXCEPT ![w] = Gal!Idle]
  PROVE  /\ galReq' \in [Uploaders -> {Gal!Idle} \cup UploadReqs \cup DeleteReqs]
         /\ \A v \in Uploaders : galReq'[v].op \in {"idle", "upload", "delete"}
         /\ \A v \in Uploaders : Uploading(v)' =>
              v # w /\ Uploading(v) /\ galReq'[v] = galReq[v]
         /\ \A v \in Uploaders : Deleting(v)' =>
              v # w /\ Deleting(v) /\ galReq'[v] = galReq[v]
<1>1. /\ galReq' \in [Uploaders -> {Gal!Idle} \cup UploadReqs \cup DeleteReqs]
      /\ galReq'[w] = Gal!Idle
      /\ \A v \in Uploaders : v # w => galReq'[v] = galReq[v]
      /\ \A v \in Uploaders : galReq'[v].op \in {"idle", "upload", "delete"}
  BY OneReq DEF GalInv
<1> QED
  BY <1>1, ReqOps DEF Uploading, Deleting

LEMMA SaveRowStep ==
  ASSUME GalInv, NEW w \in Uploaders, Gal!SaveRow(w)
  PROVE  GalInv'
<1> DEFINE pic == galReq[w].pic
           kept == galReq[w].row
<1>1. /\ galReq' = [galReq EXCEPT ![w] = Gal!Idle] /\ Uploading(w) /\ galReq[w].left = <<>>
      /\ UNCHANGED <<property, unit, files, used, dropping>>
      /\ picture' = [picture EXCEPT ![pic] = kept]
  BY DEF Gal!SaveRow, Uploading
<1>2. pic \in Pictures /\ kept \in Gal!PictureRow /\ kept # Gal!NoRow
  BY <1>1, ReqFields, ReqOps, GalRowsDiffer DEF GalInv
<1>3. /\ galReq' \in [Uploaders -> {Gal!Idle} \cup UploadReqs \cup DeleteReqs]
      /\ \A v \in Uploaders : galReq'[v].op \in {"idle", "upload", "delete"}
      /\ \A v \in Uploaders : Uploading(v)' =>
           v # w /\ Uploading(v) /\ galReq'[v] = galReq[v]
      /\ \A v \in Uploaders : Deleting(v)' =>
           v # w /\ Deleting(v) /\ galReq'[v] = galReq[v]
  BY <1>1, EndOfRequest
<1>4. <<pic, "full">> \in files /\ <<pic, "thumb">> \in files /\ pic \in used
  BY <1>1 DEF GalInv, GalUploads
<1>5. \A v \in Uploaders : v # w /\ Uploading(v) => galReq[v].pic # pic
  BY <1>1 DEF GalInv, GalUploads
<1> HIDE DEF pic, kept
<1>6. /\ picture' \in [Pictures -> Gal!PictureRow \cup {Gal!NoRow}]
      /\ picture'[pic] = kept
      /\ \A i \in Pictures : i # pic => picture'[i] = picture[i]
  BY <1>1, <1>2 DEF GalInv, GalTypes, Gal!GalleryTypeOK
<1>7. GalTypes'
  BY <1>1, <1>3, <1>6 DEF GalInv, GalTypes, Gal!GalleryTypeOK
<1>8. \A v \in Uploaders : Uploading(v)' =>
        /\ galReq'[v].pic \in used' \ dropping'
        /\ ~Gal!Has(picture', galReq'[v].pic)
        /\ galReq'[v].left # <<"full", "thumb">> => <<galReq'[v].pic, "full">> \in files'
        /\ galReq'[v].left = <<>> => <<galReq'[v].pic, "thumb">> \in files'
  <2>1. \A v \in Uploaders : Uploading(v)' => galReq'[v].pic \in Pictures /\ galReq'[v].pic # pic
    BY <1>3, <1>5, ReqFields, ReqOps DEF GalInv
  <2> QED
    BY <1>1, <1>3, <1>6, <2>1 DEF GalInv, GalUploads, Gal!Has
<1>9. GalUploads'
  BY <1>1, <1>2, <1>3, <1>4, <1>6, <1>8 DEF GalInv, GalUploads, Gal!Has
<1>10. Gal!ShownIsThere'
  <2>1. \A i \in Pictures : Gal!Has(picture', i) /\ i \notin dropping =>
          {i} \X Gal!Sizes \subseteq files
    BY <1>4, <1>6 DEF GalInv, Gal!ShownIsThere, Gal!Has, Gal!Sizes
  <2>2. \A i \in Pictures : Gal!Has(picture, i) => Gal!Has(picture', i)
    BY <1>2, <1>6 DEF Gal!Has
  <2>3. \A u \in Flats : Gal!Has(unit, u) /\ unit[u].plan # Gal!NoPicture =>
          unit[u].plan \in Pictures
    BY UnitFields DEF GalInv, GalTypes, Gal!UnitRow
  <2>4. \A u \in Flats : Gal!Has(unit, u) /\ unit[u].plan # Gal!NoPicture =>
          Gal!Has(picture', unit[u].plan)
    BY <2>2, <2>3 DEF GalInv, Gal!ShownIsThere
  <2> QED
    BY <1>1, <2>1, <2>4 DEF Gal!ShownIsThere, Gal!Has
<1> QED
  BY <1>7, <1>9, <1>10 DEF GalInv

LEMMA DeleteStep ==
  ASSUME GalInv, NEW w \in Uploaders, NEW i \in Pictures, Gal!Delete(w, i)
  PROVE  GalInv'
<1> DEFINE r == [op |-> "delete", pic |-> i, left |-> <<"full", "thumb">>]
<1>1. /\ galReq' = [galReq EXCEPT ![w] = r]
      /\ UNCHANGED <<property, unit, picture, files, used>>
      /\ dropping' = dropping \cup {i} /\ Gal!Has(picture, i)
  BY DEF Gal!Delete
<1>2. r \in DeleteReqs /\ r.pic = i /\ r.op = "delete"
  BY DEF DeleteReqs, Lefts
<1> HIDE DEF r
<1>3. /\ galReq' \in [Uploaders -> {Gal!Idle} \cup UploadReqs \cup DeleteReqs]
      /\ galReq'[w] = r
      /\ \A v \in Uploaders : v # w => galReq'[v] = galReq[v]
      /\ \A v \in Uploaders : galReq'[v].op \in {"idle", "upload", "delete"}
  BY <1>1, <1>2, OneReq DEF GalInv
<1>4. GalTypes'
  BY <1>1, <1>3 DEF GalInv, GalTypes, Gal!GalleryTypeOK
<1>5. i \in used
  BY <1>1 DEF GalInv, GalUploads
<1>6. \A v \in Uploaders : Uploading(v)' =>
        v # w /\ Uploading(v) /\ galReq'[v] = galReq[v] /\ galReq[v].pic # i
  BY <1>1, <1>2, <1>3 DEF GalInv, GalUploads, Uploading
<1>7. \A v \in Uploaders : Uploading(v)' =>
        /\ galReq'[v].pic \in used' \ dropping'
        /\ ~Gal!Has(picture', galReq'[v].pic)
        /\ galReq'[v].left # <<"full", "thumb">> => <<galReq'[v].pic, "full">> \in files'
        /\ galReq'[v].left = <<>> => <<galReq'[v].pic, "thumb">> \in files'
  BY <1>1, <1>6 DEF GalInv, GalUploads
<1>8. \A v \in Uploaders : Deleting(v)' => galReq'[v].pic \in dropping'
  BY <1>1, <1>2, <1>3 DEF GalInv, GalUploads, Deleting
<1>9. GalUploads'
  BY <1>1, <1>5, <1>6, <1>7, <1>8 DEF GalInv, GalUploads, Gal!Has
<1>10. Gal!ShownIsThere'
  BY <1>1 DEF GalInv, Gal!ShownIsThere, Gal!Has
<1> QED
  BY <1>4, <1>9, <1>10 DEF GalInv

LEMMA UnlinkStep ==
  ASSUME GalInv, NEW w \in Uploaders, Gal!Unlink(w)
  PROVE  GalInv'
<1> DEFINE pic == galReq[w].pic
           left == galReq[w].left
           r == [galReq[w] EXCEPT !.left = Tail(@)]
<1>1. /\ galReq' = [galReq EXCEPT ![w] = r] /\ Deleting(w) /\ left # <<>>
      /\ UNCHANGED <<property, unit, picture, used, dropping>>
      /\ files' = files \ {<<pic, Head(left)>>}
  BY DEF Gal!Unlink, Deleting, GalInv, GalTypes
<1>2. galReq[w] \in DeleteReqs /\ left \in Lefts /\ pic \in Pictures
  BY <1>1, ReqFields, ReqOps DEF GalInv
<1>3. r \in DeleteReqs /\ r.pic = pic /\ r.op = "delete"
  BY <1>1, <1>2, LeftOver DEF DeleteReqs
<1> HIDE DEF r
<1>4. /\ galReq' \in [Uploaders -> {Gal!Idle} \cup UploadReqs \cup DeleteReqs]
      /\ galReq'[w] = r
      /\ \A v \in Uploaders : v # w => galReq'[v] = galReq[v]
      /\ \A v \in Uploaders : galReq'[v].op \in {"idle", "upload", "delete"}
  BY <1>1, <1>3, OneReq DEF GalInv
<1>5. GalTypes'
  BY <1>1, <1>4 DEF GalInv, GalTypes, Gal!GalleryTypeOK
<1>6. pic \in dropping
  BY <1>1 DEF GalInv, GalUploads
<1>7. \A v \in Uploaders : Uploading(v)' =>
        v # w /\ Uploading(v) /\ galReq'[v] = galReq[v] /\ galReq[v].pic # pic
  BY <1>3, <1>4, <1>6 DEF GalInv, GalUploads, Uploading
<1> HIDE DEF pic, left
<1>8. \A v \in Uploaders : Uploading(v)' =>
        /\ galReq'[v].pic \in used' \ dropping'
        /\ ~Gal!Has(picture', galReq'[v].pic)
        /\ galReq'[v].left # <<"full", "thumb">> => <<galReq'[v].pic, "full">> \in files'
        /\ galReq'[v].left = <<>> => <<galReq'[v].pic, "thumb">> \in files'
  BY <1>1, <1>7 DEF GalInv, GalUploads
<1>9. \A v \in Uploaders : Deleting(v)' => galReq'[v].pic \in dropping'
  BY <1>1, <1>3, <1>4, <1>6 DEF GalInv, GalUploads, Deleting
<1>10. GalUploads'
  BY <1>1, <1>7, <1>8, <1>9 DEF GalInv, GalUploads, Gal!Has
<1>11. Gal!ShownIsThere'
  <2>1. \A i \in Pictures : Gal!Has(picture, i) /\ i \notin dropping =>
          {i} \X Gal!Sizes \subseteq files'
    BY <1>1, <1>6 DEF GalInv, Gal!ShownIsThere
  <2> QED
    BY <1>1, <2>1 DEF GalInv, Gal!ShownIsThere, Gal!Has
<1> QED
  BY <1>5, <1>10, <1>11 DEF GalInv

LEMMA DropRowStep ==
  ASSUME GalInv, NEW w \in Uploaders, Gal!DropRow(w)
  PROVE  GalInv'
<1> DEFINE pic == galReq[w].pic
<1>1. /\ galReq' = [galReq EXCEPT ![w] = Gal!Idle] /\ Deleting(w)
      /\ UNCHANGED <<property, files, used, dropping>>
      /\ picture' = [picture EXCEPT ![pic] = Gal!NoRow]
      /\ unit' = [u \in Flats |->
           IF Gal!Has(unit, u) /\ unit[u].plan = pic
           THEN [unit[u] EXCEPT !.plan = Gal!NoPicture] ELSE unit[u]]
  BY DEF Gal!DropRow, Deleting
<1>2. pic \in Pictures
  BY <1>1, ReqFields, ReqOps DEF GalInv
<1>3. /\ galReq' \in [Uploaders -> {Gal!Idle} \cup UploadReqs \cup DeleteReqs]
      /\ \A v \in Uploaders : galReq'[v].op \in {"idle", "upload", "delete"}
      /\ \A v \in Uploaders : Uploading(v)' =>
           v # w /\ Uploading(v) /\ galReq'[v] = galReq[v]
      /\ \A v \in Uploaders : Deleting(v)' =>
           v # w /\ Deleting(v) /\ galReq'[v] = galReq[v]
  BY <1>1, EndOfRequest
<1> HIDE DEF pic
<1>4. /\ picture' \in [Pictures -> Gal!PictureRow \cup {Gal!NoRow}]
      /\ picture'[pic] = Gal!NoRow
      /\ \A i \in Pictures : i # pic => picture'[i] = picture[i]
  BY <1>1, <1>2 DEF GalInv, GalTypes, Gal!GalleryTypeOK
<1>5. ASSUME NEW u \in Flats
      PROVE  /\ unit'[u] \in Gal!UnitRow \cup {Gal!NoRow}
             /\ Gal!Has(unit', u) => /\ Gal!Has(unit, u)
                                     /\ \/ unit'[u].plan = Gal!NoPicture
                                        \/ unit'[u] = unit[u] /\ unit[u].plan # pic
  <2>1. CASE Gal!Has(unit, u) /\ unit[u].plan = pic
    <3>1. unit[u] \in Gal!UnitRow /\ unit'[u] = [unit[u] EXCEPT !.plan = Gal!NoPicture]
      BY <1>1, <2>1, UnitFields DEF GalInv, GalTypes
    <3>2. unit'[u] \in Gal!UnitRow /\ unit'[u].plan = Gal!NoPicture
      BY <3>1 DEF Gal!UnitRow
    <3> QED
      BY <2>1, <3>2
  <2>2. CASE ~(Gal!Has(unit, u) /\ unit[u].plan = pic)
    BY <1>1, <2>2 DEF GalInv, GalTypes, Gal!GalleryTypeOK, Gal!Has
  <2> QED
    BY <2>1, <2>2
<1>6. unit' \in [Flats -> Gal!UnitRow \cup {Gal!NoRow}]
  BY <1>1, <1>5
<1>7. GalTypes'
  BY <1>1, <1>3, <1>4, <1>6 DEF GalInv, GalTypes, Gal!GalleryTypeOK
<1>8. \A i \in Pictures : Gal!Has(picture', i) <=> Gal!Has(picture, i) /\ i # pic
  BY <1>4 DEF Gal!Has
<1>9. \A v \in Uploaders : Uploading(v)' =>
        /\ galReq'[v].pic \in used' \ dropping'
        /\ ~Gal!Has(picture', galReq'[v].pic)
        /\ galReq'[v].left # <<"full", "thumb">> => <<galReq'[v].pic, "full">> \in files'
        /\ galReq'[v].left = <<>> => <<galReq'[v].pic, "thumb">> \in files'
  <2>1. \A v \in Uploaders : Uploading(v) => galReq[v].pic \in Pictures
    BY ReqFields, ReqOps DEF GalInv
  <2> QED
    BY <1>1, <1>3, <1>8, <2>1 DEF GalInv, GalUploads
<1>10. GalUploads'
  BY <1>1, <1>3, <1>8, <1>9 DEF GalInv, GalUploads, Gal!Has
<1>11. Gal!ShownIsThere'
  <2>1. \A i \in Pictures : Gal!Has(picture', i) /\ i \notin dropping =>
          {i} \X Gal!Sizes \subseteq files
    BY <1>8 DEF GalInv, Gal!ShownIsThere
  <2>2. ASSUME NEW u \in Flats, Gal!Has(unit', u), unit'[u].plan # Gal!NoPicture
        PROVE  Gal!Has(picture', unit'[u].plan)
    <3>1. Gal!Has(unit, u) /\ unit'[u] = unit[u] /\ unit[u].plan # pic
      BY <1>5, <2>2
    <3>2. unit[u].plan \in Pictures /\ Gal!Has(picture, unit[u].plan)
      BY <2>2, <3>1, UnitFields DEF GalInv, GalTypes, Gal!ShownIsThere, Gal!UnitRow
    <3> QED
      BY <1>8, <3>1, <3>2
  <2> QED
    BY <1>1, <2>1, <2>2 DEF Gal!ShownIsThere, Gal!Has
<1> QED
  BY <1>7, <1>10, <1>11 DEF GalInv

LEMMA StopStep ==
  ASSUME GalInv, NEW w \in Uploaders, Gal!Stop(w)
  PROVE  GalInv'
<1>1. /\ galReq' = [galReq EXCEPT ![w] = Gal!Idle]
      /\ UNCHANGED <<property, unit, picture, files, used, dropping>>
  BY DEF Gal!Stop
<1>2. /\ galReq' \in [Uploaders -> {Gal!Idle} \cup UploadReqs \cup DeleteReqs]
      /\ \A v \in Uploaders : galReq'[v].op \in {"idle", "upload", "delete"}
      /\ \A v \in Uploaders : Uploading(v)' =>
           v # w /\ Uploading(v) /\ galReq'[v] = galReq[v]
      /\ \A v \in Uploaders : Deleting(v)' =>
           v # w /\ Deleting(v) /\ galReq'[v] = galReq[v]
  BY <1>1, EndOfRequest
<1>3. GalTypes'
  BY <1>1, <1>2 DEF GalInv, GalTypes, Gal!GalleryTypeOK
<1>4. GalUploads'
  BY <1>1, <1>2 DEF GalInv, GalUploads, Gal!Has
<1>5. Gal!ShownIsThere'
  BY <1>1 DEF GalInv, Gal!ShownIsThere, Gal!Has
<1> QED
  BY <1>3, <1>4, <1>5 DEF GalInv

(* Rows and requests stay: units, properties and orders may change.        *)
LEMMA PagesKeep ==
  ASSUME GalInv, UNCHANGED <<files, used, dropping, galReq>>, Gal!GalleryTypeOK',
         \A i \in Pictures : Gal!Has(picture', i) <=> Gal!Has(picture, i),
         \A u \in Flats : Gal!Has(unit', u) /\ unit'[u].plan # Gal!NoPicture =>
           Gal!Has(picture, unit'[u].plan)
  PROVE  GalInv'
<1>1. GalTypes'
  BY DEF GalInv, GalTypes
<1>2. \A w \in Uploaders : Uploading(w) => galReq[w].pic \in Pictures
  BY ReqFields, ReqOps DEF GalInv
<1>3. GalUploads'
  BY <1>2 DEF GalInv, GalUploads, Uploading, Deleting
<1>4. \A u \in Flats : Gal!Has(unit', u) /\ unit'[u].plan # Gal!NoPicture =>
        unit'[u].plan \in Pictures
  BY GalRowsDiffer DEF Gal!GalleryTypeOK, Gal!Has, Gal!UnitRow
<1>5. Gal!ShownIsThere'
  BY <1>4 DEF GalInv, Gal!ShownIsThere
<1> QED
  BY <1>1, <1>3, <1>5 DEF GalInv

(* Whatever page sends it, a list names the pictures of the property.      *)
Arranged(p, list) ==
  DOMAIN list = 1 .. Cardinality(Gal!Of(p)) /\ Gal!Reorder(p, list)

LEMMA ListsArrange ==
  ASSUME NEW p \in Properties,
         \/ \E i \in Pictures : Gal!SetCover(p, i) \/ Gal!MoveUp(p, i) \/ Gal!MoveDown(p, i)
         \/ \E list \in Gal!TupleOf(Gal!Of(p), Gal!Cardinality(Gal!Of(p))) :
              list # <<>> /\ Gal!Reorder(p, list)
  PROVE  \E list : Arranged(p, list)
<1> DEFINE n == Cardinality(Gal!Of(p))
<1>1. \A list \in Gal!TupleOf(Gal!Of(p), Gal!Cardinality(Gal!Of(p))) : DOMAIN list = 1 .. n
  BY SameSizes DEF Gal!TupleOf
<1>2. \A list \in Gal!Listings(p) : DOMAIN list = 1 .. n
  BY <1>1 DEF Gal!Listings
<1> HIDE DEF n
<1>3. ASSUME NEW i \in Pictures, Gal!SetCover(p, i) PROVE \E list : Arranged(p, list)
  <2>1. PICK list \in Gal!Listings(p) : \E k : Gal!Reorder(p, Gal!ToFront(list, k))
    BY <1>3 DEF Gal!SetCover
  <2>2. PICK k : Gal!Reorder(p, Gal!ToFront(list, k))
    BY <2>1
  <2>3. DOMAIN Gal!ToFront(list, k) = 1 .. n
    BY <1>2 DEF Gal!ToFront
  <2> QED
    BY <2>2, <2>3 DEF Arranged, n
<1>4. ASSUME NEW i \in Pictures, Gal!MoveUp(p, i) \/ Gal!MoveDown(p, i)
      PROVE  \E list : Arranged(p, list)
  <2>1. PICK list \in Gal!Listings(p) : \E k : Gal!Reorder(p, Gal!Swapped(list, k))
    BY <1>4 DEF Gal!MoveUp, Gal!MoveDown
  <2>2. PICK k : Gal!Reorder(p, Gal!Swapped(list, k))
    BY <2>1
  <2>3. DOMAIN Gal!Swapped(list, k) = 1 .. n
    BY <1>2 DEF Gal!Swapped
  <2> QED
    BY <2>2, <2>3 DEF Arranged, n
<1> QED
  BY <1>1, <1>3, <1>4 DEF Arranged, n

LEMMA ArrangedRows ==
  ASSUME GalTypes, NEW p \in Properties, NEW list, Arranged(p, list)
  PROVE  /\ UNCHANGED <<property, unit, files, used, dropping, galReq>>
         /\ Gal!GalleryTypeOK'
         /\ \A i \in Pictures : /\ Gal!Has(picture', i) <=> Gal!Has(picture, i)
                                /\ picture'[i].of = picture[i].of
         /\ \A i \in Pictures \ Gal!Of(p) : picture'[i] = picture[i]
         /\ \A i \in Gal!Of(p) : /\ picture'[i].order \in 1 .. Cardinality(Gal!Of(p))
                                 /\ list[picture'[i].order] = i
<1> DEFINE n == Cardinality(Gal!Of(p))
<1>1. /\ UNCHANGED <<property, unit, files, used, dropping, galReq>>
      /\ Gal!ToSet(list) = Gal!Of(p) /\ DOMAIN list = 1 .. n
      /\ picture' = [i \in Pictures |->
           IF i \in Gal!Of(p) THEN [picture[i] EXCEPT !.order = Gal!Place(list, i)]
           ELSE picture[i]]
  BY DEF Arranged, Gal!Reorder
<1>2. n \in Nat /\ n <= Cardinality(Pictures)
  BY OfSizes
<1> HIDE DEF n
<1>3. ASSUME NEW i \in Gal!Of(p)
      PROVE  Gal!Place(list, i) \in 1 .. n /\ list[Gal!Place(list, i)] = i
  <2>1. \E k \in 1 .. n : list[k] = i
    BY <1>1 DEF Gal!ToSet
  <2> QED
    BY <1>1, <1>2, <2>1, PlaceIsThere
<1>4. ASSUME NEW i \in Gal!Of(p)
      PROVE  /\ i \in Pictures /\ Gal!Has(picture, i) /\ picture[i] \in Gal!PictureRow
             /\ picture'[i] \in Gal!PictureRow /\ picture'[i].of = picture[i].of
             /\ picture'[i].order = Gal!Place(list, i)
  <2>1. i \in Pictures /\ Gal!Has(picture, i) /\ picture[i] \in Gal!PictureRow
    BY PictureFields DEF GalTypes, Gal!Of
  <2>2. Gal!Place(list, i) \in Gal!Orders
    BY <1>2, <1>3, GalSizes
  <2>3. picture'[i] = [picture[i] EXCEPT !.order = Gal!Place(list, i)]
    BY <1>1, <2>1
  <2> QED
    BY <2>1, <2>2, <2>3 DEF Gal!PictureRow
<1>5. \A i \in Pictures \ Gal!Of(p) : picture'[i] = picture[i]
  BY <1>1
<1>6. picture' \in [Pictures -> Gal!PictureRow \cup {Gal!NoRow}]
  <2>1. \A i \in Pictures : picture'[i] \in Gal!PictureRow \cup {Gal!NoRow}
    BY <1>4, <1>5 DEF GalTypes, Gal!GalleryTypeOK
  <2> QED
    BY <1>1, <2>1
<1>7. Gal!GalleryTypeOK'
  BY <1>1, <1>6 DEF GalTypes, Gal!GalleryTypeOK
<1>8. \A i \in Pictures : /\ Gal!Has(picture', i) <=> Gal!Has(picture, i)
                          /\ picture'[i].of = picture[i].of
  BY <1>4, <1>5, GalRowsDiffer DEF Gal!Has
<1> QED
  BY <1>1, <1>3, <1>4, <1>5, <1>7, <1>8 DEF n

LEMMA SaveUnitRows ==
  ASSUME GalInv, NEW u \in Flats, NEW p \in Properties,
         NEW plan \in Pictures \cup {Gal!NoPicture}, Gal!SaveUnit(u, p, plan)
  PROVE  GalInv'
<1> DEFINE kept == [of |-> p, plan |-> plan]
<1>1. /\ UNCHANGED <<property, picture, files, used, dropping, galReq>>
      /\ unit' = [unit EXCEPT ![u] = kept] /\ kept \in Gal!UnitRow
      /\ plan = Gal!NoPicture \/ (plan \in Pictures /\ Gal!Has(picture, plan))
      /\ kept.plan = plan
  BY DEF Gal!SaveUnit, Gal!gallery, Gal!UnitRow
<1> HIDE DEF kept
<1>2. /\ unit' \in [Flats -> Gal!UnitRow \cup {Gal!NoRow}]
      /\ unit'[u] = kept /\ \A v \in Flats : v # u => unit'[v] = unit[v]
  BY <1>1 DEF GalInv, GalTypes, Gal!GalleryTypeOK
<1>3. Gal!GalleryTypeOK'
  BY <1>1, <1>2 DEF GalInv, GalTypes, Gal!GalleryTypeOK
<1>4. \A v \in Flats : Gal!Has(unit', v) /\ unit'[v].plan # Gal!NoPicture =>
        Gal!Has(picture, unit'[v].plan)
  BY <1>1, <1>2 DEF GalInv, Gal!ShownIsThere, Gal!Has
<1> QED
  BY <1>1, <1>3, <1>4, PagesKeep DEF Gal!Has

LEMMA NewPropertyRows ==
  ASSUME GalInv, NEW p \in Properties, Gal!CreateProperty(p)
  PROVE  GalInv'
<1>1. /\ UNCHANGED <<unit, picture, files, used, dropping, galReq>>
      /\ property' = property \cup {p}
  BY DEF Gal!CreateProperty, Gal!gallery
<1>2. Gal!GalleryTypeOK'
  BY <1>1 DEF GalInv, GalTypes, Gal!GalleryTypeOK
<1>3. \A v \in Flats : Gal!Has(unit', v) /\ unit'[v].plan # Gal!NoPicture =>
        Gal!Has(picture, unit'[v].plan)
  BY <1>1 DEF GalInv, Gal!ShownIsThere, Gal!Has
<1> QED
  BY <1>1, <1>2, <1>3, PagesKeep DEF Gal!Has

LEMMA ArrangedKeeps ==
  ASSUME GalInv, NEW p \in Properties, NEW list, Arranged(p, list)
  PROVE  GalInv'
<1>1. /\ UNCHANGED <<property, unit, files, used, dropping, galReq>>
      /\ Gal!GalleryTypeOK'
      /\ \A i \in Pictures : Gal!Has(picture', i) <=> Gal!Has(picture, i)
  BY ArrangedRows DEF GalInv
<1>2. \A v \in Flats : Gal!Has(unit', v) /\ unit'[v].plan # Gal!NoPicture =>
        Gal!Has(picture, unit'[v].plan)
  BY <1>1 DEF GalInv, Gal!ShownIsThere, Gal!Has
<1> QED
  BY <1>1, <1>2, PagesKeep

(* The steps of the galleries, one by one.                                 *)
LEMMA GalActions ==
  ASSUME Gal!Next
  PROVE  \/ \E p \in Properties : Gal!CreateProperty(p)
         \/ \E u \in Flats, p \in Properties, plan \in Pictures \cup {Gal!NoPicture} :
              Gal!SaveUnit(u, p, plan)
         \/ \E w \in Uploaders, i \in Pictures : Gal!Delete(w, i)
         \/ \E w \in Uploaders, i \in Pictures, p \in Properties : Gal!Upload(w, i, p)
         \/ \E p \in Properties : \E list : Arranged(p, list)
         \/ \E w \in Uploaders : \/ Gal!Store(w) \/ Gal!SaveRow(w) \/ Gal!Unlink(w)
                                 \/ Gal!DropRow(w) \/ Gal!Stop(w)
<1>1. CASE Gal!GalleryPages
  BY <1>1, ListsArrange DEF Gal!GalleryPages
<1>2. CASE Gal!PropertyApi
  BY <1>2 DEF Gal!PropertyApi, Gal!NewPropertyPage
<1> QED
  BY <1>1, <1>2 DEF Gal!Next, Gal!NewPropertyPage, Gal!UnitForms

LEMMA GalStep ==
  ASSUME GalInv, Gal!Next \/ UNCHANGED galVars
  PROVE  GalInv'
<1>1. CASE UNCHANGED galVars
  <2>1. UNCHANGED <<property, unit, picture, files, used, dropping, galReq>>
    BY <1>1 DEF galVars
  <2>2. GalTypes'
    BY <2>1 DEF GalInv, GalTypes, Gal!GalleryTypeOK
  <2>3. GalUploads'
    BY <2>1 DEF GalInv, GalUploads, Gal!Has, Uploading, Deleting
  <2>4. Gal!ShownIsThere'
    BY <2>1 DEF GalInv, Gal!ShownIsThere, Gal!Has
  <2> QED
    BY <2>2, <2>3, <2>4 DEF GalInv
<1>2. CASE Gal!Next
  BY <1>2, GalActions, NewPropertyRows, SaveUnitRows, DeleteStep, UploadStep, ArrangedKeeps,
     StoreStep, SaveRowStep, UnlinkStep, DropRowStep, StopStep
<1> QED
  BY <1>1, <1>2

LEMMA GalInit == Gal!Init => GalInv
<1> SUFFICES ASSUME Gal!Init PROVE GalInv
  OBVIOUS
<1>1. GalTypes
  BY ReqOps DEF Gal!Init, GalTypes, Gal!GalleryTypeOK
<1>2. GalUploads
  BY ReqOps DEF Gal!Init, GalUploads, Gal!Has, Uploading, Deleting
<1>3. Gal!ShownIsThere
  BY DEF Gal!Init, Gal!ShownIsThere, Gal!Has
<1> QED
  BY <1>1, <1>2, <1>3 DEF GalInv

(* Settings.  What may be stored for each type.                            *)
Stored == [string |-> Set!Texts, int |-> {"0", "7"}, bool |-> {"true", "false"},
           json |-> {"0", "7", "7.0", "0.0", "true", "false", Set!Null} \cup Set!Quoted,
           decimal |-> {"0.00", "7.00"}]

AllTypes == {"string", "int", "bool", "json", "decimal"}

(* A stored value as it is shown.                                          *)
Decoded(value, type) == IF value = Set!Null THEN Set!Empty(type) ELSE value

RowsAreSound ==
  \A k \in Keys : Set!Exists(k) => setting[k].value \in Stored[setting[k].type]

(* A secret JSON string, revealed without its quotes.                      *)
BareForm(f) == f.secret /\ f.type = "json" /\ f.was \in Set!Quoted

(* What a form holds is nothing, for a secret; or no value of its type; or *)
(* a bare string; or decodes to what it showed.                            *)
FormIsSound(f) ==
  \/ BareForm(f)
  \/ f.secret /\ f.text = Set!Blank
  \/ Set!Saved(f.text, f.type) = Set!Refused
  \/ Decoded(Set!Saved(f.text, f.type), f.type) = f.was

FormsAreSound ==
  \A t \in Tabs : page[t] # Set!NoForm => Set!Exists(page[t].key) /\ FormIsSound(page[t])

SetInv ==
  Set!SettingsTypeOK /\ RowsAreSound /\ FormsAreSound /\ Set!SavedAsShown

(* An empty field is none of the texts.                                    *)
LEMMA BlankIsNone ==
  \A x : x = Set!Blank =>
    x \notin {"'7'", "'true'", "'yes'", "0", "7", "7.0", "0.0", "0.00", "7.00", "yes", "true", "false", "True",
              "False", "null", "NULL", "refused", "none"}
  BY Zenon DEF Set!Blank

LEMMA SetConstants ==
  /\ Types \subseteq AllTypes /\ Theme \in Keys /\ Seeds \subseteq Keys
  /\ Typed \subseteq Set!Texts /\ "string" \in Types
  BY Assumptions DEF Set!SettingsAssumption, AllTypes

(* Numbers, CHOOSE apart.                                                  *)
LEMMA SavedNumber ==
  ASSUME NEW type \in {"int", "json", "decimal"}, NEW text
  PROVE  \/ Set!Saved(text, type) = Set!Refused
         \/ \E p \in Set!Numbers[type] : p[1] = text /\ p[2] = Set!Saved(text, type)
<1>1. Set!Saved(text, type) =
        IF \E p \in Set!Numbers[type] : p[1] = text
        THEN (CHOOSE p \in Set!Numbers[type] : p[1] = text)[2] ELSE Set!Refused
  BY DEF Set!Saved
<1>2. CASE \E p \in Set!Numbers[type] : p[1] = text
  <2> DEFINE q == CHOOSE p \in Set!Numbers[type] : p[1] = text
  <2>1. q \in Set!Numbers[type] /\ q[1] = text
    BY <1>2
  <2>2. Set!Saved(text, type) = q[2]
    BY <1>1, <1>2
  <2> QED
    BY <2>1, <2>2
<1> QED
  BY <1>1, <1>2

LEMMA NumbersAre ==
  /\ Set!Numbers["int"] = {<<"0", "0">>, <<"7", "7">>, <<Set!Blank, "0">>}
  /\ Set!Numbers["json"] =
       {<<"0", "0">>, <<"7", "7">>, <<"7.0", "7.0">>,
        <<"7.00", "7.0">>, <<"0.0", "0.0">>, <<"0.00", "0.0">>, <<"true", "true">>,
        <<"false", "false">>, <<"null", Set!Null>>, <<Set!Blank, Set!Null>>}
       \cup {<<q, q>> : q \in Set!Quoted}
  /\ Set!Numbers["decimal"] =
       {<<"0", "0.00">>, <<"7", "7.00">>, <<"7.0", "7.00">>,
        <<"7.00", "7.00">>, <<"0.0", "0.00">>, <<"0.00", "0.00">>}
  BY DEF Set!Numbers

(* The pairs, spelled out.                                                 *)
LEMMA SavedTable ==
  ASSUME NEW text
  PROVE  /\ LET v == Set!Saved(text, "int") IN
              \/ v = Set!Refused \/ (text = "0" /\ v = "0") \/ (text = "7" /\ v = "7")
              \/ text = Set!Blank /\ v = "0"
         /\ LET v == Set!Saved(text, "json") IN
              \/ v = Set!Refused
              \/ text \in {"0", "7", "7.0", "0.0", "true", "false"} \cup Set!Quoted /\ v = text
              \/ (text = "7.00" /\ v = "7.0") \/ (text = "0.00" /\ v = "0.0")
              \/ text \in {"null", Set!Blank} /\ v = Set!Null
         /\ LET v == Set!Saved(text, "decimal") IN
              \/ v = Set!Refused
              \/ text \in {"0", "0.0", "0.00"} /\ v = "0.00"
              \/ text \in {"7", "7.0", "7.00"} /\ v = "7.00"
<1>1. LET v == Set!Saved(text, "int") IN
        \/ v = Set!Refused \/ (text = "0" /\ v = "0") \/ (text = "7" /\ v = "7")
        \/ text = Set!Blank /\ v = "0"
  <2>1. \/ Set!Saved(text, "int") = Set!Refused
        \/ \E p \in Set!Numbers["int"] : p[1] = text /\ p[2] = Set!Saved(text, "int")
    BY SavedNumber
  <2>2. ASSUME NEW p \in Set!Numbers["int"], p[1] = text, p[2] = Set!Saved(text, "int")
        PROVE  \/ (text = "0" /\ p[2] = "0") \/ (text = "7" /\ p[2] = "7")
               \/ text = Set!Blank /\ p[2] = "0"
    <3>1. p \in {<<"0", "0">>, <<"7", "7">>, <<Set!Blank, "0">>}
      BY NumbersAre
    <3> QED
      BY <2>2, <3>1
  <2> QED
    BY <2>1, <2>2
<1>2. LET v == Set!Saved(text, "json") IN
        \/ v = Set!Refused
        \/ text \in {"0", "7", "7.0", "0.0", "true", "false"} \cup Set!Quoted /\ v = text
        \/ (text = "7.00" /\ v = "7.0") \/ (text = "0.00" /\ v = "0.0")
        \/ text \in {"null", Set!Blank} /\ v = Set!Null
  <2>1. \/ Set!Saved(text, "json") = Set!Refused
        \/ \E p \in Set!Numbers["json"] : p[1] = text /\ p[2] = Set!Saved(text, "json")
    BY SavedNumber
  <2>2. ASSUME NEW p \in Set!Numbers["json"], p[1] = text, p[2] = Set!Saved(text, "json")
        PROVE  \/ text \in {"0", "7", "7.0", "0.0", "true", "false"} \cup Set!Quoted
                    /\ p[2] = text
               \/ (text = "7.00" /\ p[2] = "7.0") \/ (text = "0.00" /\ p[2] = "0.0")
               \/ text \in {"null", Set!Blank} /\ p[2] = Set!Null
    <3>1. p \in {<<"0", "0">>, <<"7", "7">>, <<"7.0", "7.0">>,
                 <<"7.00", "7.0">>, <<"0.0", "0.0">>, <<"0.00", "0.0">>,
                 <<"true", "true">>, <<"false", "false">>, <<"null", Set!Null>>,
                 <<Set!Blank, Set!Null>>}
          \/ \E q \in Set!Quoted : p = <<q, q>>
      BY NumbersAre
    <3> QED
      BY <2>2, <3>1
  <2> QED
    BY <2>1, <2>2
<1>3. LET v == Set!Saved(text, "decimal") IN
        \/ v = Set!Refused
        \/ text \in {"0", "0.0", "0.00"} /\ v = "0.00"
        \/ text \in {"7", "7.0", "7.00"} /\ v = "7.00"
  <2>1. \/ Set!Saved(text, "decimal") = Set!Refused
        \/ \E p \in Set!Numbers["decimal"] : p[1] = text /\ p[2] = Set!Saved(text, "decimal")
    BY SavedNumber
  <2>2. ASSUME NEW p \in Set!Numbers["decimal"], p[1] = text, p[2] = Set!Saved(text, "decimal")
        PROVE  \/ text \in {"0", "0.0", "0.00"} /\ p[2] = "0.00"
               \/ text \in {"7", "7.0", "7.00"} /\ p[2] = "7.00"
    <3>1. p \in {<<"0", "0.00">>, <<"7", "7.00">>, <<"7.0", "7.00">>,
                 <<"7.00", "7.00">>, <<"0.0", "0.00">>, <<"0.00", "0.00">>}
      BY NumbersAre
    <3> QED
      BY <2>2, <3>1
  <2> QED
    BY <2>1, <2>2
<1> QED
  BY <1>1, <1>2, <1>3

LEMMA StoredAre ==
  /\ Stored["string"] = Set!Texts /\ Stored["int"] = {"0", "7"}
  /\ Stored["bool"] = {"true", "false"} /\ Stored["decimal"] = {"0.00", "7.00"}
  /\ Stored["json"] = {"0", "7", "7.0", "0.0", "true", "false", Set!Null} \cup Set!Quoted
  BY DEF Stored

(* What is saved may be stored.                                            *)
LEMMA SavedIsStored ==
  ASSUME NEW type \in AllTypes, NEW text \in Set!Texts,
         Set!Saved(text, type) # Set!Refused
  PROVE  Set!Saved(text, type) \in Stored[type]
<1>1. CASE type = "string"
  BY <1>1, StoredAre DEF Set!Saved
<1>2. CASE type = "bool"
  BY <1>2, StoredAre DEF Set!Saved
<1>3. CASE type = "int"
  BY <1>3, SavedTable, BlankIsNone, StoredAre
<1>4. CASE type = "json"
  BY <1>4, SavedTable, BlankIsNone, StoredAre DEF Set!Quoted
<1>5. CASE type = "decimal"
  BY <1>5, SavedTable, BlankIsNone, StoredAre
<1> QED
  BY <1>1, <1>2, <1>3, <1>4, <1>5 DEF AllTypes

(* What is stored is a text or NULL, and never what is refused.            *)
LEMMA StoredIsText ==
  ASSUME NEW type \in AllTypes, NEW value \in Stored[type]
  PROVE  /\ value \in Set!Texts \cup {Set!Null} /\ value # Set!Refused
         /\ value = Set!Null => type = "json"
         /\ Decoded(value, type) \in Set!Texts
<1>1. value \in Set!Texts \cup {Set!Null} /\ (value = Set!Null => type = "json")
  BY StoredAre, BlankIsNone DEF AllTypes, Set!Texts, Set!Quoted, Set!Null
<1>2. value # Set!Refused
  BY <1>1, BlankIsNone DEF Set!Texts, Set!Quoted, Set!Null, Set!Refused
<1>3. Set!Empty("json") \in Set!Texts
  BY DEF Set!Empty, Set!Texts
<1> QED
  BY <1>1, <1>2, <1>3 DEF Decoded

(* A stored value, shown and saved, is what it was.                        *)
LEMMA ShownIsSaved ==
  ASSUME NEW type \in AllTypes, NEW value \in Stored[type]
  PROVE  \/ Set!Saved(Decoded(value, type), type) = Set!Refused
         \/ Set!Saved(Decoded(value, type), type) = value
<1>1. CASE type = "string"
  BY <1>1, StoredIsText DEF Set!Saved, Decoded
<1>2. CASE type = "bool"
  BY <1>2, StoredAre DEF Set!Saved, Decoded, Set!Null
<1>3. CASE type = "int"
  BY <1>3, SavedTable, BlankIsNone, StoredAre DEF Decoded, Set!Null
<1>4. CASE type = "json"
  <2>1. Set!Empty("json") = "null"
    BY DEF Set!Empty
  <2> QED
    BY <1>4, <2>1, SavedTable, BlankIsNone, StoredAre DEF Decoded, Set!Null, Set!Quoted
<1>5. CASE type = "decimal"
  BY <1>5, SavedTable, BlankIsNone, StoredAre DEF Decoded, Set!Null
<1> QED
  BY <1>1, <1>2, <1>3, <1>4, <1>5 DEF AllTypes

LEMMA WrittenIsSaved ==
  ASSUME NEW kept, kept.type \in AllTypes, kept.value \in Stored[kept.type]
  PROVE  /\ Set!Value(kept) = Decoded(kept.value, kept.type)
         /\ Set!Value(kept) \in Set!Texts /\ Set!Written(kept) \in Set!Texts
         /\ \/ kept.type = "json" /\ Set!Value(kept) \in Set!Quoted
            \/ Set!Saved(Set!Written(kept), kept.type) = Set!Refused
            \/ Decoded(Set!Saved(Set!Written(kept), kept.type), kept.type) = Set!Value(kept)
<1>1. Set!Value(kept) = Decoded(kept.value, kept.type)
  BY DEF Set!Value, Decoded
<1>2. Set!Value(kept) \in Set!Texts
  BY <1>1, StoredIsText
<1>3. CASE kept.type \notin {"bool", "json"}
  <2>1. Set!Written(kept) = Set!Value(kept)
    BY <1>3 DEF Set!Written
  <2> QED
    BY <1>1, <1>2, <2>1, ShownIsSaved
<1>4. CASE kept.type = "bool"
  <2>1. Set!Value(kept) \in {"true", "false"}
    BY <1>1, <1>4, StoredAre DEF Decoded, Set!Null
  <2>2. Set!Written(kept) = IF Set!Value(kept) = "true" THEN "True" ELSE "False"
    BY <1>4, <2>1 DEF Set!Written
  <2>3. Set!Saved(Set!Written(kept), "bool") = Set!Value(kept)
    BY <2>1, <2>2 DEF Set!Saved
  <2>4. Set!Written(kept) \in Set!Texts
    BY <2>2 DEF Set!Texts
  <2> QED
    BY <1>1, <1>2, <1>4, <2>1, <2>3, <2>4 DEF Decoded, Set!Null
<1>5. CASE kept.type = "json"
  <2>1. Set!Empty("json") = "null"
    BY DEF Set!Empty
  <2>2. Set!Value(kept) \in {"0", "7", "7.0", "0.0", "true", "false", "null"} \cup Set!Quoted
    BY <1>1, <1>5, <2>1, StoredAre DEF Decoded, Set!Null
  <2>3. /\ Set!Value(kept) = "true" => Set!Written(kept) = "True"
        /\ Set!Value(kept) = "false" => Set!Written(kept) = "False"
        /\ Set!Value(kept) = "null" => Set!Written(kept) = Set!Blank
        /\ Set!Value(kept) \in {"0", "7", "7.0", "0.0"} => Set!Written(kept) = Set!Value(kept)
        /\ Set!Value(kept) \in Set!Quoted => Set!Written(kept) \in {"7", "true", "yes"}
    BY <1>5 DEF Set!Written, Set!Quoted
  <2>4. Set!Written(kept) \in Set!Texts
    BY <2>2, <2>3 DEF Set!Texts
  <2>5. CASE Set!Value(kept) \in {"true", "false"}
    <3>1. Set!Written(kept) \in {"True", "False"}
      BY <2>3, <2>5
    <3>2. Set!Saved(Set!Written(kept), "json") = Set!Refused
      BY <3>1, SavedTable, BlankIsNone DEF Set!Quoted
    <3> QED
      BY <1>2, <1>1, <1>5, <2>4, <3>2
  <2>6. CASE Set!Value(kept) = "null"
    <3>1. Set!Written(kept) = Set!Blank
      BY <2>3, <2>6
    <3>2. Set!Saved(Set!Blank, "json") \in {Set!Refused, Set!Null}
      BY SavedTable, BlankIsNone DEF Set!Quoted
    <3> QED
      BY <1>1, <1>2, <1>5, <2>1, <2>4, <2>6, <3>1, <3>2 DEF Decoded
  <2>7. CASE Set!Value(kept) \in {"0", "7", "7.0", "0.0"}
    <3>1. Set!Written(kept) = Set!Value(kept)
      BY <2>3, <2>7
    <3> QED
      BY <1>1, <1>2, <3>1, ShownIsSaved
  <2>8. CASE Set!Value(kept) \in Set!Quoted
    BY <1>1, <1>2, <1>5, <2>4, <2>8
  <2> QED
    BY <2>2, <2>5, <2>6, <2>7, <2>8
<1> QED
  BY <1>3, <1>4, <1>5 DEF AllTypes

LEMMA SetRowsDiffer ==
  /\ \A r \in Set!Row : r # Set!NoRow
  /\ \A f \in Set!Form : f # Set!NoForm
  BY DEF Set!Row, Set!NoRow, Set!Form, Set!NoForm

LEMMA SettingFields ==
  ASSUME Set!SettingsTypeOK, RowsAreSound, NEW k \in Keys, Set!Exists(k)
  PROVE  /\ setting[k] \in Set!Row /\ setting[k].type \in AllTypes
         /\ setting[k].type \in Types /\ setting[k].secret \in BOOLEAN
         /\ setting[k].value \in Stored[setting[k].type]
<1>1. setting[k] \in Set!Row
  BY DEF Set!SettingsTypeOK, Set!Exists
<1> QED
  BY <1>1, SetConstants DEF Set!Row, RowsAreSound

LEMMA FormFields ==
  ASSUME Set!SettingsTypeOK, NEW t \in Tabs, page[t] # Set!NoForm
  PROVE  /\ page[t] \in Set!Form /\ page[t].key \in Keys /\ page[t].type \in Types
         /\ page[t].text \in Set!Texts /\ page[t].was \in Set!Texts
         /\ page[t].secret \in BOOLEAN
<1>1. page[t] \in Set!Form
  BY DEF Set!SettingsTypeOK
<1> QED
  BY <1>1 DEF Set!Form

SettingsStay == \A k \in Keys : Set!Exists(k) => setting'[k] # Set!NoRow

(* A row that is saved is sound, and no row goes.                          *)
LEMMA RowIsSaved ==
  ASSUME Set!SettingsTypeOK, RowsAreSound, NEW k \in Keys, NEW type \in Types,
         NEW value \in Stored[type], NEW secret \in BOOLEAN,
         Set!SetValue(k, type, value, secret)
  PROVE  /\ setting' \in [Keys -> Set!Row \cup {Set!NoRow}]
         /\ RowsAreSound' /\ SettingsStay
<1> DEFINE kept == [type |-> type, value |-> value, secret |-> secret]
<1>1. setting' = [setting EXCEPT ![k] = kept]
  BY DEF Set!SetValue
<1>2. kept \in Set!Row /\ kept.value = value /\ kept.type = type
  <2>1. value \in Set!Texts \cup {Set!Null}
    BY StoredIsText, SetConstants
  <2> QED
    BY <2>1 DEF Set!Row
<1> HIDE DEF kept
<1>3. /\ setting' \in [Keys -> Set!Row \cup {Set!NoRow}] /\ setting'[k] = kept
      /\ \A j \in Keys : j # k => setting'[j] = setting[j]
  BY <1>1, <1>2 DEF Set!SettingsTypeOK
<1>4. RowsAreSound'
  BY <1>2, <1>3 DEF RowsAreSound, Set!Exists
<1>5. SettingsStay
  BY <1>2, <1>3, SetRowsDiffer DEF SettingsStay, Set!Exists
<1> QED
  BY <1>3, <1>4, <1>5

(* Forms stay sound, whatever becomes of the rows.                         *)
LEMMA FormsKeep ==
  ASSUME FormsAreSound, Set!SettingsTypeOK, SettingsStay,
         \A t \in Tabs : page'[t] = page[t] \/ page'[t] = Set!NoForm
  PROVE  FormsAreSound'
<1>1. \A t \in Tabs : page'[t] # Set!NoForm =>
        /\ page'[t] = page[t] /\ setting'[page[t].key] # Set!NoRow
        /\ FormIsSound(page[t])
  BY FormFields DEF FormsAreSound, SettingsStay
<1>2. \A t \in Tabs : page'[t] # Set!NoForm =>
        /\ setting'[page'[t].key] # Set!NoRow /\ FormIsSound(page'[t])
  BY <1>1
<1>3. \A t \in Tabs : FormIsSound(page[t])' <=> FormIsSound(page'[t])
  BY DEF FormIsSound
<1> QED
  BY <1>2, <1>3 DEF FormsAreSound, Set!Exists, Set!NoForm, Set!NoRow

LEMMA OnlyRows ==
  ASSUME SetInv, NEW k \in Keys, NEW type \in Types, NEW value \in Stored[type],
         NEW secret \in BOOLEAN, Set!SetValue(k, type, value, secret),
         UNCHANGED <<page, sent>>
  PROVE  SetInv'
<1>1. /\ setting' \in [Keys -> Set!Row \cup {Set!NoRow}] /\ RowsAreSound' /\ SettingsStay
  BY RowIsSaved DEF SetInv
<1>2. FormsAreSound'
  BY <1>1, FormsKeep DEF SetInv
<1> QED
  BY <1>1, <1>2 DEF SetInv, Set!SettingsTypeOK, Set!SavedAsShown

LEMMA NewSettingStep ==
  ASSUME SetInv, NEW k \in Keys, NEW type \in Types, NEW text \in Typed,
         NEW b \in BOOLEAN, Set!NewSetting(k, type, text, b)
  PROVE  SetInv'
<1>1. /\ Set!Saved(text, type) # Set!Refused /\ UNCHANGED <<page, sent>>
      /\ Set!SetValue(k, type, Set!Saved(text, type), b)
  BY DEF Set!NewSetting
<1>2. Set!Saved(text, type) \in Stored[type]
  BY <1>1, SavedIsStored, SetConstants
<1> QED
  BY <1>1, <1>2, OnlyRows

LEMMA ThemeStep ==
  ASSUME SetInv, NEW text \in Typed, Set!SetTheme(text)
  PROVE  SetInv'
<1> DEFINE b == Set!Exists(Theme) /\ setting[Theme].secret
<1>1. Set!SetValue(Theme, "string", text, b) /\ UNCHANGED <<page, sent>>
  BY DEF Set!SetTheme
<1>2. b \in BOOLEAN
  OBVIOUS
<1>3. Theme \in Keys /\ "string" \in Types /\ text \in Stored["string"]
  BY SetConstants, StoredAre
<1> HIDE DEF b
<1> QED
  BY <1>1, <1>2, <1>3, OnlyRows

LEMMA SeedStep ==
  ASSUME SetInv, NEW type \in Types, NEW text \in Typed, Set!Saved(text, type) = text,
         Set!Seed([type |-> type, value |-> text, secret |-> FALSE])
  PROVE  SetInv'
<1> DEFINE kept == [type |-> type, value |-> text, secret |-> FALSE]
<1>1. /\ setting' = [k \in Keys |-> IF k \in Seeds /\ ~Set!Exists(k) THEN kept ELSE setting[k]]
      /\ UNCHANGED <<page, sent>>
  BY DEF Set!Seed
<1>2. text \in Set!Texts
  BY SetConstants
<1>3. text # Set!Refused
  BY <1>2, BlankIsNone DEF Set!Texts, Set!Quoted, Set!Refused
<1>4. kept \in Set!Row /\ kept.value = text /\ kept.type = type
  BY <1>2 DEF Set!Row
<1>5. kept.value \in Stored[kept.type]
  BY <1>2, <1>3, <1>4, SavedIsStored, SetConstants
<1> HIDE DEF kept
<1>6. setting' \in [Keys -> Set!Row \cup {Set!NoRow}]
  BY <1>1, <1>4 DEF SetInv, Set!SettingsTypeOK
<1>7. RowsAreSound'
  BY <1>1, <1>5 DEF SetInv, RowsAreSound, Set!Exists
<1>8. SettingsStay
  BY <1>1 DEF SettingsStay, Set!Exists
<1>9. FormsAreSound'
  BY <1>1, <1>8, FormsKeep DEF SetInv
<1> QED
  BY <1>1, <1>6, <1>7, <1>9 DEF SetInv, Set!SettingsTypeOK, Set!SavedAsShown

(* A form is shown, or what it hides is.                                   *)
LEMMA NewForm ==
  ASSUME SetInv, NEW t \in Tabs, NEW f \in Set!Form, FormIsSound(f), Set!Exists(f.key),
         page' = [page EXCEPT ![t] = f], UNCHANGED <<setting, sent>>
  PROVE  SetInv'
<1>1. /\ page' \in [Tabs -> Set!Form \cup {Set!NoForm}] /\ page'[t] = f
      /\ \A u \in Tabs : u # t => page'[u] = page[u]
  BY DEF SetInv, Set!SettingsTypeOK
<1>2. \A u \in Tabs : page'[u] # Set!NoForm =>
        Set!Exists(page'[u].key) /\ FormIsSound(page'[u])
  BY <1>1 DEF SetInv, FormsAreSound
<1>3. \A u \in Tabs : FormIsSound(page[u])' <=> FormIsSound(page'[u])
  BY DEF FormIsSound
<1>4. FormsAreSound'
  BY <1>2, <1>3 DEF FormsAreSound, Set!Exists, Set!NoForm, Set!NoRow
<1> QED
  BY <1>1, <1>4 DEF SetInv, Set!SettingsTypeOK, Set!SavedAsShown, RowsAreSound, Set!Exists

LEMMA ShowStep ==
  ASSUME SetInv, NEW t \in Tabs, NEW k \in Keys, Set!Show(t, k)
  PROVE  SetInv'
<1> DEFINE kept == setting[k]
           text == IF kept.secret THEN Set!Blank ELSE Set!Value(kept)
           f == [key |-> k, type |-> kept.type, secret |-> kept.secret,
                 text |-> text, was |-> Set!Value(kept)]
<1>1. Set!Exists(k) /\ page' = [page EXCEPT ![t] = f] /\ UNCHANGED <<setting, sent>>
  BY DEF Set!Show
<1>2. /\ kept.type \in AllTypes /\ kept.type \in Types /\ kept.secret \in BOOLEAN
      /\ kept.value \in Stored[kept.type]
  BY <1>1, SettingFields DEF SetInv
<1> HIDE DEF kept
<1>3. Set!Value(kept) = Decoded(kept.value, kept.type) /\ Set!Value(kept) \in Set!Texts
  BY <1>2, WrittenIsSaved
<1>4. text \in Set!Texts
  BY <1>3 DEF Set!Texts
<1>5. f \in Set!Form /\ f.key = k
  BY <1>2, <1>3, <1>4 DEF Set!Form
<1>6. \/ kept.secret /\ text = Set!Blank
      \/ Set!Saved(text, kept.type) = Set!Refused
      \/ Decoded(Set!Saved(text, kept.type), kept.type) = Set!Value(kept)
  <2>1. CASE kept.secret
    BY <2>1
  <2>2. CASE ~kept.secret
    BY <1>2, <1>3, <2>2, ShownIsSaved
  <2> QED
    BY <2>1, <2>2
<1>7. FormIsSound(f)
  BY <1>6 DEF FormIsSound
<1> HIDE DEF f
<1> QED
  BY <1>1, <1>5, <1>7, NewForm

LEMMA RevealStep ==
  ASSUME SetInv, NEW t \in Tabs, Set!Reveal(t)
  PROVE  SetInv'
<1> DEFINE kept == setting[page[t].key]
           f == [page[t] EXCEPT !.text = Set!Written(kept), !.was = Set!Value(kept),
                                !.type = kept.type]
<1>1. /\ page[t] # Set!NoForm /\ page[t].secret
      /\ page' = [page EXCEPT ![t] = f] /\ UNCHANGED <<setting, sent>>
  BY DEF Set!Reveal, SetInv, Set!SettingsTypeOK
<1>2. page[t] \in Set!Form /\ page[t].key \in Keys /\ Set!Exists(page[t].key)
  BY <1>1, FormFields DEF SetInv, FormsAreSound
<1>3. kept.type \in AllTypes /\ kept.type \in Types /\ kept.value \in Stored[kept.type]
  BY <1>2, SettingFields DEF SetInv
<1> HIDE DEF kept
<1>4. /\ Set!Value(kept) \in Set!Texts /\ Set!Written(kept) \in Set!Texts
      /\ \/ kept.type = "json" /\ Set!Value(kept) \in Set!Quoted
         \/ Set!Saved(Set!Written(kept), kept.type) = Set!Refused
         \/ Decoded(Set!Saved(Set!Written(kept), kept.type), kept.type) = Set!Value(kept)
  BY <1>3, WrittenIsSaved
<1>5. /\ f \in Set!Form /\ f.key = page[t].key /\ f.text = Set!Written(kept)
      /\ f.was = Set!Value(kept) /\ f.type = kept.type /\ f.secret
  BY <1>1, <1>2, <1>3, <1>4 DEF Set!Form
<1> HIDE DEF f
<1>6. FormIsSound(f)
  BY <1>4, <1>5 DEF FormIsSound, BareForm
<1> QED
  BY <1>1, <1>2, <1>5, <1>6, NewForm

LEMMA LeaveStep ==
  ASSUME SetInv, NEW t \in Tabs, Set!Leave(t)
  PROVE  SetInv'
<1>1. page' = [page EXCEPT ![t] = Set!NoForm] /\ UNCHANGED <<setting, sent>>
  BY DEF Set!Leave
<1>2. /\ page' \in [Tabs -> Set!Form \cup {Set!NoForm}]
      /\ \A u \in Tabs : page'[u] = page[u] \/ page'[u] = Set!NoForm
  BY <1>1 DEF SetInv, Set!SettingsTypeOK
<1>3. SettingsStay
  BY <1>1 DEF SettingsStay, Set!Exists
<1>4. FormsAreSound'
  BY <1>2, <1>3, FormsKeep DEF SetInv
<1> QED
  BY <1>1, <1>2, <1>4 DEF SetInv, Set!SettingsTypeOK, Set!SavedAsShown, RowsAreSound, Set!Exists

(* What a form saves, and what it then shows.                              *)
LEMMA SendSaves ==
  ASSUME SetInv, NEW t \in Tabs, page[t] # Set!NoForm, NEW text \in Set!Texts,
         NEW kept, kept = setting[page[t].key],
         NEW value, value = Set!Result(kept, text), value # Set!Refused
  PROVE  /\ value \in Stored[kept.type]
         /\ text = page[t].text /\ kept.secret = page[t].secret /\ kept.type = page[t].type =>
              \/ ~Set!Kept(kept, text) /\ BareForm(page[t])
              \/ Decoded(value, kept.type) =
                   IF Set!Kept(kept, text) THEN Set!Value(kept) ELSE page[t].was
<1>1. page[t].key \in Keys /\ Set!Exists(page[t].key) /\ FormIsSound(page[t])
  BY FormFields DEF SetInv, FormsAreSound
<1>2. kept.type \in AllTypes /\ kept.value \in Stored[kept.type]
  BY <1>1, SettingFields DEF SetInv
<1>3. Set!Value(kept) = Decoded(kept.value, kept.type)
  BY <1>2, WrittenIsSaved
<1>4. CASE Set!Kept(kept, text)
  <2>1. value = Set!Reread(kept)
    BY <1>4 DEF Set!Result
  <2>2. value = kept.value
    BY <1>2, <2>1, StoredIsText DEF Set!Reread
  <2> QED
    BY <1>2, <1>3, <1>4, <2>2
<1>5. CASE ~Set!Kept(kept, text)
  <2>1. value = Set!Saved(text, kept.type)
    BY <1>5 DEF Set!Result
  <2>2. value \in Stored[kept.type]
    BY <1>2, <2>1, SavedIsStored
  <2>3. ASSUME text = page[t].text, kept.secret = page[t].secret, kept.type = page[t].type
        PROVE  BareForm(page[t]) \/ Decoded(value, kept.type) = page[t].was
    <3>1. ~(page[t].secret /\ page[t].text = Set!Blank)
      BY <1>5, <2>3 DEF Set!Kept
    <3> QED
      BY <1>1, <2>1, <2>3, <3>1 DEF FormIsSound
  <2> QED
    BY <1>5, <2>2, <2>3
<1> QED
  BY <1>4, <1>5

LEMMA SendStep ==
  ASSUME SetInv, NEW t \in Tabs, NEW text \in Set!Texts, NEW secret \in BOOLEAN,
         Set!Send(t, text, secret)
  PROVE  SetInv'
<1> DEFINE kept == setting[page[t].key]
           value == Set!Result(kept, text)
           new == [type |-> kept.type, value |-> value, secret |-> secret]
           asShown == /\ text = page[t].text /\ kept.secret = page[t].secret
                      /\ kept.type = page[t].type
           meant == IF Set!Kept(kept, text) THEN Set!Value(kept) ELSE page[t].was
           bare == ~Set!Kept(kept, text) /\ BareForm(page[t])
<1>1. /\ page[t] # Set!NoForm /\ value # Set!Refused
      /\ Set!SetValue(page[t].key, kept.type, value, secret)
      /\ sent' = IF asShown THEN [expected |-> meant, got |-> Set!Value(new), bare |-> bare]
                 ELSE Set!NotSent
      /\ page' = [page EXCEPT ![t] = Set!NoForm]
  BY DEF Set!Send, BareForm
<1>2. value \in Stored[kept.type] /\ (asShown => bare \/ Decoded(value, kept.type) = meant)
  BY <1>1, SendSaves
<1>3. page[t].key \in Keys /\ Set!Exists(page[t].key) /\ page[t].was \in Set!Texts
  BY <1>1, FormFields DEF SetInv, FormsAreSound
<1>4. kept.type \in Types /\ kept.type \in AllTypes
  BY <1>3, SettingFields DEF SetInv
<1>5. Set!Value(new) = Decoded(value, kept.type)
  BY DEF Set!Value, Decoded
<1>6. Set!Value(new) \in Set!Texts
  BY <1>2, <1>4, <1>5, StoredIsText
<1>6a. asShown => meant \in Set!Texts /\ bare \in BOOLEAN
  BY <1>3, <1>4, SettingFields, WrittenIsSaved DEF SetInv
<1> HIDE DEF kept, value, new, asShown, meant, bare
<1>7. /\ setting' \in [Keys -> Set!Row \cup {Set!NoRow}] /\ RowsAreSound' /\ SettingsStay
  BY <1>1, <1>2, <1>3, <1>4, RowIsSaved DEF SetInv
<1>8. /\ page' \in [Tabs -> Set!Form \cup {Set!NoForm}]
      /\ \A u \in Tabs : page'[u] = page[u] \/ page'[u] = Set!NoForm
  BY <1>1 DEF SetInv, Set!SettingsTypeOK
<1>9. FormsAreSound'
  BY <1>7, <1>8, FormsKeep DEF SetInv
<1>10. /\ sent' \in [expected : Set!Texts, got : Set!Texts, bare : BOOLEAN]
       /\ sent'.bare \/ sent'.got = sent'.expected
  <2>1. CASE asShown
    <3>1. /\ sent' = [expected |-> meant, got |-> Set!Value(new), bare |-> bare]
          /\ bare \/ meant = Set!Value(new)
      BY <1>1, <1>2, <1>5, <2>1
    <3> QED
      BY <1>6, <1>6a, <2>1, <3>1
  <2>2. CASE ~asShown
    BY <1>1, <2>2 DEF Set!NotSent, Set!Texts
  <2> QED
    BY <2>1, <2>2
<1> QED
  BY <1>7, <1>8, <1>9, <1>10 DEF SetInv, Set!SettingsTypeOK, Set!SavedAsShown

LEMMA SetStep ==
  ASSUME SetInv, Set!Next \/ UNCHANGED setVars
  PROVE  SetInv'
<1>1. CASE UNCHANGED setVars
  <2>1. UNCHANGED <<setting, page, sent>>
    BY <1>1 DEF setVars
  <2>2. SettingsStay
    BY <2>1 DEF SettingsStay, Set!Exists
  <2>3. FormsAreSound'
    BY <2>1, <2>2, FormsKeep DEF SetInv
  <2> QED
    BY <2>1, <2>3 DEF SetInv, Set!SettingsTypeOK, RowsAreSound, Set!Exists, Set!SavedAsShown
<1>2. CASE Set!NewPage
  BY <1>2, NewSettingStep DEF Set!NewPage
<1>3. CASE Set!EditPage
  <2>1. ASSUME NEW t \in Tabs, NEW text \in Typed \cup {page[t].text}, NEW b \in BOOLEAN,
               Set!Send(t, text, b)
        PROVE  SetInv'
    <3>1. page[t] # Set!NoForm
      BY <2>1 DEF Set!Send
    <3>2. text \in Set!Texts
      BY <2>1, <3>1, FormFields, SetConstants DEF SetInv
    <3> QED
      BY <2>1, <3>2, SendStep
  <2> QED
    BY <1>3, <2>1, ShowStep, RevealStep, LeaveStep DEF Set!EditPage
<1>4. CASE Set!Command
  BY <1>4, SeedStep DEF Set!Command
<1>5. CASE \E text \in Typed : Set!SetTheme(text)
  BY <1>5, ThemeStep
<1> QED
  BY <1>1, <1>2, <1>3, <1>4, <1>5 DEF Set!Next

LEMMA SetInit == Set!Init => SetInv
<1> SUFFICES ASSUME Set!Init PROVE SetInv
  OBVIOUS
<1>1. Set!NotSent \in [expected : Set!Texts, got : Set!Texts, bare : BOOLEAN]
      /\ Set!NotSent.got = Set!NotSent.expected
  BY DEF Set!NotSent, Set!Texts
<1> QED
  BY <1>1 DEF Set!Init, SetInv, Set!SettingsTypeOK, RowsAreSound, FormsAreSound, Set!Exists,
              Set!SavedAsShown

(* Lists.                                                                  *)
LEMMA SameListSizes ==
  \A S : /\ Pages!Cardinality(S) = Cardinality(S)
         /\ Pages!IsFiniteSet(S) <=> IsFiniteSet(S)
  BY DEF Pages!Cardinality, Pages!IsFiniteSet, Cardinality, IsFiniteSet

RowsAreTyped == row \in Seq(ListedRows) /\ Len(row) <= MaxRows

LEMMA ListConstants ==
  /\ MaxRows \in Nat /\ ListedRows \subseteq Pages!Row
  /\ PageSize \in Nat \ {0} /\ Cap \in Nat /\ Limit \in Nat
  BY Assumptions DEF Pages!ListsAssumption

LEMMA ListedFields ==
  ASSUME RowsAreTyped, NEW i \in Pages!Ids
  PROVE  /\ row[i] \in Pages!Row /\ row[i].day \in Nat /\ row[i].status \in Pages!Statuses
         /\ row[i].kind \in Pages!RowKinds /\ row[i].found \in BOOLEAN
         /\ row[i].tags \in 0 .. 1 /\ i \in Nat \ {0}
<1>1. row[i] \in Pages!Row /\ i \in Nat \ {0}
  BY ListConstants DEF RowsAreTyped, Pages!Ids
<1> QED
  BY <1>1 DEF Pages!Row

LEMMA PrecedesIsStrict ==
  ASSUME RowsAreTyped, NEW order \in Pages!Orders,
         NEW i \in Pages!Ids, NEW j \in Pages!Ids, NEW k \in Pages!Ids
  PROVE  /\ ~Pages!Precedes(order, i, i)
         /\ i # j => Pages!Precedes(order, i, j) \/ Pages!Precedes(order, j, i)
         /\ Pages!Precedes(order, i, j) /\ Pages!Precedes(order, j, k) =>
              Pages!Precedes(order, i, k)
<1>1. /\ i \in Nat /\ j \in Nat /\ k \in Nat
      /\ row[i].day \in Nat /\ row[j].day \in Nat /\ row[k].day \in Nat
  BY ListedFields
<1>2. CASE order = "newest"
  BY <1>1, <1>2 DEF Pages!Precedes
<1>3. CASE order = "oldest"
  BY <1>1, <1>3 DEF Pages!Precedes
<1>4. CASE order = "latest"
  BY <1>1, <1>4 DEF Pages!Precedes
<1>5. CASE order = "earliest"
  BY <1>1, <1>5 DEF Pages!Precedes
<1> QED
  BY <1>2, <1>3, <1>4, <1>5 DEF Pages!Orders

LEMMA IdsAreFinite ==
  ASSUME RowsAreTyped, NEW S \in SUBSET Pages!Ids
  PROVE  IsFiniteSet(S) /\ Cardinality(S) \in Nat
<1>1. Len(row) \in Nat
  BY DEF RowsAreTyped
<1>2. IsFiniteSet(Pages!Ids)
  BY <1>1, FS_Interval DEF Pages!Ids
<1> QED
  BY <1>2, FS_Subset, FS_CardinalityType

(* The place of a row, from none.                                          *)
Place(order, S, i) == Cardinality(Pages!Before(order, S, i))

LEMMA PlacesRise ==
  ASSUME RowsAreTyped, NEW order \in Pages!Orders, NEW S \in SUBSET Pages!Ids,
         NEW i \in S
  PROVE  /\ Place(order, S, i) \in Nat /\ Place(order, S, i) < Cardinality(S)
         /\ \A j \in S : Pages!Precedes(order, i, j) => Place(order, S, i) < Place(order, S, j)
<1>1. Pages!Before(order, S, i) \in SUBSET Pages!Ids /\ Pages!Before(order, S, i) \subseteq S
  BY DEF Pages!Before
<1>2. IsFiniteSet(S) /\ Cardinality(S) \in Nat /\ Place(order, S, i) \in Nat
  BY <1>1, IdsAreFinite DEF Place
<1>3. i \notin Pages!Before(order, S, i)
  BY PrecedesIsStrict DEF Pages!Before
<1>4. Place(order, S, i) < Cardinality(S)
  <2>1. /\ Cardinality(Pages!Before(order, S, i)) <= Cardinality(S)
        /\ Cardinality(Pages!Before(order, S, i)) = Cardinality(S) =>
             S = Pages!Before(order, S, i)
    BY <1>1, <1>2, FS_Subset
  <2> QED
    BY <1>2, <1>3, <2>1 DEF Place
<1>5. ASSUME NEW j \in S, Pages!Precedes(order, i, j)
      PROVE  Place(order, S, i) < Place(order, S, j)
  <2>1. Pages!Before(order, S, i) \subseteq Pages!Before(order, S, j)
    BY <1>5, PrecedesIsStrict DEF Pages!Before
  <2>2. i \in Pages!Before(order, S, j)
    BY <1>5 DEF Pages!Before
  <2>3. Pages!Before(order, S, j) \in SUBSET Pages!Ids
    BY DEF Pages!Before
  <2>4. IsFiniteSet(Pages!Before(order, S, j)) /\ Place(order, S, j) \in Nat
    BY <2>3, IdsAreFinite DEF Place
  <2>5. /\ Cardinality(Pages!Before(order, S, i)) <= Cardinality(Pages!Before(order, S, j))
        /\ Cardinality(Pages!Before(order, S, i)) = Cardinality(Pages!Before(order, S, j)) =>
             Pages!Before(order, S, j) = Pages!Before(order, S, i)
    BY <2>1, <2>4, FS_Subset
  <2> QED
    BY <1>2, <1>3, <2>2, <2>4, <2>5 DEF Place
<1> QED
  BY <1>2, <1>4, <1>5

(* A list has each row once, at its place.                                 *)
LEMMA ListIsOrdered ==
  ASSUME RowsAreTyped, NEW order \in Pages!Orders, NEW S \in SUBSET Pages!Ids,
         NEW s, s = Pages!InOrder(order, S)
  PROVE  /\ s \in Seq(S) /\ Len(s) = Cardinality(S) /\ Cardinality(S) \in Nat
         /\ \A k \in 1 .. Cardinality(S) : s[k] \in S /\ Place(order, S, s[k]) = k - 1
         /\ \A i \in S : /\ Place(order, S, i) + 1 \in 1 .. Cardinality(S)
                         /\ s[Place(order, S, i) + 1] = i
         /\ Pages!IsInjective(s) /\ Pages!ToSet(s) = S
<1> DEFINE n == Cardinality(S)
           f == [i \in S |-> Place(order, S, i) + 1]
<1>1. IsFiniteSet(S) /\ n \in Nat
  BY IdsAreFinite
<1>2. \A i \in S : Place(order, S, i) \in Nat /\ Place(order, S, i) < n
  BY PlacesRise
<1>3. \A i \in S, j \in S : Place(order, S, i) = Place(order, S, j) => i = j
  <2> SUFFICES ASSUME NEW i \in S, NEW j \in S, i # j
               PROVE  Place(order, S, i) # Place(order, S, j)
    OBVIOUS
  <2>1. Pages!Precedes(order, i, j) \/ Pages!Precedes(order, j, i)
    BY PrecedesIsStrict
  <2>2. /\ Place(order, S, i) \in Nat /\ Place(order, S, j) \in Nat
        /\ Pages!Precedes(order, i, j) => Place(order, S, i) < Place(order, S, j)
        /\ Pages!Precedes(order, j, i) => Place(order, S, j) < Place(order, S, i)
    BY PlacesRise
  <2> QED
    BY <2>1, <2>2
<1>4. s = [k \in 1 .. n |-> CHOOSE i \in S : Place(order, S, i) = k - 1]
  BY SameListSizes DEF Pages!InOrder, Place
<1> HIDE DEF n
<1>5. f \in Injection(S, 1 .. n)
  <2>1. f \in [S -> 1 .. n]
    BY <1>1, <1>2
  <2>2. \A i, j \in S : f[i] = f[j] => i = j
    BY <1>2, <1>3
  <2> QED
    BY <2>1, <2>2 DEF Injection, IsInjective
<1>6. IsFiniteSet(1 .. n) /\ Cardinality(1 .. n) = n
  <2>1. 1 \in Int /\ n \in Int /\ (1 > n => n = 0) /\ n - 1 + 1 = n
    BY <1>1
  <2> QED
    BY <2>1, FS_Interval
<1>7. f \in Surjection(S, 1 .. n)
  BY <1>5, <1>6, FS_Injection DEF n
<1>8. \A k \in 1 .. n : \E i \in S : Place(order, S, i) = k - 1
  <2>1. \A k \in 1 .. n : \E i \in S : f[i] = k
    BY <1>7 DEF Surjection
  <2> QED
    BY <1>1, <1>2, <2>1
<1>9. \A k \in 1 .. n : s[k] \in S /\ Place(order, S, s[k]) = k - 1
  BY <1>4, <1>8
<1>10. \A i \in S : /\ Place(order, S, i) + 1 \in 1 .. n
                    /\ s[Place(order, S, i) + 1] = i
  <2> SUFFICES ASSUME NEW i \in S
               PROVE  /\ Place(order, S, i) + 1 \in 1 .. n
                      /\ s[Place(order, S, i) + 1] = i
    OBVIOUS
  <2>1. Place(order, S, i) + 1 \in 1 .. n
    BY <1>1, <1>2
  <2>2. /\ s[Place(order, S, i) + 1] \in S
        /\ Place(order, S, s[Place(order, S, i) + 1]) = (Place(order, S, i) + 1) - 1
    BY <1>9, <2>1
  <2>3. (Place(order, S, i) + 1) - 1 = Place(order, S, i)
    BY <1>2
  <2> QED
    BY <1>3, <2>1, <2>2, <2>3
<1>11. s \in Seq(S) /\ Len(s) = n /\ DOMAIN s = 1 .. n
  <2>1. s \in [1 .. n -> S]
    BY <1>4, <1>9
  <2> QED
    BY <1>1, <2>1, SeqDef
<1>12. Pages!IsInjective(s)
  <2>1. \A j \in 1 .. n, k \in 1 .. n : s[j] = s[k] => j = k
    BY <1>9
  <2> QED
    BY <1>11, <2>1 DEF Pages!IsInjective
<1>13. Pages!ToSet(s) = S
  BY <1>9, <1>10, <1>11 DEF Pages!ToSet
<1> QED
  BY <1>1, <1>9, <1>10, <1>11, <1>12, <1>13 DEF n

(* The rows of a filter, and their list, whoever reads them.               *)
Chosen(f) == {i \in Pages!Ids : f = "any" \/ row[i].status = f}
Ordered(o, f) == Pages!InOrder(o, Chosen(f))
Least(a, b) == IF a < b THEN a ELSE b

LEMMA Multiples ==
  ASSUME NEW n \in Nat
  PROVE  /\ n * PageSize \in Nat /\ (n + 1) * PageSize = n * PageSize + PageSize
         /\ (n + 1) - 1 = n /\ 1 * PageSize = PageSize /\ 0 * PageSize = 0
         /\ PageSize \in Nat \ {0} /\ n * PageSize < (n + 1) * PageSize
<1>1. PageSize \in Nat \ {0}
  BY ListConstants
<1>2. n * PageSize \in Nat /\ (n + 1) * PageSize = n * PageSize + PageSize
  BY <1>1
<1> QED
  BY <1>1, <1>2

LEMMA ListOf ==
  ASSUME NEW v
  PROVE  /\ Pages!Matching(v) = Chosen(v.filter)
         /\ Pages!Listed(v) = Ordered(v.order, v.filter)
  BY DEF Pages!Matching, Pages!Listed, Chosen, Ordered

LEMMA ChosenRows ==
  ASSUME RowsAreTyped, NEW o \in Pages!Orders, NEW f
  PROVE  /\ Chosen(f) \in SUBSET Pages!Ids /\ Cardinality(Chosen(f)) \in Nat
         /\ Ordered(o, f) \in Seq(Chosen(f)) /\ Len(Ordered(o, f)) = Cardinality(Chosen(f))
         /\ \A i \in Chosen(f) : /\ Place(o, Chosen(f), i) \in Nat
                                 /\ Place(o, Chosen(f), i) + 1 \in 1 .. Cardinality(Chosen(f))
                                 /\ Ordered(o, f)[Place(o, Chosen(f), i) + 1] = i
         /\ \A k \in 1 .. Cardinality(Chosen(f)) : Ordered(o, f)[k] \in Chosen(f)
         /\ Pages!IsInjective(Ordered(o, f)) /\ Pages!ToSet(Ordered(o, f)) = Chosen(f)
<1>1. Chosen(f) \in SUBSET Pages!Ids
  BY DEF Chosen
<1> QED
  BY <1>1, ListIsOrdered, PlacesRise DEF Ordered

(* The rows of a page, by their places.                                    *)
LEMMA PageRows ==
  ASSUME RowsAreTyped, NEW v, v.order \in Pages!Orders, NEW n \in Nat
  PROVE  LET q == Pages!Page(v, n + 1)
             c == Cardinality(Chosen(v.filter))
         IN  /\ q = SubSeq(Ordered(v.order, v.filter), n * PageSize + 1,
                           Least((n + 1) * PageSize, c))
             /\ q \in Seq(Chosen(v.filter))
             /\ \A i \in Chosen(v.filter) :
                  /\ Place(v.order, Chosen(v.filter), i) < (n + 1) * PageSize
                  /\ ~(Place(v.order, Chosen(v.filter), i) < n * PageSize)
                  => i \in Pages!ToSet(q)
<1> DEFINE q == Pages!Page(v, n + 1)
           c == Cardinality(Chosen(v.filter))
           s == Ordered(v.order, v.filter)
           a == n * PageSize
           b == (n + 1) * PageSize
           z == Least(b, c)
<1>1. a \in Nat /\ b \in Nat /\ c \in Nat /\ z \in Nat /\ z <= c /\ z <= b /\ (z = b \/ z = c)
  <2>1. a \in Nat /\ b = a + PageSize /\ PageSize \in Nat
    BY Multiples
  <2>2. c \in Nat
    BY ChosenRows
  <2> HIDE DEF a, b, c
  <2> QED
    BY <2>1, <2>2 DEF Least
<1>2. q = SubSeq(s, a + 1, z)
  <2>1. (n + 1) - 1 = n /\ Len(s) = c
    BY Multiples, ChosenRows
  <2>2. Pages!Listed(v) = s
    BY ListOf
  <2>3. q = SubSeq(Pages!Listed(v), ((n + 1) - 1) * PageSize + 1,
                   Pages!Least((n + 1) * PageSize, Len(Pages!Listed(v))))
    BY DEF Pages!Page
  <2>4. Pages!Least(b, c) = z
    BY DEF Pages!Least, Least
  <2> HIDE DEF s, c, q, z
  <2> QED
    BY <2>1, <2>2, <2>3, <2>4
<1>3. \A i \in Chosen(v.filter) :
        LET k == Place(v.order, Chosen(v.filter), i)
        IN  k \in Nat /\ k + 1 \in 1 .. c /\ s[k + 1] = i
  BY ChosenRows
<1>4. \A i \in 1 .. c : s[i] \in Chosen(v.filter)
  BY ChosenRows
<1>5. /\ q \in Seq(Chosen(v.filter))
      /\ Len(q) = IF a + 1 <= z THEN z - (a + 1) + 1 ELSE 0
      /\ \A i \in 1 .. z - (a + 1) + 1 : q[i] = s[(a + 1) + i - 1]
  <2>1. a + 1 \in Int /\ z \in Int
    BY <1>1
  <2>2. \A i \in a + 1 .. z : s[i] \in Chosen(v.filter)
    BY <1>1, <1>4
  <2> HIDE DEF s, a, z, q
  <2> QED
    BY <1>2, <2>1, <2>2, SubSeqProperties
<1> HIDE DEF s, a, b, c, z, q
<1>6. ASSUME NEW i \in Chosen(v.filter), NEW k \in Nat, k + 1 \in 1 .. c, s[k + 1] = i,
             k < b, ~(k < a)
      PROVE  i \in Pages!ToSet(q)
  <2>1. k + 1 <= z
    BY <1>1, <1>6
  <2>2. k + 1 - a \in 1 .. z - (a + 1) + 1 /\ (a + 1) + (k + 1 - a) - 1 = k + 1
    BY <1>1, <1>6, <2>1
  <2>3. k + 1 - a \in 1 .. Len(q)
    BY <1>1, <1>5, <2>2
  <2>4. q[k + 1 - a] = i
    BY <1>5, <1>6, <2>2
  <2> QED
    BY <1>5, <2>3, <2>4 DEF Pages!ToSet
<1>7. \A i \in Chosen(v.filter) :
        /\ Place(v.order, Chosen(v.filter), i) < b
        /\ ~(Place(v.order, Chosen(v.filter), i) < a)
        => i \in Pages!ToSet(q)
  BY <1>3, <1>6
<1> QED
  BY <1>2, <1>5, <1>7 DEF s, a, b, c, z, q

Readers == [order : Pages!Orders, filter : Pages!Filters, page : Nat \ {0},
            first : SUBSET Nat, seen : Seq(Nat),
            still : BOOLEAN, quiet : BOOLEAN, end : BOOLEAN]
Exports == [order : Pages!Orders, filter : Pages!Filters, count : Nat, rows : SUBSET Nat]

(* A row of the first page's list keeps its place or moves back, so that   *)
(* the places before the next page have been seen.                         *)
SeenSoFar(r) ==
  /\ r.first \subseteq Chosen(r.filter)
  /\ \A i \in r.first :
       Place(r.order, Chosen(r.filter), i) < r.page * PageSize => i \in Pages!ToSet(r.seen)
  /\ r.end => r.first \subseteq Pages!ToSet(r.seen)

(* While nothing changes, what has been seen is how the list begins.       *)
SeenInOrder(r) ==
  LET c == Cardinality(Chosen(r.filter)) IN
  /\ r.seen = SubSeq(Ordered(r.order, r.filter), 1, Least(r.page * PageSize, c))
  /\ ~r.end => r.page * PageSize < c

ReaderIsSound(r) ==
  /\ r \in Readers /\ r.first \subseteq Pages!Ids /\ Pages!ToSet(r.seen) \subseteq Pages!Ids
  /\ r.quiet => SeenSoFar(r)
  /\ r.still => SeenInOrder(r)

ExportIsSound(e) == e \in Exports /\ e.count = Cardinality(e.rows)

ListInv ==
  /\ RowsAreTyped /\ saved \in [Users -> Pages!Filters \cup {"none"}]
  /\ \A r : r = reader => r = Pages!NoView \/ ReaderIsSound(r)
  /\ \A e : e = export => e = Pages!NoExport \/ ExportIsSound(e)

LEMMA ReaderFields ==
  ASSUME NEW r \in Readers
  PROVE  /\ r.order \in Pages!Orders /\ r.filter \in Pages!Filters /\ r.page \in Nat \ {0}
         /\ r.first \in SUBSET Nat /\ r.seen \in Seq(Nat)
         /\ r.still \in BOOLEAN /\ r.quiet \in BOOLEAN /\ r.end \in BOOLEAN
  BY DEF Readers

(* Rows that are as they were.                                             *)
LEMMA SameRows ==
  ASSUME UNCHANGED row
  PROVE  /\ RowsAreTyped' <=> RowsAreTyped
         /\ \A r : ReaderIsSound(r)' <=> ReaderIsSound(r)
  BY DEF RowsAreTyped, ReaderIsSound, SeenSoFar, SeenInOrder, Chosen, Ordered, Place,
         Pages!Ids, Pages!InOrder, Pages!Before, Pages!Precedes

LEMMA OtherLists ==
  ASSUME ListInv, UNCHANGED row,
         saved' \in [Users -> Pages!Filters \cup {"none"}],
         \A r : r = reader' => r = Pages!NoView \/ ReaderIsSound(r),
         \A e : e = export' => e = Pages!NoExport \/ ExportIsSound(e)
  PROVE  ListInv'
<1>1. \A e : ExportIsSound(e)' <=> ExportIsSound(e)
  BY DEF ExportIsSound
<1> QED
  BY <1>1, SameRows DEF ListInv, Pages!NoView, Pages!NoExport

-----------------------------------------------------------------------------
(* A row that is added leaves the others at their places or further on.    *)
LEMMA RowsGrow ==
  ASSUME RowsAreTyped, Len(row) < MaxRows, NEW new \in ListedRows, row' = Append(row, new)
  PROVE  /\ RowsAreTyped' /\ Pages!Ids \subseteq Pages!Ids'
         /\ \A f : Chosen(f) \subseteq Chosen(f)'
         /\ \A o \in Pages!Orders : \A f : \A i \in Chosen(f) :
              /\ Place(o, Chosen(f), i) \in Nat /\ Place(o, Chosen(f), i)' \in Nat
              /\ Place(o, Chosen(f), i) <= Place(o, Chosen(f), i)'
<1>1. /\ row' \in Seq(ListedRows) /\ Len(row') = Len(row) + 1 /\ Len(row) \in Nat
      /\ \A i \in 1 .. Len(row) : row'[i] = row[i]
  BY AppendProperties DEF RowsAreTyped
<1>2. RowsAreTyped'
  BY <1>1, ListConstants DEF RowsAreTyped
<1>3. Pages!Ids \subseteq Pages!Ids' /\ IsFiniteSet(Pages!Ids')
      /\ \A i \in Pages!Ids : row'[i] = row[i]
  <2>1. IsFiniteSet(1 .. Len(row) + 1)
    BY <1>1, FS_Interval
  <2> QED
    BY <1>1, <2>1 DEF Pages!Ids
<1>4. \A f : Chosen(f) \subseteq Chosen(f)' /\ Chosen(f) \subseteq Pages!Ids
             /\ Chosen(f)' \subseteq Pages!Ids'
  BY <1>3 DEF Chosen
<1>5. ASSUME NEW o \in Pages!Orders, NEW f, NEW i \in Chosen(f)
      PROVE  /\ Place(o, Chosen(f), i) \in Nat /\ Place(o, Chosen(f), i)' \in Nat
             /\ Place(o, Chosen(f), i) <= Place(o, Chosen(f), i)'
  <2> DEFINE A == {j \in Chosen(f) : Pages!Precedes(o, j, i)}
             B == {j \in Chosen(f)' : Pages!Precedes(o, j, i)'}
  <2>1. Place(o, Chosen(f), i) = Cardinality(A) /\ Place(o, Chosen(f), i)' = Cardinality(B)
    BY DEF Place, Pages!Before
  <2>2. \A j \in Chosen(f) : Pages!Precedes(o, j, i)' <=> Pages!Precedes(o, j, i)
    <3>1. \A j \in Chosen(f) : row'[j] = row[j] /\ row'[i] = row[i]
      BY <1>3, <1>4
    <3> QED
      BY <3>1 DEF Pages!Precedes
  <2>3. A \subseteq B
    BY <1>4, <2>2
  <2>4. IsFiniteSet(B)
    <3>1. B \in SUBSET Pages!Ids'
      BY <1>4
    <3> QED
      BY <1>3, <3>1, FS_Subset
  <2> HIDE DEF A, B
  <2> QED
    BY <2>1, <2>3, <2>4, FS_Subset, FS_CardinalityType
<1> QED
  BY <1>2, <1>3, <1>4, <1>5

LEMMA AddStep ==
  ASSUME ListInv, Pages!Add
  PROVE  ListInv'
<1>1. PICK new \in ListedRows : row' = Append(row, new)
  BY DEF Pages!Add
<1>2. /\ Len(row) < MaxRows /\ UNCHANGED <<export, saved>>
      /\ reader' = IF reader = Pages!NoView THEN Pages!NoView
                   ELSE [reader EXCEPT !.still = FALSE, !.quiet = @ /\ ~FALSE]
  BY DEF Pages!Add, Pages!Disturbed
<1>3. /\ RowsAreTyped' /\ Pages!Ids \subseteq Pages!Ids'
      /\ \A f : Chosen(f) \subseteq Chosen(f)'
      /\ \A o \in Pages!Orders : \A f : \A i \in Chosen(f) :
           /\ Place(o, Chosen(f), i) \in Nat /\ Place(o, Chosen(f), i)' \in Nat
           /\ Place(o, Chosen(f), i) <= Place(o, Chosen(f), i)'
  BY <1>1, <1>2, RowsGrow DEF ListInv
<1>4. ASSUME NEW r, r = reader, r # Pages!NoView, NEW q, q = reader'
      PROVE  ReaderIsSound(q)'
  <2>1. ReaderIsSound(r)
    BY <1>4 DEF ListInv
  <2>2. /\ r \in Readers /\ r.first \subseteq Pages!Ids /\ Pages!ToSet(r.seen) \subseteq Pages!Ids
        /\ r.quiet => SeenSoFar(r)
    BY <2>1 DEF ReaderIsSound
  <2>3. q = [r EXCEPT !.still = FALSE, !.quiet = @ /\ ~FALSE]
    BY <1>2, <1>4
  <2>4. /\ q \in Readers /\ q.still = FALSE /\ q.quiet = r.quiet /\ q.order = r.order
        /\ q.filter = r.filter /\ q.page = r.page /\ q.first = r.first /\ q.seen = r.seen
        /\ q.end = r.end
    BY <2>2, <2>3 DEF Readers
  <2>5. r.order \in Pages!Orders /\ r.page * PageSize \in Nat
    BY <2>2, ReaderFields, Multiples
  <2>6. ASSUME r.quiet
        PROVE  SeenSoFar(q)'
    <3>1. /\ q.first \subseteq Chosen(q.filter)
          /\ \A i \in q.first : Place(q.order, Chosen(q.filter), i) < q.page * PageSize =>
               i \in Pages!ToSet(q.seen)
          /\ q.end => q.first \subseteq Pages!ToSet(q.seen)
      BY <2>2, <2>4, <2>6 DEF SeenSoFar
    <3>2. q.first \subseteq Chosen(q.filter)'
      BY <1>3, <3>1
    <3>3. ASSUME NEW i \in q.first, Place(q.order, Chosen(q.filter), i)' < q.page * PageSize
          PROVE  i \in Pages!ToSet(q.seen)
      <4>1. /\ Place(q.order, Chosen(q.filter), i) \in Nat
            /\ Place(q.order, Chosen(q.filter), i)' \in Nat
            /\ Place(q.order, Chosen(q.filter), i) <= Place(q.order, Chosen(q.filter), i)'
        BY <1>3, <2>4, <2>5, <3>1
      <4>2. Place(q.order, Chosen(q.filter), i) < q.page * PageSize
        BY <2>4, <2>5, <3>3, <4>1
      <4> QED
        BY <3>1, <4>2
    <3> QED
      BY <3>1, <3>2, <3>3 DEF SeenSoFar
  <2> QED
    BY <1>3, <2>2, <2>4, <2>6 DEF ReaderIsSound
<1>5. \A e : ExportIsSound(e)' <=> ExportIsSound(e)
  BY DEF ExportIsSound
<1> QED
  BY <1>2, <1>3, <1>4, <1>5 DEF ListInv, Pages!NoView, Pages!NoExport

LEMMA EditStep ==
  ASSUME ListInv, Pages!Edit
  PROVE  ListInv'
<1>1. PICK i \in Pages!Ids, new \in ListedRows : row' = [row EXCEPT ![i] = new]
  BY DEF Pages!Edit
<1>2. /\ UNCHANGED <<export, saved>>
      /\ reader' = IF reader = Pages!NoView THEN Pages!NoView
                   ELSE [reader EXCEPT !.still = FALSE, !.quiet = @ /\ ~TRUE]
  BY DEF Pages!Edit, Pages!Disturbed
<1>3. row' \in Seq(ListedRows) /\ Len(row') = Len(row)
  BY <1>1, ExceptSeq DEF ListInv, RowsAreTyped, Pages!Ids
<1>4. RowsAreTyped' /\ Pages!Ids' = Pages!Ids
  BY <1>3 DEF ListInv, RowsAreTyped, Pages!Ids
<1>5. ASSUME NEW r, r = reader, r # Pages!NoView, NEW q, q = reader'
      PROVE  ReaderIsSound(q)'
  <2>1. /\ r \in Readers /\ r.first \subseteq Pages!Ids
        /\ Pages!ToSet(r.seen) \subseteq Pages!Ids
    BY <1>5 DEF ListInv, ReaderIsSound
  <2>2. q = [r EXCEPT !.still = FALSE, !.quiet = @ /\ ~TRUE]
    BY <1>2, <1>5
  <2>3. /\ q \in Readers /\ q.still = FALSE /\ q.quiet = FALSE
        /\ q.first = r.first /\ q.seen = r.seen
    BY <2>1, <2>2 DEF Readers
  <2> QED
    BY <1>4, <2>1, <2>3 DEF ReaderIsSound
<1>6. \A e : ExportIsSound(e)' <=> ExportIsSound(e)
  BY DEF ExportIsSound
<1> QED
  BY <1>2, <1>4, <1>5, <1>6 DEF ListInv, Pages!NoView, Pages!NoExport

ListViews == [order : Pages!Orders, filter : Pages!Filters]

LEMMA SeqToSet ==
  ASSUME NEW S, NEW s \in Seq(S)
  PROVE  Pages!ToSet(s) \subseteq S
  BY DEF Pages!ToSet

LEMMA BothSeen ==
  ASSUME NEW S, NEW s \in Seq(S), NEW t \in Seq(S)
  PROVE  s \o t \in Seq(S) /\ Pages!ToSet(s \o t) = Pages!ToSet(s) \cup Pages!ToSet(t)
<1>1. /\ s \o t \in Seq(S) /\ Len(s \o t) = Len(s) + Len(t)
      /\ \A i \in 1 .. Len(s) + Len(t) :
           (s \o t)[i] = IF i <= Len(s) THEN s[i] ELSE t[i - Len(s)]
  BY ConcatProperties
<1>2. Len(s) \in Nat /\ Len(t) \in Nat /\ DOMAIN s = 1 .. Len(s) /\ DOMAIN t = 1 .. Len(t)
      /\ DOMAIN (s \o t) = 1 .. Len(s) + Len(t)
  BY <1>1
<1>3. ASSUME NEW i \in 1 .. Len(s) PROVE s[i] = (s \o t)[i] /\ i \in 1 .. Len(s) + Len(t)
  BY <1>1, <1>2
<1>4. ASSUME NEW i \in 1 .. Len(t)
      PROVE  t[i] = (s \o t)[i + Len(s)] /\ i + Len(s) \in 1 .. Len(s) + Len(t)
  <2>1. i + Len(s) \in 1 .. Len(s) + Len(t) /\ ~(i + Len(s) <= Len(s))
        /\ (i + Len(s)) - Len(s) = i
    BY <1>2
  <2> QED
    BY <1>1, <2>1
<1>5. ASSUME NEW i \in 1 .. Len(s) + Len(t)
      PROVE  (s \o t)[i] \in Pages!ToSet(s) \cup Pages!ToSet(t)
  <2>1. CASE i <= Len(s)
    BY <1>1, <1>2, <2>1 DEF Pages!ToSet
  <2>2. CASE ~(i <= Len(s))
    <3>1. i - Len(s) \in 1 .. Len(t)
      BY <1>2, <2>2
    <3> QED
      BY <1>1, <1>2, <2>2, <3>1 DEF Pages!ToSet
  <2> QED
    BY <2>1, <2>2
<1>6. Pages!ToSet(s \o t) \subseteq Pages!ToSet(s) \cup Pages!ToSet(t)
  BY <1>2, <1>5 DEF Pages!ToSet
<1>7. Pages!ToSet(s) \subseteq Pages!ToSet(s \o t)
  BY <1>2, <1>3 DEF Pages!ToSet
<1>8. Pages!ToSet(t) \subseteq Pages!ToSet(s \o t)
  BY <1>2, <1>4 DEF Pages!ToSet
<1> QED
  BY <1>1, <1>6, <1>7, <1>8

LEMMA SmallerSeq ==
  ASSUME NEW S, NEW T, S \subseteq T, NEW s \in Seq(S)
  PROVE  s \in Seq(T)
  BY SeqMonotonic

LEMMA NextPages ==
  ASSUME NEW v, NEW n
  PROVE  Pages!HasNext(v, n) <=> n * PageSize < Cardinality(Chosen(v.filter))
  BY ListOf, SameListSizes DEF Pages!HasNext

(* The first page.                                                         *)
LEMMA OpenSound ==
  ASSUME RowsAreTyped, NEW v \in ListViews,
         NEW r, r = [order |-> v.order, filter |-> v.filter, page |-> 1,
                     first |-> Pages!Matching(v), seen |-> Pages!Page(v, 1),
                     still |-> TRUE, quiet |-> TRUE, end |-> ~Pages!HasNext(v, 1)]
  PROVE  ReaderIsSound(r)
<1> DEFINE C == Chosen(v.filter)
           c == Cardinality(C)
           q == Pages!Page(v, 1)
           s == Ordered(v.order, v.filter)
<1>1. v.order \in Pages!Orders /\ v.filter \in Pages!Filters
  BY DEF ListViews
<1>2. /\ C \in SUBSET Pages!Ids /\ C \in SUBSET Nat /\ c \in Nat
      /\ \A i \in C : Place(v.order, C, i) \in Nat /\ Place(v.order, C, i) + 1 \in 1 .. c
  BY <1>1, ChosenRows DEF Pages!Ids
<1>3. PageSize \in Nat \ {0} /\ 0 * PageSize = 0 /\ 1 * PageSize = PageSize /\ 0 + 1 = 1
  BY Multiples
<1>4. /\ q = SubSeq(s, 1, Least(PageSize, c)) /\ q \in Seq(C)
      /\ \A i \in C : Place(v.order, C, i) < PageSize => i \in Pages!ToSet(q)
  <2>1. LET p == Pages!Page(v, 0 + 1)
        IN  /\ p = SubSeq(s, 0 * PageSize + 1, Least((0 + 1) * PageSize, c))
            /\ p \in Seq(C)
            /\ \A i \in C : /\ Place(v.order, C, i) < (0 + 1) * PageSize
                            /\ ~(Place(v.order, C, i) < 0 * PageSize)
                            => i \in Pages!ToSet(p)
    <3>1. 0 \in Nat
      OBVIOUS
    <3> HIDE DEF s, C, c
    <3> QED
      BY <1>1, <3>1, PageRows DEF s, C, c
  <2> HIDE DEF s, C, c
  <2> QED
    BY <1>2, <1>3, <2>1
<1>5. Pages!HasNext(v, 1) <=> PageSize < c
  BY <1>3, NextPages
<1>6. Pages!Matching(v) = C
  BY ListOf
<1> HIDE DEF C, c, q, s
<1>7. /\ r.order = v.order /\ r.filter = v.filter /\ r.page = 1 /\ r.first = C /\ r.seen = q
      /\ r.still = TRUE /\ r.quiet = TRUE /\ (r.end <=> ~(PageSize < c)) /\ r.end \in BOOLEAN
  BY <1>5, <1>6 DEF q
<1>8. q \in Seq(Nat) /\ Pages!ToSet(q) \subseteq C
  BY <1>2, <1>4, SeqToSet, SmallerSeq
<1>9. r \in Readers
  <2>1. r = [order |-> v.order, filter |-> v.filter, page |-> 1, first |-> C,
              seen |-> q, still |-> TRUE, quiet |-> TRUE, end |-> r.end]
    BY <1>6, <1>7 DEF q
  <2>2. \A e \in BOOLEAN :
          [order |-> v.order, filter |-> v.filter, page |-> 1, first |-> C,
           seen |-> q, still |-> TRUE, quiet |-> TRUE, end |-> e] \in Readers
    BY <1>1, <1>2, <1>8 DEF Readers
  <2> QED
    BY <1>7, <2>1, <2>2
<1>10. SeenSoFar(r)
  <2>1. \A i \in C : Place(v.order, C, i) < 1 * PageSize => i \in Pages!ToSet(q)
    BY <1>3, <1>4
  <2>2. r.end => C \subseteq Pages!ToSet(q)
    BY <1>2, <1>3, <1>4, <1>7
  <2> QED
    BY <1>7, <2>1, <2>2 DEF SeenSoFar, C
<1>11. SeenInOrder(r)
  BY <1>3, <1>4, <1>7 DEF SeenInOrder, C, c, s
<1> QED
  BY <1>2, <1>7, <1>8, <1>9, <1>10, <1>11 DEF ReaderIsSound

(* The next page.                                                          *)
LEMMA TurnSound ==
  ASSUME RowsAreTyped, NEW r, ReaderIsSound(r), ~r.end,
         NEW n, n = r.page + 1,
         NEW t, t = [r EXCEPT !.page = n, !.seen = @ \o Pages!Page(r, n),
                              !.end = ~Pages!HasNext(r, n)]
  PROVE  ReaderIsSound(t)
<1> DEFINE C == Chosen(r.filter)
           c == Cardinality(C)
           m == r.page
           q == Pages!Page(r, n)
           s == Ordered(r.order, r.filter)
           a == m * PageSize
           b == n * PageSize
<1>1. r \in Readers /\ r.first \subseteq Pages!Ids /\ Pages!ToSet(r.seen) \subseteq Pages!Ids
  BY DEF ReaderIsSound
<1>2. /\ r.order \in Pages!Orders /\ r.filter \in Pages!Filters /\ r.page \in Nat \ {0}
      /\ r.seen \in Seq(Nat) /\ n \in Nat \ {0}
  BY <1>1, ReaderFields
<1>3. /\ C \in SUBSET Pages!Ids /\ C \in SUBSET Nat /\ c \in Nat
      /\ s \in Seq(C) /\ Len(s) = c
      /\ \A i \in C : Place(r.order, C, i) \in Nat /\ Place(r.order, C, i) + 1 \in 1 .. c
  <2>1. /\ C \in SUBSET Pages!Ids /\ c \in Nat /\ s \in Seq(C) /\ Len(s) = c
        /\ \A i \in C : Place(r.order, C, i) \in Nat /\ Place(r.order, C, i) + 1 \in 1 .. c
    BY <1>2, ChosenRows
  <2>2. C \in SUBSET Nat
    BY DEF Chosen, Pages!Ids
  <2> QED
    BY <2>1, <2>2
<1>4. a \in Nat /\ b = a + PageSize /\ PageSize \in Nat \ {0}
  BY <1>2, Multiples
<1>5. /\ q = SubSeq(s, a + 1, Least(b, c)) /\ q \in Seq(C)
      /\ \A i \in C : Place(r.order, C, i) < b /\ ~(Place(r.order, C, i) < a) =>
           i \in Pages!ToSet(q)
  <2>1. m \in Nat /\ n = m + 1
    BY <1>2
  <2>2. LET p == Pages!Page(r, m + 1)
        IN  /\ p = SubSeq(s, m * PageSize + 1, Least((m + 1) * PageSize, c))
            /\ p \in Seq(C)
            /\ \A i \in C : /\ Place(r.order, C, i) < (m + 1) * PageSize
                            /\ ~(Place(r.order, C, i) < m * PageSize)
                            => i \in Pages!ToSet(p)
    <3> HIDE DEF s, C, c, m
    <3> QED
      BY <1>2, <2>1, PageRows DEF s, C, c
  <2> HIDE DEF s, C, c
  <2> QED
    BY <2>1, <2>2
<1>6. Pages!HasNext(r, n) <=> b < c
  BY NextPages
<1> HIDE DEF C, c, q, s, a, b, m
<1>7. q \in Seq(Nat) /\ Pages!ToSet(q) \subseteq C
  BY <1>3, <1>5, SeqToSet, SmallerSeq
<1>8. /\ r.seen \o q \in Seq(Nat)
      /\ Pages!ToSet(r.seen \o q) = Pages!ToSet(r.seen) \cup Pages!ToSet(q)
  BY <1>2, <1>7, BothSeen
<1>9. /\ t \in Readers /\ t.order = r.order /\ t.filter = r.filter /\ t.page = n
      /\ t.first = r.first /\ t.seen = r.seen \o q /\ t.still = r.still /\ t.quiet = r.quiet
      /\ t.end <=> ~(b < c)
  BY <1>1, <1>2, <1>6, <1>8 DEF Readers, q
<1>10. ASSUME t.quiet PROVE SeenSoFar(t)
  <2>1. /\ r.first \subseteq C
        /\ \A i \in r.first : Place(r.order, C, i) < a => i \in Pages!ToSet(r.seen)
    BY <1>9, <1>10 DEF ReaderIsSound, SeenSoFar, C, a, m
  <2>2. \A i \in r.first : Place(r.order, C, i) < b =>
          i \in Pages!ToSet(r.seen) \cup Pages!ToSet(q)
    BY <1>5, <2>1
  <2>3. ~(b < c) => \A i \in r.first : Place(r.order, C, i) < b
    BY <1>3, <1>4, <2>1
  <2> QED
    BY <1>8, <1>9, <2>1, <2>2, <2>3 DEF SeenSoFar, C, b
<1>11. ASSUME t.still PROVE SeenInOrder(t)
  <2>1. r.seen = SubSeq(s, 1, Least(a, c)) /\ a < c
    BY <1>9, <1>11 DEF ReaderIsSound, SeenInOrder, C, c, s, a, m
  <2>2. Least(a, c) = a
    BY <2>1 DEF Least
  <2>3. Least(b, c) \in a .. c /\ a \in 0 .. c /\ 1 - 1 = 0
    BY <1>3, <1>4, <2>1 DEF Least
  <2>4. SubSeq(s, 1, a) \o SubSeq(s, a + 1, Least(b, c)) = SubSeq(s, 1, Least(b, c))
    <3>1. 1 \in 1 .. Len(s) + 1 /\ a \in 1 - 1 .. Len(s) /\ Least(b, c) \in a .. Len(s)
      BY <1>3, <2>3
    <3> QED
      BY <1>3, <3>1, ConcatAdjacentSubSeq
  <2>5. t.seen = SubSeq(s, 1, Least(b, c))
    BY <1>5, <1>9, <2>1, <2>2, <2>4
  <2> QED
    BY <1>9, <2>5 DEF SeenInOrder, C, c, s, b
<1> QED
  BY <1>1, <1>3, <1>7, <1>8, <1>9, <1>10, <1>11 DEF ReaderIsSound

LEMMA ReaderNow ==
  ASSUME ListInv
  PROVE  /\ RowsAreTyped /\ saved \in [Users -> Pages!Filters \cup {"none"}]
         /\ reader = Pages!NoView \/ ReaderIsSound(reader)
         /\ export = Pages!NoExport \/ ExportIsSound(export)
  BY DEF ListInv

LEMMA OpenStep ==
  ASSUME ListInv, NEW v \in ListViews, Pages!OpenList(v)
  PROVE  ListInv'
<1>1. /\ UNCHANGED <<row, export, saved>>
      /\ reader' = [order |-> v.order, filter |-> v.filter, page |-> 1,
                    first |-> Pages!Matching(v), seen |-> Pages!Page(v, 1),
                    still |-> TRUE, quiet |-> TRUE, end |-> ~Pages!HasNext(v, 1)]
  BY DEF Pages!OpenList
<1>2. \A r : r = reader' => ReaderIsSound(r)
  BY <1>1, OpenSound, ReaderNow
<1> QED
  BY <1>1, <1>2, OtherLists, ReaderNow

LEMMA TurnStep ==
  ASSUME ListInv, Pages!TurnPage
  PROVE  ListInv'
<1>1. PICK r : r = reader
  OBVIOUS
<1>2. PICK n : n = r.page + 1
  OBVIOUS
<1>3. /\ UNCHANGED <<row, export, saved>> /\ r # Pages!NoView /\ ~r.end
      /\ reader' = [r EXCEPT !.page = n, !.seen = @ \o Pages!Page(r, n),
                             !.end = ~Pages!HasNext(r, n)]
  BY <1>1, <1>2 DEF Pages!TurnPage
<1>4. ReaderIsSound(r)
  BY <1>1, <1>3, ReaderNow
<1>5. \A t : t = reader' => ReaderIsSound(t)
  BY <1>2, <1>3, <1>4, TurnSound, ReaderNow
<1> QED
  BY <1>3, <1>5, OtherLists, ReaderNow

LEMMA FilterStep ==
  ASSUME ListInv,
         \/ Pages!CloseList \/ Pages!WriteFile
         \/ \E u \in Users, f \in Pages!Filters : Pages!SaveFilter(u, f)
         \/ \E u \in Users : Pages!DropFilter(u)
  PROVE  ListInv'
<1>1. CASE Pages!CloseList
  BY <1>1, OtherLists, ReaderNow DEF Pages!CloseList
<1>2. CASE Pages!WriteFile
  BY <1>2, OtherLists, ReaderNow DEF Pages!WriteFile
<1>3. ASSUME NEW u \in Users, NEW f \in Pages!Filters, Pages!SaveFilter(u, f) PROVE ListInv'
  BY <1>3, OtherLists, ReaderNow DEF Pages!SaveFilter
<1>4. ASSUME NEW u \in Users, Pages!DropFilter(u) PROVE ListInv'
  BY <1>4, OtherLists, ReaderNow DEF Pages!DropFilter
<1> QED
  BY <1>1, <1>2, <1>3, <1>4

LEMMA CountStep ==
  ASSUME ListInv, NEW v \in ListViews, Pages!CountRows(v)
  PROVE  ListInv'
<1> DEFINE C == Chosen(v.filter)
           e == [order |-> v.order, filter |-> v.filter, count |-> Cardinality(C), rows |-> C]
<1>1. UNCHANGED <<row, reader, saved>> /\ export' = e
  BY ListOf, SameListSizes DEF Pages!CountRows
<1>2. v.order \in Pages!Orders /\ v.filter \in Pages!Filters
  BY DEF ListViews
<1>3. C \in SUBSET Nat /\ Cardinality(C) \in Nat
  BY <1>2, ChosenRows, ReaderNow DEF Pages!Ids
<1> HIDE DEF C
<1>4. ExportIsSound(e)
  BY <1>2, <1>3 DEF ExportIsSound, Exports
<1> HIDE DEF e
<1> QED
  BY <1>1, <1>4, OtherLists, ReaderNow

LEMMA ListStep ==
  ASSUME ListInv, Pages!Next \/ UNCHANGED listVars
  PROVE  ListInv'
<1>1. CASE UNCHANGED listVars
  BY <1>1, OtherLists, ReaderNow DEF listVars
<1>2. \A o \in Pages!Orders, f \in Pages!Filters : [order |-> o, filter |-> f] \in ListViews
  BY DEF ListViews
<1>3. "newest" \in Pages!Orders /\ "latest" \in Pages!Orders /\ "oldest" \in Pages!Orders
  BY DEF Pages!Orders
<1>4. CASE Pages!AdminLists
  BY <1>2, <1>4, OpenStep, TurnStep, FilterStep DEF Pages!AdminLists
<1>5. CASE Pages!AuditPage
  BY <1>2, <1>3, <1>5, OpenStep, TurnStep DEF Pages!AuditPage
<1>6. CASE Pages!ApiLists
  BY <1>2, <1>3, <1>6, OpenStep DEF Pages!ApiLists
<1>7. CASE Pages!FilterPages
  <2>1. ASSUME NEW u \in Users, Pages!OpenSaved(u) PROVE ListInv'
    <3>1. saved[u] \in Pages!Filters
      BY <2>1, ReaderNow DEF Pages!OpenSaved
    <3>2. Pages!OpenList([order |-> "newest", filter |-> saved[u]])
      BY <2>1 DEF Pages!OpenSaved
    <3> QED
      BY <1>2, <1>3, <3>1, <3>2, OpenStep
  <2> QED
    BY <1>7, <2>1, FilterStep DEF Pages!FilterPages
<1>8. CASE Pages!ExportPage
  BY <1>2, <1>8, CountStep, FilterStep DEF Pages!ExportPage
<1> QED
  BY <1>1, <1>4, <1>5, <1>6, <1>7, <1>8, AddStep, EditStep DEF Pages!Next

LEMMA ListInit == Pages!Init => ListInv
<1> SUFFICES ASSUME Pages!Init PROVE ListInv
  OBVIOUS
<1>1. row = <<>> /\ row \in Seq(ListedRows) /\ Len(row) = 0
  BY DEF Pages!Init
<1>2. RowsAreTyped
  BY <1>1, ListConstants DEF RowsAreTyped
<1> QED
  BY <1>2 DEF Pages!Init, ListInv

-----------------------------------------------------------------------------
LEMMA ListsAreTyped == ListInv => Pages!ListsTypeOK
<1> SUFFICES ASSUME ListInv PROVE Pages!ListsTypeOK
  OBVIOUS
<1>1. reader # Pages!NoView =>
        /\ reader.order \in Pages!Orders /\ reader.filter \in Pages!Filters
        /\ reader.first \cup Pages!ToSet(reader.seen) \subseteq Pages!Ids
  BY ReaderNow, ReaderFields DEF ReaderIsSound
<1>2. export # Pages!NoExport => export.count = Pages!Cardinality(export.rows)
  BY ReaderNow, SameListSizes DEF ExportIsSound
<1> QED
  BY <1>1, <1>2, ReaderNow DEF Pages!ListsTypeOK, RowsAreTyped

LEMMA ListsAreWhole == ListInv => Pages!PagesAreWhole
<1> SUFFICES ASSUME ListInv, reader # Pages!NoView, reader.end
             PROVE  /\ reader.quiet => reader.first \subseteq Pages!ToSet(reader.seen)
                    /\ reader.still => Pages!IsInjective(reader.seen)
  BY DEF Pages!PagesAreWhole
<1>1. ReaderIsSound(reader)
  BY ReaderNow
<1>2. reader.quiet => reader.first \subseteq Pages!ToSet(reader.seen)
  BY <1>1 DEF ReaderIsSound, SeenSoFar
<1>3. ASSUME reader.still PROVE Pages!IsInjective(reader.seen)
  <2> DEFINE C == Chosen(reader.filter)
             c == Cardinality(C)
             s == Ordered(reader.order, reader.filter)
             z == Least(reader.page * PageSize, c)
  <2>1. reader.seen = SubSeq(s, 1, z)
    BY <1>1, <1>3 DEF ReaderIsSound, SeenInOrder
  <2>2. /\ reader.order \in Pages!Orders /\ reader.page \in Nat
    BY <1>1, ReaderFields DEF ReaderIsSound
  <2>3. /\ c \in Nat /\ s \in Seq(C) /\ Len(s) = c /\ Pages!IsInjective(s)
        /\ \A i \in 1 .. c : s[i] \in C
    BY <2>2, ChosenRows, ReaderNow
  <2>4. z \in Nat /\ z <= c
    <3>1. reader.page * PageSize \in Nat
      BY <2>2, Multiples
    <3> HIDE DEF c
    <3> QED
      BY <2>3, <3>1 DEF Least
  <2> HIDE DEF C, c, s, z
  <2>5. /\ reader.seen \in Seq(C) /\ Len(reader.seen) = z
        /\ \A i \in 1 .. z : reader.seen[i] = s[i]
    <3>1. 1 \in Int /\ z \in Int /\ \A i \in 1 .. z : s[i] \in C
      BY <2>3, <2>4
    <3>2. /\ SubSeq(s, 1, z) \in Seq(C)
          /\ Len(SubSeq(s, 1, z)) = IF 1 <= z THEN z - 1 + 1 ELSE 0
          /\ \A i \in 1 .. z - 1 + 1 : SubSeq(s, 1, z)[i] = s[1 + i - 1]
      BY <3>1, SubSeqProperties
    <3> QED
      BY <2>1, <2>4, <3>2
  <2>6. DOMAIN reader.seen = 1 .. z /\ DOMAIN s = 1 .. c /\ \A i \in 1 .. z : i \in 1 .. c
    BY <2>3, <2>4, <2>5
  <2> QED
    BY <2>3, <2>5, <2>6 DEF Pages!IsInjective
<1> QED
  BY <1>2, <1>3

LEMMA ExportsAreWhole == ListInv => Pages!ExportIsWhole
<1> SUFFICES ASSUME ListInv, export # Pages!NoExport, export.count <= Cap,
                    export.rows = Pages!Matching(export)
             PROVE  Pages!ToSet(Pages!FileOf(export)) = export.rows
  BY DEF Pages!ExportIsWhole
<1> DEFINE C == Chosen(export.filter)
           c == Cardinality(C)
           s == Ordered(export.order, export.filter)
<1>1. ExportIsSound(export) /\ export.order \in Pages!Orders
  BY ReaderNow DEF ExportIsSound, Exports
<1>2. export.rows = C /\ c <= Cap
  BY <1>1, ListOf DEF ExportIsSound
<1>3. c \in Nat /\ s \in Seq(C) /\ Len(s) = c /\ Pages!ToSet(s) = C
  BY <1>1, ChosenRows, ReaderNow
<1>4. Pages!FileOf(export) = SubSeq(s, 1, Pages!Least(Cap, Len(s)))
  BY ListOf DEF Pages!FileOf
<1> HIDE DEF C, c, s
<1>5. Pages!Least(Cap, Len(s)) = Len(s)
  BY <1>2, <1>3, ListConstants DEF Pages!Least
<1>6. Pages!FileOf(export) = s
  BY <1>3, <1>4, <1>5, SubSeqFull
<1> QED
  BY <1>2, <1>3, <1>6

-----------------------------------------------------------------------------
(* Searches.                                                               *)
Once(s) == s \in Seq(Pages!Ids) /\ Pages!IsInjective(s)

LEMMA SizeOfOnce ==
  ASSUME NEW s, Once(s)
  PROVE  /\ IsFiniteSet(Pages!ToSet(s)) /\ Cardinality(Pages!ToSet(s)) = Len(s)
         /\ Len(s) \in Nat /\ Pages!ToSet(s) \in SUBSET Pages!Ids
<1>1. Len(s) \in Nat /\ DOMAIN s = 1 .. Len(s) /\ s \in [1 .. Len(s) -> Pages!Ids]
  BY DEF Once
<1>2. IsFiniteSet(1 .. Len(s)) /\ Cardinality(1 .. Len(s)) = Len(s)
  <2>1. 1 \in Int /\ Len(s) \in Int /\ (1 > Len(s) => Len(s) = 0) /\ Len(s) - 1 + 1 = Len(s)
    BY <1>1
  <2> QED
    BY <2>1, FS_Interval
<1>3. s \in Bijection(1 .. Len(s), Pages!ToSet(s))
  <2>1. s \in [1 .. Len(s) -> Pages!ToSet(s)]
    BY <1>1 DEF Pages!ToSet
  <2>2. \A i, j \in 1 .. Len(s) : s[i] = s[j] => i = j
    BY <1>1 DEF Once, Pages!IsInjective
  <2>3. \A x \in Pages!ToSet(s) : \E i \in 1 .. Len(s) : s[i] = x
    BY <1>1 DEF Pages!ToSet
  <2> QED
    BY <2>1, <2>2, <2>3 DEF Bijection, Injection, Surjection, IsInjective
<1>4. Pages!ToSet(s) \in SUBSET Pages!Ids
  BY <1>1 DEF Pages!ToSet
<1> QED
  BY <1>1, <1>2, <1>3, <1>4, FS_Bijection DEF ExistsBijection

LEMMA LeastOfTwo ==
  ASSUME NEW a \in Nat, NEW b \in Nat
  PROVE  /\ Least(a, b) \in Nat /\ Least(a, b) <= a /\ Least(a, b) <= b
         /\ Least(a, b) < a => Least(a, b) = b
  BY DEF Least

LEMMA CutOnce ==
  ASSUME NEW s, Once(s), NEW c, c = Pages!Cut(s)
  PROVE  /\ Once(c) /\ Len(c) \in Nat /\ Len(c) <= Limit
         /\ Pages!ToSet(c) \subseteq Pages!ToSet(s)
         /\ Len(c) < Limit => c = s
<1> DEFINE z == Least(Limit, Len(s))
<1>1. /\ s \in Seq(Pages!Ids) /\ Len(s) \in Nat /\ DOMAIN s = 1 .. Len(s) /\ Limit \in Nat
  BY ListConstants DEF Once
<1>8. \A i \in 1 .. Len(s) : s[i] \in Pages!Ids
  BY DEF Once
<1>2. c = SubSeq(s, 1, z)
  BY DEF Pages!Cut, Pages!Least, Least
<1>3. z \in Nat /\ z <= Len(s) /\ z <= Limit /\ (z < Limit => z = Len(s))
  BY <1>1, LeastOfTwo
<1> HIDE DEF z
<1>4. c \in Seq(Pages!Ids) /\ Len(c) = z /\ \A i \in 1 .. z : c[i] = s[i]
  <2>1. 1 \in Int /\ z \in Int /\ \A i \in 1 .. z : s[i] \in Pages!Ids
    <3>0. Len(s) \in Nat
      BY <1>1
    <3>1. \A i \in 1 .. z : i \in 1 .. Len(s)
      BY <1>3, <3>0
    <3>2. \A i \in 1 .. z : s[i] \in Pages!Ids
      BY <1>8, <3>1
    <3> QED
      BY <1>3, <3>2
  <2>2. /\ SubSeq(s, 1, z) \in Seq(Pages!Ids)
        /\ Len(SubSeq(s, 1, z)) = IF 1 <= z THEN z - 1 + 1 ELSE 0
        /\ \A i \in 1 .. z - 1 + 1 : SubSeq(s, 1, z)[i] = s[1 + i - 1]
    BY <2>1, SubSeqProperties
  <2> QED
    BY <1>2, <1>3, <2>2
<1>5. DOMAIN c = 1 .. z /\ \A i \in 1 .. z : i \in 1 .. Len(s)
  BY <1>3, <1>4
<1>6. Pages!IsInjective(c) /\ Pages!ToSet(c) \subseteq Pages!ToSet(s)
  BY <1>1, <1>4, <1>5 DEF Once, Pages!IsInjective, Pages!ToSet
<1>7. z < Limit => c = s
  BY <1>1, <1>2, <1>3, SubSeqFull
<1> QED
  BY <1>3, <1>4, <1>6, <1>7 DEF Once

LEMMA JoinOnce ==
  ASSUME NEW s, Once(s), NEW t, Once(t), NEW u, u = s \o t,
         \A i : ~(i \in Pages!ToSet(s) /\ i \in Pages!ToSet(t))
  PROVE  /\ Once(u) /\ Len(u) = Len(s) + Len(t)
         /\ Pages!ToSet(u) = Pages!ToSet(s) \cup Pages!ToSet(t)
<1>1. s \in Seq(Pages!Ids) /\ t \in Seq(Pages!Ids) /\ Len(s) \in Nat /\ Len(t) \in Nat
      /\ DOMAIN s = 1 .. Len(s) /\ DOMAIN t = 1 .. Len(t)
  BY DEF Once
<1>2. /\ u \in Seq(Pages!Ids) /\ Len(u) = Len(s) + Len(t)
      /\ \A i \in 1 .. Len(s) + Len(t) : u[i] = IF i <= Len(s) THEN s[i] ELSE t[i - Len(s)]
  BY <1>1, ConcatProperties
<1>3. DOMAIN u = 1 .. Len(s) + Len(t)
  BY <1>1, <1>2
<1>4. Pages!ToSet(u) = Pages!ToSet(s) \cup Pages!ToSet(t)
  BY <1>1, BothSeen
<1>5. ASSUME NEW i \in 1 .. Len(s) + Len(t)
      PROVE  IF i <= Len(s) THEN i \in 1 .. Len(s) /\ u[i] = s[i] /\ u[i] \in Pages!ToSet(s)
             ELSE i - Len(s) \in 1 .. Len(t) /\ u[i] = t[i - Len(s)] /\ u[i] \in Pages!ToSet(t)
  <2>1. IF i <= Len(s) THEN i \in 1 .. Len(s) ELSE i - Len(s) \in 1 .. Len(t)
    BY <1>1
  <2>2. u[i] = IF i <= Len(s) THEN s[i] ELSE t[i - Len(s)]
    BY <1>2
  <2>3. CASE i <= Len(s)
    BY <1>1, <2>1, <2>2, <2>3 DEF Pages!ToSet
  <2>4. CASE ~(i <= Len(s))
    BY <1>1, <2>1, <2>2, <2>4 DEF Pages!ToSet
  <2> QED
    BY <2>3, <2>4
<1>6. ASSUME NEW i \in 1 .. Len(s) + Len(t), NEW j \in 1 .. Len(s) + Len(t), u[i] = u[j]
      PROVE  i = j
  <2>1. i <= Len(s) <=> j <= Len(s)
    BY <1>5, <1>6
  <2>2. CASE i <= Len(s)
    <3>1. i \in 1 .. Len(s) /\ j \in 1 .. Len(s) /\ s[i] = s[j]
      BY <1>5, <1>6, <2>1, <2>2
    <3> QED
      BY <1>1, <3>1 DEF Once, Pages!IsInjective
  <2>3. CASE ~(i <= Len(s))
    <3>1. /\ i - Len(s) \in 1 .. Len(t) /\ j - Len(s) \in 1 .. Len(t)
          /\ t[i - Len(s)] = t[j - Len(s)]
      BY <1>5, <1>6, <2>1, <2>3
    <3>2. i - Len(s) = j - Len(s)
      BY <1>1, <3>1 DEF Once, Pages!IsInjective
    <3> QED
      BY <1>1, <3>2
  <2> QED
    BY <2>2, <2>3
<1> QED
  BY <1>2, <1>3, <1>4, <1>6 DEF Once, Pages!IsInjective

OwnRows(kind) == {i \in Pages!Of(kind) : row[i].found}
TaggedRows(kind) == {i \in Pages!Of(kind) : row[i].tags > 0}

LEMMA KindsOfRows ==
  ASSUME RowsAreTyped, NEW kind
  PROVE  /\ Pages!Of(kind) \in SUBSET Pages!Ids
         /\ OwnRows(kind) \in SUBSET Pages!Ids /\ TaggedRows(kind) \in SUBSET Pages!Ids
         /\ \A i \in OwnRows(kind) \cup TaggedRows(kind) : row[i].kind = kind
  BY DEF Pages!Of, OwnRows, TaggedRows

LEMMA NewestOnce ==
  ASSUME RowsAreTyped, NEW S \in SUBSET Pages!Ids, NEW s, s = Pages!Newest(S)
  PROVE  /\ Once(s) /\ Pages!ToSet(s) = S
         /\ Len(s) = Cardinality(S) /\ Cardinality(S) \in Nat
<1>1. "newest" \in Pages!Orders /\ s = Pages!InOrder("newest", S)
  BY DEF Pages!Orders, Pages!Newest
<1>2. s \in Seq(S) /\ Pages!IsInjective(s) /\ Pages!ToSet(s) = S
      /\ Len(s) = Cardinality(S) /\ Cardinality(S) \in Nat
  BY <1>1, ListIsOrdered
<1>3. s \in Seq(Pages!Ids)
  BY <1>2, SmallerSeq
<1> QED
  BY <1>2, <1>3 DEF Once

(* What a search finds of one kind: by the rows' own words, and further    *)
(* ones by their tags.                                                     *)
LEMMA FoundOfAKind ==
  ASSUME RowsAreTyped, NEW kind,
         NEW own, own = Pages!Own(kind), NEW more, more = Pages!Further(kind)
  PROVE  /\ Once(own) /\ Len(own) \in Nat /\ Pages!ToSet(own) \subseteq OwnRows(kind)
         /\ Once(more) /\ Len(more) \in Nat /\ Pages!ToSet(more) \subseteq TaggedRows(kind)
         /\ \A i : ~(i \in Pages!ToSet(own) /\ i \in Pages!ToSet(more))
         /\ Len(own) < Limit => Pages!ToSet(own) = OwnRows(kind)
         /\ Len(own) + Len(more) < Limit =>
              Pages!ToSet(own) \cup Pages!ToSet(more) = OwnRows(kind) \cup TaggedRows(kind)
<1> DEFINE all == Pages!Newest(OwnRows(kind))
           allTagged == Pages!Newest(TaggedRows(kind))
           tagged == Pages!Tagged(kind)
           rest == Pages!ToSet(tagged) \ Pages!ToSet(own)
<1>1. own = Pages!Cut(all) /\ tagged = Pages!Cut(allTagged) /\ more = Pages!Newest(rest)
  BY DEF Pages!Own, Pages!Tagged, Pages!Further, OwnRows, TaggedRows
<1>2. Once(all) /\ Pages!ToSet(all) = OwnRows(kind)
  BY KindsOfRows, NewestOnce
<1>3. Once(allTagged) /\ Pages!ToSet(allTagged) = TaggedRows(kind)
  BY KindsOfRows, NewestOnce
<1> HIDE DEF all, allTagged, tagged, rest
<1>4. /\ Once(own) /\ Len(own) \in Nat /\ Pages!ToSet(own) \subseteq OwnRows(kind)
      /\ Len(own) < Limit => own = all
  BY <1>1, <1>2, CutOnce
<1>5. /\ Once(tagged) /\ Len(tagged) \in Nat /\ Len(tagged) <= Limit
      /\ Pages!ToSet(tagged) \subseteq TaggedRows(kind)
      /\ Len(tagged) < Limit => tagged = allTagged
  BY <1>1, <1>3, CutOnce
<1>6. rest \in SUBSET Pages!Ids
  BY <1>5, KindsOfRows DEF rest
<1>7. Once(more) /\ Pages!ToSet(more) = rest /\ Len(more) = Cardinality(rest) /\ Len(more) \in Nat
  BY <1>1, <1>6, NewestOnce
<1>8. ASSUME Len(own) + Len(more) < Limit
      PROVE  Pages!ToSet(own) \cup Pages!ToSet(more) = OwnRows(kind) \cup TaggedRows(kind)
  <2>1. Len(own) < Limit
    BY <1>4, <1>7, <1>8, ListConstants
  <2>2. own = all
    BY <1>4, <2>1
  <2> DEFINE both == own \o more
  <2>3. /\ Once(both) /\ Len(both) = Len(own) + Len(more)
        /\ Pages!ToSet(both) = Pages!ToSet(own) \cup Pages!ToSet(more)
    BY <1>4, <1>7, JoinOnce DEF rest
  <2> HIDE DEF both
  <2>4. Pages!ToSet(tagged) \subseteq Pages!ToSet(both)
    BY <1>7, <2>3 DEF rest
  <2>5. /\ IsFiniteSet(Pages!ToSet(both)) /\ Cardinality(Pages!ToSet(both)) = Len(both)
        /\ Cardinality(Pages!ToSet(tagged)) = Len(tagged)
    BY <1>5, <2>3, SizeOfOnce
  <2>6. Cardinality(Pages!ToSet(tagged)) <= Cardinality(Pages!ToSet(both))
    BY <2>4, <2>5, FS_Subset
  <2>7. Len(tagged) < Limit
    BY <1>4, <1>5, <1>7, <1>8, <2>3, <2>5, <2>6, ListConstants
  <2>8. tagged = allTagged
    BY <1>5, <2>7
  <2> QED
    BY <1>2, <1>3, <1>7, <2>2, <2>8 DEF rest
<1>9. Pages!ToSet(more) \subseteq TaggedRows(kind)
  BY <1>5, <1>7 DEF rest
<1>10. \A i : ~(i \in Pages!ToSet(own) /\ i \in Pages!ToSet(more))
  BY <1>7 DEF rest
<1>11. Len(own) < Limit => Pages!ToSet(own) = OwnRows(kind)
  BY <1>2, <1>4
<1> QED
  BY <1>4, <1>7, <1>8, <1>9, <1>10, <1>11

LEMMA HitsByKind ==
  ASSUME RowsAreTyped
  PROVE  /\ Pages!Hits({"guest"}) =
              OwnRows("guest") \cup TaggedRows("guest") \cup OwnRows("reservation")
              \cup OwnRows("invoice")
         /\ Pages!Hits({"guest", "reservation"}) =
              OwnRows("guest") \cup TaggedRows("guest") \cup OwnRows("reservation")
              \cup TaggedRows("reservation") \cup OwnRows("invoice")
<1>1. \A i \in Pages!Ids : row[i].kind \in {"guest", "reservation", "invoice"}
  BY ListedFields DEF Pages!RowKinds
<1> QED
  BY <1>1 DEF Pages!Hits, OwnRows, TaggedRows, Pages!Of

(* A cut that is not full has cut nothing.                                 *)
LEMMA ShownOnce ==
  ASSUME NEW s, Once(s), NEW hits, Pages!ToSet(s) \subseteq hits,
         Len(s) < Limit => Pages!ToSet(s) = hits
  PROVE  Pages!ShowsAll(Pages!Cut(s), hits)
<1> DEFINE c == Pages!Cut(s)
<1>1. /\ Once(c) /\ Len(c) \in Nat /\ Len(c) <= Limit
      /\ Pages!ToSet(c) \subseteq Pages!ToSet(s)
      /\ Len(c) < Limit => c = s
  BY CutOnce
<1> HIDE DEF c
<1> QED
  BY <1>1 DEF Pages!ShowsAll, Once, c

LEMMA SearchesShowAll == ListInv => Pages!SearchShowsAll
<1> SUFFICES ASSUME RowsAreTyped PROVE Pages!SearchShowsAll
  BY ReaderNow
<1> DEFINE g == Pages!Own("guest")
           h == Pages!Further("guest")
           r == Pages!Own("reservation")
           q == Pages!Further("reservation")
           v == Pages!Own("invoice")
           GO == OwnRows("guest")
           GT == TaggedRows("guest")
           RO == OwnRows("reservation")
           RT == TaggedRows("reservation")
           VO == OwnRows("invoice")
<1>1. /\ Once(g) /\ Len(g) \in Nat /\ Pages!ToSet(g) \subseteq GO
      /\ Once(h) /\ Len(h) \in Nat /\ Pages!ToSet(h) \subseteq GT
      /\ \A i : ~(i \in Pages!ToSet(g) /\ i \in Pages!ToSet(h))
      /\ Len(g) + Len(h) < Limit => Pages!ToSet(g) \cup Pages!ToSet(h) = GO \cup GT
  BY FoundOfAKind
<1>2. /\ Once(r) /\ Len(r) \in Nat /\ Pages!ToSet(r) \subseteq RO
      /\ Once(q) /\ Len(q) \in Nat /\ Pages!ToSet(q) \subseteq RT
      /\ \A i : ~(i \in Pages!ToSet(r) /\ i \in Pages!ToSet(q))
      /\ Len(r) < Limit => Pages!ToSet(r) = RO
      /\ Len(r) + Len(q) < Limit => Pages!ToSet(r) \cup Pages!ToSet(q) = RO \cup RT
  BY FoundOfAKind
<1>3. /\ Once(v) /\ Len(v) \in Nat /\ Pages!ToSet(v) \subseteq VO
      /\ Len(v) < Limit => Pages!ToSet(v) = VO
  BY FoundOfAKind
<1>4. /\ \A i \in GO \cup GT : row[i].kind = "guest"
      /\ \A i \in RO \cup RT : row[i].kind = "reservation"
      /\ \A i \in VO : row[i].kind = "invoice"
  BY KindsOfRows
<1>5. /\ Pages!Search = Pages!Cut(((g \o h) \o r) \o v)
      /\ Pages!ApiSearch = Pages!Cut((((g \o r) \o h) \o q) \o v)
  BY DEF Pages!Search, Pages!ApiSearch
<1>6. /\ Pages!Hits({"guest"}) = GO \cup GT \cup RO \cup VO
      /\ Pages!Hits({"guest", "reservation"}) = GO \cup GT \cup RO \cup RT \cup VO
  BY HitsByKind
<1>7. Limit \in Nat
  BY ListConstants
<1> HIDE DEF g, h, r, q, v, GO, GT, RO, RT, VO
<1>8. Pages!ShowsAll(Pages!Search, Pages!Hits({"guest"}))
  <2> DEFINE a == g \o h
             b == a \o r
             c == b \o v
  <2>1. /\ Once(a) /\ Len(a) = Len(g) + Len(h)
        /\ Pages!ToSet(a) = Pages!ToSet(g) \cup Pages!ToSet(h)
    BY <1>1, JoinOnce
  <2> HIDE DEF a
  <2>2. \A i : ~(i \in Pages!ToSet(a) /\ i \in Pages!ToSet(r))
    BY <1>1, <1>2, <1>4, <2>1
  <2>3. /\ Once(b) /\ Len(b) = Len(a) + Len(r)
        /\ Pages!ToSet(b) = Pages!ToSet(a) \cup Pages!ToSet(r)
    BY <1>2, <2>1, <2>2, JoinOnce
  <2> HIDE DEF b
  <2>4. \A i : ~(i \in Pages!ToSet(b) /\ i \in Pages!ToSet(v))
    BY <1>1, <1>2, <1>3, <1>4, <2>1, <2>3
  <2>5. /\ Once(c) /\ Len(c) = Len(b) + Len(v)
        /\ Pages!ToSet(c) = Pages!ToSet(b) \cup Pages!ToSet(v)
    BY <1>3, <2>3, <2>4, JoinOnce
  <2>6. Pages!Search = Pages!Cut(c)
    BY <1>5 DEF a, b
  <2> HIDE DEF c
  <2>7. Pages!ToSet(c) \subseteq Pages!Hits({"guest"})
    BY <1>1, <1>2, <1>3, <1>6, <2>1, <2>3, <2>5
  <2>8. ASSUME Len(c) < Limit PROVE Pages!ToSet(c) = Pages!Hits({"guest"})
    <3>1. Len(g) + Len(h) < Limit /\ Len(r) < Limit /\ Len(v) < Limit
      BY <1>1, <1>2, <1>3, <1>7, <2>1, <2>3, <2>5, <2>8
    <3> QED
      BY <1>1, <1>2, <1>3, <1>6, <2>1, <2>3, <2>5, <3>1
  <2> QED
    BY <2>5, <2>6, <2>7, <2>8, ShownOnce
<1>9. Pages!ShowsAll(Pages!ApiSearch, Pages!Hits({"guest", "reservation"}))
  <2> DEFINE a == g \o r
             b == a \o h
             c == b \o q
             d == c \o v
  <2>0. \A i : ~(i \in Pages!ToSet(g) /\ i \in Pages!ToSet(r))
    BY <1>1, <1>2, <1>4
  <2>1. /\ Once(a) /\ Len(a) = Len(g) + Len(r)
        /\ Pages!ToSet(a) = Pages!ToSet(g) \cup Pages!ToSet(r)
    BY <1>1, <1>2, <2>0, JoinOnce
  <2> HIDE DEF a
  <2>2. \A i : ~(i \in Pages!ToSet(a) /\ i \in Pages!ToSet(h))
    BY <1>1, <1>2, <1>4, <2>1
  <2>3. /\ Once(b) /\ Len(b) = Len(a) + Len(h)
        /\ Pages!ToSet(b) = Pages!ToSet(a) \cup Pages!ToSet(h)
    BY <1>1, <2>1, <2>2, JoinOnce
  <2> HIDE DEF b
  <2>4. \A i : ~(i \in Pages!ToSet(b) /\ i \in Pages!ToSet(q))
    BY <1>1, <1>2, <1>4, <2>1, <2>3
  <2>5. /\ Once(c) /\ Len(c) = Len(b) + Len(q)
        /\ Pages!ToSet(c) = Pages!ToSet(b) \cup Pages!ToSet(q)
    BY <1>2, <2>3, <2>4, JoinOnce
  <2> HIDE DEF c
  <2>6. \A i : ~(i \in Pages!ToSet(c) /\ i \in Pages!ToSet(v))
    BY <1>1, <1>2, <1>3, <1>4, <2>1, <2>3, <2>5
  <2>7. /\ Once(d) /\ Len(d) = Len(c) + Len(v)
        /\ Pages!ToSet(d) = Pages!ToSet(c) \cup Pages!ToSet(v)
    BY <1>3, <2>5, <2>6, JoinOnce
  <2>8. Pages!ApiSearch = Pages!Cut(d)
    BY <1>5 DEF a, b, c
  <2> HIDE DEF d
  <2>9. Pages!ToSet(d) \subseteq Pages!Hits({"guest", "reservation"})
    BY <1>1, <1>2, <1>3, <1>6, <2>1, <2>3, <2>5, <2>7
  <2>10. ASSUME Len(d) < Limit PROVE Pages!ToSet(d) = Pages!Hits({"guest", "reservation"})
    <3>1. Len(g) + Len(h) < Limit /\ Len(r) + Len(q) < Limit /\ Len(v) < Limit
      BY <1>1, <1>2, <1>3, <1>7, <2>1, <2>3, <2>5, <2>7, <2>10
    <3>2. Pages!ToSet(d) = (Pages!ToSet(g) \cup Pages!ToSet(h))
                           \cup (Pages!ToSet(r) \cup Pages!ToSet(q)) \cup Pages!ToSet(v)
      BY <2>1, <2>3, <2>5, <2>7
    <3> QED
      BY <1>1, <1>2, <1>3, <1>6, <3>1, <3>2
  <2> QED
    BY <2>7, <2>8, <2>9, <2>10, ShownOnce
<1> QED
  BY <1>8, <1>9 DEF Pages!SearchShowsAll

-----------------------------------------------------------------------------
(* The views of the calendar.                                              *)
LEMMA SameViewSizes ==
  \A S : Views!Cardinality(S) = Cardinality(S)
  BY DEF Views!Cardinality, Cardinality

(* One leaves before the other comes.                                      *)
Apart(s, t) == s.to <= t.from \/ t.to <= s.from

ViewInv ==
  /\ Views!ViewsTypeOK /\ IsFiniteSet(stays)
  /\ \A s, t \in Views!Confirmed : s # t /\ s.unit = t.unit => Apart(s, t)

LEMMA ViewConstants ==
  Blocked \subseteq Units /\ CalendarDays \in Nat \ {0} /\ MaxStays \in Nat
  BY Assumptions DEF Views!ViewsAssumption

LEMMA StayFields ==
  ASSUME NEW s \in Views!Stays
  PROVE  /\ s.unit \in Units /\ s.from \in Nat /\ s.to \in Nat /\ s.from < s.to
         /\ s.status \in {"confirmed", "cancelled"}
  BY ViewConstants DEF Views!Stays, Views!Days

LEMMA ConfirmedFields ==
  ASSUME ViewInv, NEW s \in Views!Confirmed
  PROVE  /\ s \in Views!Stays /\ s \in stays /\ s.status = "confirmed"
         /\ s.unit \in Units /\ s.from \in Nat /\ s.to \in Nat /\ s.from < s.to
  BY StayFields DEF ViewInv, Views!ViewsTypeOK, Views!Confirmed

LEMMA ApartNights ==
  ASSUME NEW s \in Views!Stays, NEW t \in Views!Stays,
         Views!Nights(s) \cap Views!Nights(t) = {}
  PROVE  Apart(s, t)
<1>1. /\ s.from \in Nat /\ s.to \in Nat /\ s.from < s.to
      /\ t.from \in Nat /\ t.to \in Nat /\ t.from < t.to
  BY StayFields
<1>2. s.from \in Views!Nights(s) /\ t.from \in Views!Nights(t)
  BY <1>1 DEF Views!Nights
<1>3. s.from \notin Views!Nights(t) /\ t.from \notin Views!Nights(s)
  BY <1>2
<1> QED
  BY <1>1, <1>3 DEF Views!Nights, Apart

LEMMA BookStep ==
  ASSUME ViewInv, NEW s \in Views!Stays, Views!Book(s)
  PROVE  ViewInv'
<1>1. /\ s.status = "confirmed" /\ stays' = stays \cup {s} /\ UNCHANGED <<work, viewDay>>
      /\ \A t \in Views!Of(s.unit) : Views!Nights(s) \cap Views!Nights(t) = {}
  BY DEF Views!Book
<1>2. Views!ViewsTypeOK' /\ IsFiniteSet(stays')
  BY <1>1, FS_AddElement DEF ViewInv, Views!ViewsTypeOK
<1>3. Views!Confirmed' = Views!Confirmed \cup {s}
  BY <1>1 DEF Views!Confirmed
<1>4. ASSUME NEW t \in Views!Confirmed, t.unit = s.unit
      PROVE  Apart(s, t) /\ Apart(t, s)
  <2>1. t \in Views!Of(s.unit) /\ t \in Views!Stays
    BY <1>4, ConfirmedFields DEF Views!Of
  <2>2. Apart(s, t)
    BY <1>1, <2>1, ApartNights
  <2> QED
    BY <2>2 DEF Apart
<1>5. \A q, t \in Views!Confirmed' : q # t /\ q.unit = t.unit => Apart(q, t)
  BY <1>3, <1>4 DEF ViewInv
<1> QED
  BY <1>2, <1>5 DEF ViewInv, Apart

LEMMA CancelStep ==
  ASSUME ViewInv, NEW s \in Views!Stays, Views!Cancel(s)
  PROVE  ViewInv'
<1> DEFINE t == [s EXCEPT !.status = "cancelled"]
<1>1. /\ s \in Views!Confirmed /\ stays' = (stays \ {s}) \cup {t}
      /\ UNCHANGED <<work, viewDay>>
  BY DEF Views!Cancel
<1>2. t \in Views!Stays /\ t.status = "cancelled"
  BY StayFields DEF Views!Stays
<1> HIDE DEF t
<1>3. Views!ViewsTypeOK'
  BY <1>1, <1>2 DEF ViewInv, Views!ViewsTypeOK
<1>4. IsFiniteSet(stays')
  <2>1. IsFiniteSet(stays \ {s})
    BY FS_Subset DEF ViewInv
  <2> QED
    BY <1>1, <2>1, FS_AddElement
<1>5. Views!Confirmed' \subseteq Views!Confirmed
  BY <1>1, <1>2 DEF Views!Confirmed
<1> QED
  BY <1>3, <1>4, <1>5 DEF ViewInv, Apart

LEMMA ViewStep ==
  ASSUME ViewInv, Views!Next \/ UNCHANGED viewVars
  PROVE  ViewInv'
<1>1. ASSUME UNCHANGED stays, Views!ViewsTypeOK' PROVE ViewInv'
  BY <1>1 DEF ViewInv, Views!Confirmed, Apart
<1>2. CASE UNCHANGED viewVars
  <2>1. Views!ViewsTypeOK'
    BY <1>2 DEF viewVars, ViewInv, Views!ViewsTypeOK
  <2> QED
    BY <1>1, <1>2, <2>1 DEF viewVars
<1>3. ASSUME NEW w \in Views!Works, Views!Open(w) \/ Views!Close(w) PROVE ViewInv'
  <2>1. UNCHANGED <<stays, viewDay>> /\ work' \subseteq Views!Works
    BY <1>3 DEF Views!Open, Views!Close, ViewInv, Views!ViewsTypeOK
  <2>2. Views!ViewsTypeOK'
    BY <2>1 DEF ViewInv, Views!ViewsTypeOK
  <2> QED
    BY <1>1, <2>1, <2>2
<1>4. CASE Views!NextDay
  <2>1. viewDay < CalendarDays /\ viewDay' = viewDay + 1 /\ UNCHANGED <<stays, work>>
    BY <1>4 DEF Views!NextDay
  <2>2. viewDay \in 0 .. CalendarDays
    BY DEF ViewInv, Views!ViewsTypeOK, Views!Days
  <2>3. viewDay' \in Views!Days
    BY <2>1, <2>2, ViewConstants DEF Views!Days
  <2>4. Views!ViewsTypeOK'
    BY <2>1, <2>3 DEF ViewInv, Views!ViewsTypeOK
  <2> QED
    BY <1>1, <2>1, <2>4
<1> QED
  BY <1>2, <1>3, <1>4, BookStep, CancelStep DEF Views!Next

LEMMA ViewInit == Views!Init => ViewInv
<1> SUFFICES ASSUME Views!Init PROVE ViewInv
  OBVIOUS
<1>1. stays = {} /\ work = {} /\ viewDay = 0
  BY DEF Views!Init
<1> QED
  BY <1>1, FS_EmptySet, ViewConstants
     DEF ViewInv, Views!ViewsTypeOK, Views!Confirmed, Views!Days

-----------------------------------------------------------------------------
(* The stays under way on a day, and those that begin or end on it.        *)
Staying(d) == {s \in Views!Confirmed : s.from <= d /\ d < s.to}

LEMMA StaysAreFinite ==
  ASSUME ViewInv, NEW S \in SUBSET Views!Confirmed
  PROVE  IsFiniteSet(S) /\ Cardinality(S) \in Nat
<1>1. S \subseteq stays /\ IsFiniteSet(stays)
  BY DEF ViewInv, Views!Confirmed
<1> QED
  BY <1>1, FS_Subset, FS_CardinalityType

LEMMA Today ==
  ASSUME ViewInv
  PROVE  viewDay \in Nat /\ viewDay <= CalendarDays
  BY ViewConstants DEF ViewInv, Views!ViewsTypeOK, Views!Days

LEMMA BookedByStays ==
  ASSUME ViewInv, NEW u, NEW d \in Int
  PROVE  Views!BookedNight(u, d) <=> \E s \in Staying(d) : s.unit = u
<1>1. ASSUME NEW s \in Views!Confirmed
      PROVE  d \in Views!Nights(s) <=> s.from <= d /\ d < s.to
  BY ConfirmedFields DEF Views!Nights
<1> QED
  BY <1>1 DEF Views!BookedNight, Views!Of, Staying

(* No unit has two stays under way.                                        *)
LEMMA OneStayAUnit ==
  ASSUME ViewInv, NEW d \in Int, NEW s \in Staying(d), NEW t \in Staying(d), s.unit = t.unit
  PROVE  s = t
<1>1. s \in Views!Confirmed /\ t \in Views!Confirmed
      /\ s.from <= d /\ d < s.to /\ t.from <= d /\ d < t.to
  BY DEF Staying
<1>2. s # t => Apart(s, t)
  BY <1>1 DEF ViewInv
<1> QED
  BY <1>1, <1>2, ConfirmedFields DEF Apart

LEMMA GuestsByStays ==
  ASSUME NEW d
  PROVE  Views!CurrentGuests(d) = Cardinality(Staying(d))
  BY SameViewSizes DEF Views!CurrentGuests, Staying

(* As many stays are under way as units are booked.                        *)
LEMMA StaysCountUnits ==
  ASSUME ViewInv, NEW d \in Int
  PROVE  Views!CurrentGuests(d) = Views!Cardinality(Views!Booked(d))
<1> DEFINE f == [s \in Staying(d) |-> s.unit]
<1>1. IsFiniteSet(Staying(d))
  BY StaysAreFinite DEF Staying
<1>2. \A s \in Staying(d) : s.unit \in Units /\ Views!BookedNight(s.unit, d)
  BY ConfirmedFields, BookedByStays DEF Staying
<1>3. f \in [Staying(d) -> Views!Booked(d)]
  BY <1>2 DEF Views!Booked
<1>4. \A s, t \in Staying(d) : f[s] = f[t] => s = t
  BY OneStayAUnit
<1>5. \A u \in Views!Booked(d) : \E s \in Staying(d) : f[s] = u
  BY BookedByStays DEF Views!Booked
<1>6. f \in Bijection(Staying(d), Views!Booked(d))
  BY <1>3, <1>4, <1>5 DEF Bijection, Injection, Surjection, IsInjective
<1> HIDE DEF f
<1>7. Cardinality(Views!Booked(d)) = Cardinality(Staying(d))
  BY <1>1, <1>6, FS_Bijection DEF ExistsBijection
<1> QED
  BY <1>7, GuestsByStays, SameViewSizes

(* Counting what comes and what goes.                                      *)
LEMMA ComeAndGo ==
  ASSUME NEW A, NEW B, NEW D, IsFiniteSet(A), IsFiniteSet(B), D \subseteq A, A \cap B = {}
  PROVE  /\ Cardinality((A \ D) \cup B) = Cardinality(A) + Cardinality(B) - Cardinality(D)
         /\ IsFiniteSet((A \ D) \cup B)
<1>1. /\ IsFiniteSet(D) /\ IsFiniteSet(A \ D) /\ (A \ D) \cap B = {}
      /\ Cardinality(A) \in Nat /\ Cardinality(B) \in Nat
  BY FS_Subset, FS_CardinalityType
<1>2. Cardinality(D) \in Nat /\ Cardinality(A \ D) \in Nat
  BY <1>1, FS_CardinalityType
<1>3. A \cap D = D
  OBVIOUS
<1>4. Cardinality(A \ D) = Cardinality(A) - Cardinality(D)
  BY <1>3, FS_Difference
<1>5. /\ IsFiniteSet((A \ D) \cup B)
      /\ Cardinality((A \ D) \cup B) =
           Cardinality(A \ D) + Cardinality(B) - Cardinality((A \ D) \cap B)
  BY <1>1, FS_Union
<1>6. Cardinality((A \ D) \cap B) = 0
  BY <1>1, FS_EmptySet
<1> QED
  BY <1>1, <1>2, <1>4, <1>5, <1>6

LEMMA TwoParts ==
  ASSUME NEW A, NEW B, IsFiniteSet(A), IsFiniteSet(B), A \cap B = {}
  PROVE  Cardinality(A \cup B) = Cardinality(A) + Cardinality(B)
<1>1. /\ Cardinality(A \cup B) = Cardinality(A) + Cardinality(B) - Cardinality(A \cap B)
      /\ Cardinality(A) \in Nat /\ Cardinality(B) \in Nat
  BY FS_Union, FS_CardinalityType
<1>2. Cardinality(A \cap B) = 0
  BY FS_EmptySet
<1> QED
  BY <1>1, <1>2

Comings(a, b) == {s \in Views!Confirmed : s.from \in a .. b}
Goings(a, b)  == {s \in Views!Confirmed : s.to \in a .. b}

LEMMA ComingsAndGoings ==
  ASSUME NEW a, NEW b
  PROVE  /\ Views!Arrivals(a, b) = Cardinality(Comings(a, b))
         /\ Views!Departures(a, b) = Cardinality(Goings(a, b))
  BY SameViewSizes DEF Views!Arrivals, Views!Departures, Comings, Goings

(* Tonight follows from last night.                                        *)
LEMMA TonightFollows ==
  ASSUME ViewInv, NEW d \in Int
  PROVE  Views!CurrentGuests(d) =
           Views!CurrentGuests(d - 1) + Views!Arrivals(d, d) - Views!Departures(d, d)
<1> DEFINE A == Staying(d - 1)
           B == Comings(d, d)
           D == Goings(d, d)
<1>1. \A s \in Views!Confirmed :
        /\ s \in A <=> s.from < d /\ d <= s.to
        /\ s \in B <=> s.from = d
        /\ s \in D <=> s.to = d
        /\ s \in Staying(d) <=> s.from <= d /\ d < s.to
        /\ s.from \in Nat /\ s.to \in Nat /\ s.from < s.to
  BY ConfirmedFields DEF Staying, Comings, Goings
<1>2. A \in SUBSET Views!Confirmed /\ B \in SUBSET Views!Confirmed
      /\ D \in SUBSET Views!Confirmed /\ Staying(d) \in SUBSET Views!Confirmed
  BY DEF Staying, Comings, Goings
<1>3. /\ Views!CurrentGuests(d) = Cardinality(Staying(d))
      /\ Views!CurrentGuests(d - 1) = Cardinality(A)
      /\ Views!Arrivals(d, d) = Cardinality(B) /\ Views!Departures(d, d) = Cardinality(D)
  BY GuestsByStays, ComingsAndGoings
<1> HIDE DEF A, B, D
<1>4. IsFiniteSet(A) /\ IsFiniteSet(B)
  BY <1>2, StaysAreFinite
<1>5. D \subseteq A /\ A \cap B = {}
  BY <1>1, <1>2
<1>6. Staying(d) = (A \ D) \cup B
  BY <1>1, <1>2
<1> QED
  BY <1>3, <1>4, <1>5, <1>6, ComeAndGo

(* The trend counts off those who leave on its first day.                  *)
LEMMA TrendFollows ==
  ASSUME ViewInv, NEW a \in Int, NEW d \in Int, a <= d
  PROVE  Views!Trend(a, d) = Views!CurrentGuests(d) -
           Views!Cardinality({s \in Views!Confirmed : s.from < a /\ s.to = a})
<1> DEFINE A == {s \in Views!Confirmed : s.from < a /\ s.to > a}
           B == Comings(a, d)
           D == Goings(a, d)
           E == {s \in Views!Confirmed : s.from < a /\ s.to = a}
           F == {s \in A \cup B : s.to \in a .. d}
           C == Staying(d)
<1>1. \A s \in Views!Confirmed :
        /\ s \in A <=> s.from < a /\ s.to > a
        /\ s \in B <=> a <= s.from /\ s.from <= d
        /\ s \in D <=> a <= s.to /\ s.to <= d
        /\ s \in E <=> s.from < a /\ s.to = a
        /\ s \in C <=> s.from <= d /\ d < s.to
        /\ s \in F <=> (s \in A \/ s \in B) /\ a <= s.to /\ s.to <= d
        /\ s.from \in Nat /\ s.to \in Nat /\ s.from < s.to
  BY ConfirmedFields DEF Staying, Comings, Goings
<1>2. /\ A \in SUBSET Views!Confirmed /\ B \in SUBSET Views!Confirmed
      /\ C \in SUBSET Views!Confirmed /\ D \in SUBSET Views!Confirmed
      /\ E \in SUBSET Views!Confirmed /\ F \in SUBSET Views!Confirmed
  BY DEF Staying, Comings, Goings
<1>3. /\ Views!CurrentGuests(d) = Cardinality(C)
      /\ Views!Trend(a, d) = Cardinality(A) + Cardinality(B) - Cardinality(D)
      /\ Views!Cardinality(E) = Cardinality(E)
  BY GuestsByStays, ComingsAndGoings, SameViewSizes DEF Views!Trend
<1> HIDE DEF A, B, C, D, E, F
<1>4. /\ IsFiniteSet(A) /\ IsFiniteSet(B) /\ IsFiniteSet(C) /\ IsFiniteSet(E) /\ IsFiniteSet(F)
      /\ Cardinality(A) \in Nat /\ Cardinality(B) \in Nat /\ Cardinality(C) \in Nat
      /\ Cardinality(E) \in Nat /\ Cardinality(F) \in Nat
  BY <1>2, StaysAreFinite
<1>5. /\ A \cap B = {} /\ C \cap F = {} /\ E \cap F = {}
      /\ A \cup B = C \cup F /\ D = E \cup F
  <2>1. A \cap B = {} /\ C \cap F = {} /\ E \cap F = {}
    BY <1>1, <1>2
  <2>2. A \cup B = C \cup F
    BY <1>1, <1>2
  <2>3. D = E \cup F
    BY <1>1, <1>2
  <2> QED
    BY <2>1, <2>2, <2>3
<1>6. /\ Cardinality(A \cup B) = Cardinality(A) + Cardinality(B)
      /\ Cardinality(C \cup F) = Cardinality(C) + Cardinality(F)
      /\ Cardinality(E \cup F) = Cardinality(E) + Cardinality(F)
  BY <1>4, <1>5, TwoParts
<1>7. Cardinality(A) + Cardinality(B) - Cardinality(D) = Cardinality(C) - Cardinality(E)
  <2>1. /\ Cardinality(A) + Cardinality(B) = Cardinality(C) + Cardinality(F)
        /\ Cardinality(D) = Cardinality(E) + Cardinality(F)
    BY <1>5, <1>6, Zenon
  <2>2. \A p, q, r, t, e \in Nat : p + q = r + t => (p + q) - (e + t) = r - e
    OBVIOUS
  <2> QED
    BY <1>4, <2>1, <2>2
<1> QED
  BY <1>3, <1>7 DEF E

LEMMA UnitsOfStays ==
  ASSUME NEW u, NEW s
  PROVE  s \in Views!Of(u) <=> s \in Views!Confirmed /\ s.unit = u
  BY DEF Views!Of

(* The list of the units and the overview say what the calendar says.      *)
LEMMA UnitsAreTold ==
  ASSUME ViewInv, NEW u \in Units \ Blocked, NEW d \in Int
  PROVE  /\ Views!UnitState(u, d) \in {"reserved", "transition"} <=> Views!BookedNight(u, d)
         /\ Views!Overview(u, d) \in {"arriving", "occupied"} <=> Views!BookedNight(u, d)
<1>1. Views!BookedNight(u, d) <=> \E s \in Views!Of(u) : s.from <= d /\ d < s.to
  BY BookedByStays, UnitsOfStays DEF Staying
<1>2. \A s \in Views!Of(u) : /\ s \in Views!Confirmed /\ s.unit = u
                             /\ s.from \in Nat /\ s.to \in Nat /\ s.from < s.to
  BY ConfirmedFields, UnitsOfStays
<1>3. Views!Ongoing(u, d) \/ Views!Starting(u, d) <=> Views!BookedNight(u, d)
  BY <1>1, <1>2 DEF Views!Ongoing, Views!Starting
<1>4. Views!UnitState(u, d) \in {"reserved", "transition"} <=> Views!BookedNight(u, d)
  BY <1>3 DEF Views!UnitState
<1>5. Views!BookedNight(u, d) /\ Views!Ending(u, d) => \E s \in Views!Of(u) : s.from = d
  <2> SUFFICES ASSUME NEW s \in Views!Of(u), s.from <= d, d < s.to,
                      NEW t \in Views!Of(u), t.to = d
               PROVE  s.from = d
    BY <1>1 DEF Views!Ending
  <2>1. s # t /\ s.unit = t.unit /\ s \in Views!Confirmed /\ t \in Views!Confirmed
    BY <1>2
  <2>2. Apart(s, t)
    BY <2>1 DEF ViewInv
  <2> QED
    BY <1>2, <2>2 DEF Apart
<1>6. (\E s \in Views!Of(u) : s.from = d) => Views!BookedNight(u, d)
  BY <1>1, <1>2
<1>7. Views!Overview(u, d) \in {"arriving", "occupied"} <=> Views!BookedNight(u, d)
  BY <1>1, <1>5, <1>6 DEF Views!Overview
<1> QED
  BY <1>4, <1>7

LEMMA ViewsAgreed == ViewInv => Views!ViewsAgree
<1> SUFFICES ASSUME ViewInv PROVE Views!ViewsAgree
  OBVIOUS
<1>1. viewDay \in Int /\ viewDay \in Nat /\ Views!Days \subseteq Int
  BY Today, ViewConstants DEF Views!Days
<1>2. \A u \in Units \ Blocked :
        /\ Views!UnitState(u, viewDay) \in {"reserved", "transition"}
             <=> Views!BookedNight(u, viewDay)
        /\ Views!Overview(u, viewDay) \in {"arriving", "occupied"}
             <=> Views!BookedNight(u, viewDay)
  BY <1>1, UnitsAreTold
<1>3. Views!FreeNow \cap Views!Booked(viewDay) = {}
  <2>1. \A u \in Blocked : Views!UnitState(u, viewDay) # "free"
    BY DEF Views!UnitState
  <2>2. \A u \in Units \ Blocked :
          Views!UnitState(u, viewDay) = "free" => ~Views!BookedNight(u, viewDay)
    BY <1>2
  <2> QED
    BY <2>1, <2>2 DEF Views!FreeNow, Views!Booked
<1>4. Views!CurrentGuests(viewDay) = Views!Cardinality(Views!Booked(viewDay))
  BY <1>1, StaysCountUnits
<1>5. Views!CurrentGuests(viewDay) =
        Views!CurrentGuests(viewDay - 1) + Views!Arrivals(viewDay, viewDay)
          - Views!Departures(viewDay, viewDay)
  BY <1>1, TonightFollows
<1>6. ASSUME NEW start \in Views!Days, viewDay \in start .. start + 6
      PROVE  Views!WeekCount(start, viewDay) = Views!CurrentGuests(viewDay)
  <2>1. {s \in Views!Confirmed : /\ s.from <= start + 6 /\ s.to > start
                                 /\ s.from <= viewDay /\ viewDay < s.to} = Staying(viewDay)
    <3>1. \A s \in Views!Confirmed : s.from <= viewDay /\ viewDay < s.to =>
            s.from <= start + 6 /\ s.to > start
      BY <1>1, <1>6, ConfirmedFields
    <3> QED
      BY <3>1 DEF Staying
  <2> QED
    BY <2>1, GuestsByStays, SameViewSizes DEF Views!WeekCount
<1>7. Views!ReportedUnits(viewDay, viewDay + 1) = Views!Booked(viewDay)
  <2>1. ASSUME NEW u \in Units
        PROVE  (\E s \in Views!Of(u) : s.from < viewDay + 1 /\ s.to > viewDay)
                 <=> Views!BookedNight(u, viewDay)
    <3>1. \A s \in Views!Of(u) :
            s.from < viewDay + 1 /\ s.to > viewDay <=> s.from <= viewDay /\ viewDay < s.to
      BY <1>1, ConfirmedFields, UnitsOfStays
    <3>2. Views!BookedNight(u, viewDay) <=>
            \E s \in Views!Of(u) : s.from <= viewDay /\ viewDay < s.to
      BY <1>1, BookedByStays, UnitsOfStays DEF Staying
    <3> QED
      BY <3>1, <3>2
  <2> QED
    BY <2>1 DEF Views!ReportedUnits, Views!Booked
<1>8. \A a \in 0 .. viewDay : Views!Trend(a, viewDay) = Views!CurrentGuests(viewDay) -
        Views!Cardinality({s \in Views!Confirmed : s.from < a /\ s.to = a})
  <2> SUFFICES ASSUME NEW a \in 0 .. viewDay
               PROVE  Views!Trend(a, viewDay) = Views!CurrentGuests(viewDay) -
                 Views!Cardinality({s \in Views!Confirmed : s.from < a /\ s.to = a})
    OBVIOUS
  <2>1. a \in Int /\ a <= viewDay
    BY <1>1
  <2> QED
    BY <1>1, <2>1, TrendFollows
<1> QED
  BY <1>2, <1>3, <1>4, <1>5, <1>6, <1>7, <1>8 DEF Views!ViewsAgree

LEMMA TakenIsTold == ViewInv => Views!TakenNeverLooksFree
<1> SUFFICES ASSUME ViewInv, NEW a \in Views!Days, NEW b \in Views!Days, NEW d \in a .. b,
                    NEW u \in Units \ Blocked, Views!BookedNight(u, d)
             PROVE  /\ Views!Matrix(u, d, a, b) \notin {"free", "checkin"}
                    /\ \E s \in Views!Events(a, b + 1) : s.unit = u
  BY DEF Views!TakenNeverLooksFree
<1>1. a \in Nat /\ b \in Nat /\ d \in Nat /\ a <= d /\ d <= b
  BY ViewConstants DEF Views!Days
<1>2. PICK s \in Staying(d) : s.unit = u
  BY <1>1, BookedByStays
<1>3. /\ s \in Views!Of(u) /\ s \in stays /\ s.from <= d /\ d < s.to
      /\ s.from \in Nat /\ s.to \in Nat
  BY <1>2, ConfirmedFields, UnitsOfStays DEF Staying
<1>4. s.from < b + 1 /\ s.to > a /\ d \in Views!Nights(s)
  BY <1>1, <1>3 DEF Views!Nights
<1>5. s \in Views!InWindow(u, a, b) /\ s \in Views!Events(a, b + 1)
  BY <1>3, <1>4 DEF Views!InWindow, Views!Events
<1>6. Views!MatrixBase(u, d, a, b) \in {"maintenance", "reserved"}
  BY <1>4, <1>5 DEF Views!MatrixBase
<1>7. Views!Matrix(u, d, a, b) \in {"maintenance", "reserved", "checkout"}
  BY <1>6 DEF Views!Matrix
<1> QED
  BY <1>2, <1>5, <1>7

-----------------------------------------------------------------------------
(* A finite set of natural numbers has a greatest one.                     *)
LEMMA FiniteHasGreatest ==
  ASSUME NEW S \in SUBSET Nat, IsFiniteSet(S), S # {}
  PROVE  \E m \in S : \A k \in S : m >= k
<1> DEFINE HasMax(R) == \E m \in R : \A k \in R : m >= k
           Bad == {R \in SUBSET S : R # {} /\ ~HasMax(R)}
           T == {Cardinality(R) : R \in Bad}
<1>1. \A R \in SUBSET S : IsFiniteSet(R) /\ Cardinality(R) \in Nat
  BY FS_Subset, FS_CardinalityType
<1>2. SUFFICES ASSUME Bad # {} PROVE FALSE
  OBVIOUS
<1>3. T \in SUBSET Nat /\ T # {}
  BY <1>1, <1>2
<1>4. PICK n \in T : \A k \in T : n <= k
  BY <1>3, LeastNatural
<1>5. PICK R \in Bad : n = Cardinality(R)
  BY <1>4
<1>6. PICK x \in R : TRUE
  BY <1>5
<1>7. R \in SUBSET S /\ x \in Nat /\ R \in SUBSET Nat /\ ~HasMax(R)
  BY <1>5
<1>8. R \ {x} \in SUBSET S /\ Cardinality(R \ {x}) = Cardinality(R) - 1
      /\ Cardinality(R \ {x}) \in Nat
  BY <1>1, <1>6, <1>7, FS_RemoveElement
<1>9. R \ {x} \notin Bad
  <2> SUFFICES ASSUME R \ {x} \in Bad PROVE FALSE
    OBVIOUS
  <2>1. n <= Cardinality(R \ {x})
    BY <1>4
  <2> QED
    BY <1>1, <1>5, <1>7, <1>8, <2>1
<1>10. CASE R \ {x} = {}
  <2>1. R = {x}
    BY <1>6, <1>10
  <2>2. x >= x
    BY <1>7
  <2> QED
    BY <1>7, <2>1, <2>2
<1>11. CASE R \ {x} # {}
  <2>1. HasMax(R \ {x})
    BY <1>8, <1>9, <1>11
  <2>2. PICK m \in R \ {x} : \A k \in R \ {x} : m >= k
    BY <2>1
  <2>3. CASE m >= x
    <3>1. \A k \in R : m >= k
      BY <2>2, <2>3
    <3> QED
      BY <1>7, <2>2, <3>1
  <2>4. CASE ~(m >= x)
    <3>1. \A k \in R : x >= k
      BY <1>7, <2>2, <2>4
    <3> QED
      BY <1>6, <1>7, <3>1
  <2> QED
    BY <2>3, <2>4
<1> QED
  BY <1>10, <1>11

(* There is a day after the first of the months.                           *)
LEMMA LastMonth ==
  /\ MonthStarts \in SUBSET Nat /\ 0 \in MonthStarts /\ IsFiniteSet(MonthStarts)
  /\ Money!End \in MonthStarts /\ \A m \in MonthStarts : m <= Money!End
  /\ Money!End \in Nat \ {0} /\ 0 \in Money!Days
<1>1. /\ MonthStarts \in SUBSET Nat /\ 0 \in MonthStarts /\ IsFiniteSet(MonthStarts)
      /\ Cardinality(MonthStarts) > 1
  BY Assumptions DEF Money!ReportsAssumption, Money!IsFiniteSet, Money!Cardinality,
     IsFiniteSet, Cardinality
<1>2. \E m \in MonthStarts : \A k \in MonthStarts : m >= k
  BY <1>1, FiniteHasGreatest
<1>3. Money!End \in MonthStarts /\ \A m \in MonthStarts : Money!End >= m
  BY <1>2 DEF Money!End, Money!Max
<1>4. Money!End # 0
  <2> SUFFICES ASSUME Money!End = 0 PROVE FALSE
    OBVIOUS
  <2>0. \A m \in MonthStarts : m \in Nat /\ 0 >= m
    BY <1>1, <1>3
  <2>1. MonthStarts = {0}
    <3>1. \A m \in MonthStarts : m = 0
      BY <2>0
    <3> QED
      BY <1>1, <3>1
  <2>2. Cardinality({0}) = 1
    BY FS_Singleton
  <2> QED
    BY <1>1, <2>1, <2>2
<1>5. Money!End \in Nat \ {0} /\ \A m \in MonthStarts : m <= Money!End
  <2>1. \A m \in MonthStarts : m \in Nat
    BY <1>1
  <2> QED
    BY <1>3, <1>4, <2>1
<1> QED
  BY <1>1, <1>3, <1>5 DEF Money!Days

-----------------------------------------------------------------------------
(* The rows the reports are about keep their types.                        *)
LEMMA InvoicesKeep ==
  ASSUME Money!ReportsTypeOK, NEW i \in Invoices, NEW r \in Money!InvoiceRows,
         inv' = [inv EXCEPT ![i] = r], UNCHANGED <<spent, reportDay>>
  PROVE  Money!ReportsTypeOK'
  BY DEF Money!ReportsTypeOK

LEMMA MoneyStep ==
  ASSUME Money!ReportsTypeOK, Money!Next \/ UNCHANGED moneyVars
  PROVE  Money!ReportsTypeOK'
<1>1. CASE UNCHANGED moneyVars
  BY <1>1 DEF moneyVars, Money!ReportsTypeOK
<1>2. \A i \in Invoices : inv[i].status # "none" => inv[i] \in Money!InvoiceRows
  BY DEF Money!ReportsTypeOK, Money!NoInvoice
<1>3. ASSUME NEW i \in Invoices, NEW row1 \in Money!InvoiceRows, Money!Issue(i, row1)
      PROVE  Money!ReportsTypeOK'
  BY <1>3, InvoicesKeep DEF Money!Issue
<1>4. ASSUME NEW i \in Invoices, NEW m \in Money!Methods, Money!Pay(i, m)
      PROVE  Money!ReportsTypeOK'
  <2> DEFINE r == [inv[i] EXCEPT !.status = "paid", !.paid = reportDay, !.method = m]
  <2>1. inv[i].status # "none" /\ UNCHANGED <<spent, reportDay>>
        /\ inv' = [inv EXCEPT ![i] = r]
    BY <1>4 DEF Money!Pay
  <2>2. r \in Money!InvoiceRows
    BY <1>2, <2>1 DEF Money!InvoiceRows, Money!ReportsTypeOK
  <2> HIDE DEF r
  <2> QED
    BY <2>1, <2>2, InvoicesKeep
<1>5. ASSUME NEW i \in Invoices, Money!Cancel(i) PROVE Money!ReportsTypeOK'
  <2> DEFINE r == [inv[i] EXCEPT !.status = "cancelled"]
  <2>1. inv[i].status # "none" /\ UNCHANGED <<spent, reportDay>>
        /\ inv' = [inv EXCEPT ![i] = r]
    BY <1>5 DEF Money!Cancel
  <2>2. r \in Money!InvoiceRows
    BY <1>2, <2>1 DEF Money!InvoiceRows
  <2> HIDE DEF r
  <2> QED
    BY <2>1, <2>2, InvoicesKeep
<1>6. ASSUME NEW i \in Invoices, Money!MarkOverdue(i) PROVE Money!ReportsTypeOK'
  <2> DEFINE r == [inv[i] EXCEPT !.status = "overdue"]
  <2>1. inv[i].status # "none" /\ UNCHANGED <<spent, reportDay>>
        /\ inv' = [inv EXCEPT ![i] = r]
    BY <1>6 DEF Money!MarkOverdue
  <2>2. r \in Money!InvoiceRows
    BY <1>2, <2>1 DEF Money!InvoiceRows
  <2> HIDE DEF r
  <2> QED
    BY <2>1, <2>2, InvoicesKeep
<1>7. ASSUME NEW e \in Money!Expenses, Money!Spend(e) PROVE Money!ReportsTypeOK'
  BY <1>7 DEF Money!Spend, Money!ReportsTypeOK
<1>8. ASSUME Money!NextDay PROVE Money!ReportsTypeOK'
  BY <1>8 DEF Money!NextDay, Money!ReportsTypeOK
<1> QED
  BY <1>1, <1>3, <1>4, <1>5, <1>6, <1>7, <1>8 DEF Money!Next

-----------------------------------------------------------------------------
(* Sums.  What is added up over the subsets of S: nothing for none, and    *)
(* for others the amount of some element and the sum of the rest.          *)
One(s) == CHOOSE x \in s : TRUE

Sums(g, S, f) ==
  g = [s \in SUBSET S |-> IF s = {} THEN 0 ELSE f[One(s)] + g[s \ {One(s)}]]

LEMMA OneIsIn ==
  ASSUME NEW s, s # {}
  PROVE  One(s) \in s
  BY DEF One

(* What holds of the empty set and of a set with one element more, holds   *)
(* of every finite set: there is no smallest one without it.               *)
LEMMA SmallestSet ==
  ASSUME NEW S, IsFiniteSet(S), NEW Bad \in SUBSET SUBSET S, Bad # {}
  PROVE  \E s \in Bad : \A t \in SUBSET s : t # s => t \notin Bad
<1> DEFINE T == {Cardinality(s) : s \in Bad}
<1>1. \A s \in Bad : IsFiniteSet(s) /\ Cardinality(s) \in Nat
  BY FS_Subset, FS_CardinalityType
<1>2. T \in SUBSET Nat /\ T # {}
  BY <1>1
<1>3. PICK n \in T : \A k \in T : n <= k
  BY <1>2, LeastNatural
<1>4. PICK s \in Bad : n = Cardinality(s)
  BY <1>3
<1>5. ASSUME NEW t \in SUBSET s, t # s, t \in Bad PROVE FALSE
  <2>1. IsFiniteSet(s) /\ IsFiniteSet(t) /\ Cardinality(t) \in Nat /\ Cardinality(s) \in Nat
    BY <1>1, <1>5
  <2>2. Cardinality(t) < Cardinality(s)
    <3>1. Cardinality(t) <= Cardinality(s) /\ (Cardinality(t) = Cardinality(s) => t = s)
      BY <2>1, FS_Subset
    <3> QED
      BY <1>5, <2>1, <3>1
  <2>3. Cardinality(s) <= Cardinality(t)
    BY <1>3, <1>4, <1>5
  <2> QED
    BY <2>1, <2>2, <2>3
<1> QED
  BY <1>5

LEMMA SumsAreOne ==
  ASSUME NEW S, IsFiniteSet(S), NEW f, NEW g, NEW h, Sums(g, S, f), Sums(h, S, f)
  PROVE  g = h
<1> DEFINE Bad == {s \in SUBSET S : g[s] # h[s]}
<1>1. /\ DOMAIN g = SUBSET S /\ DOMAIN h = SUBSET S
      /\ g = [s \in SUBSET S |-> g[s]] /\ h = [s \in SUBSET S |-> h[s]]
  BY DEF Sums
<1>2. ASSUME Bad # {} PROVE FALSE
  <2>1. PICK s \in Bad : \A t \in SUBSET s : t # s => t \notin Bad
    <3>1. Bad \in SUBSET SUBSET S
      OBVIOUS
    <3> HIDE DEF Bad
    <3> QED
      BY <1>2, <3>1, SmallestSet
  <2>2. CASE s = {}
    <3>1. g[s] = 0 /\ h[s] = 0
      BY <2>2 DEF Sums
    <3> QED
      BY <2>1, <3>1
  <2>3. CASE s # {}
    <3>1. One(s) \in s
      BY <2>3, OneIsIn
    <3>2. s \ {One(s)} \in SUBSET S /\ s \ {One(s)} \in SUBSET s /\ s \ {One(s)} # s
      BY <2>1, <3>1
    <3>3. g[s \ {One(s)}] = h[s \ {One(s)}]
      BY <2>1, <3>2
    <3>4. /\ g[s] = f[One(s)] + g[s \ {One(s)}]
          /\ h[s] = f[One(s)] + h[s \ {One(s)}]
      BY <2>1, <2>3 DEF Sums
    <3> QED
      BY <2>1, <3>3, <3>4
  <2> QED
    BY <2>2, <2>3
<1> QED
  BY <1>1, <1>2

LEMMA SumsOfSome ==
  ASSUME NEW S, NEW f, NEW g, Sums(g, S, f), NEW R \in SUBSET S
  PROVE  Sums([s \in SUBSET R |-> g[s]], R, f)
<1> DEFINE h == [s \in SUBSET R |-> g[s]]
<1>1. ASSUME NEW s \in SUBSET R
      PROVE  h[s] = IF s = {} THEN 0 ELSE f[One(s)] + h[s \ {One(s)}]
  <2>1. s \in SUBSET S /\ s \ {One(s)} \in SUBSET R
    OBVIOUS
  <2>2. g[s] = IF s = {} THEN 0 ELSE f[One(s)] + g[s \ {One(s)}]
    BY <2>1 DEF Sums
  <2> QED
    BY <2>1, <2>2
<1>2. h = [s \in SUBSET R |-> h[s]]
  OBVIOUS
<1> HIDE DEF h
<1>3. h = [s \in SUBSET R |-> IF s = {} THEN 0 ELSE f[One(s)] + h[s \ {One(s)}]]
  BY <1>1, <1>2
<1> QED
  BY <1>3 DEF Sums, h

LEMMA SumsAreThere ==
  ASSUME NEW S, IsFiniteSet(S), NEW f
  PROVE  \E g : Sums(g, S, f)
<1> DEFINE Bad == {R \in SUBSET S : ~ \E g : Sums(g, R, f)}
           V(t) == (CHOOSE g : Sums(g, t, f))[t]
<1>1. SUFFICES ASSUME Bad # {} PROVE FALSE
  OBVIOUS
<1>2. PICK R \in Bad : \A t \in SUBSET R : t # R => t \notin Bad
  <2>1. Bad \in SUBSET SUBSET S
    OBVIOUS
  <2> HIDE DEF Bad
  <2> QED
    BY <1>1, <2>1, SmallestSet
<1>3. ASSUME NEW t \in SUBSET R, t # R
      PROVE  Sums(CHOOSE g : Sums(g, t, f), t, f)
  <2>1. \E g : Sums(g, t, f)
    BY <1>2, <1>3
  <2> QED
    BY <2>1
<1>4. ASSUME NEW t \in SUBSET R, t # R, t # {}
      PROVE  V(t) = f[One(t)] + V(t \ {One(t)})
  <2> DEFINE r == t \ {One(t)}
             g == CHOOSE g : Sums(g, t, f)
             h == CHOOSE h : Sums(h, r, f)
  <2>1. Sums(g, t, f)
    BY <1>3, <1>4
  <2>2. r \in SUBSET t /\ r \in SUBSET R /\ r # R
    BY <1>4, OneIsIn
  <2>3. Sums(h, r, f)
    BY <1>3, <2>2
  <2>4. IsFiniteSet(r)
    BY <1>2, <2>2, FS_Subset
  <2>5. g[t] = f[One(t)] + g[r]
    BY <1>4, <2>1 DEF Sums
  <2> HIDE DEF g, h, r
  <2>6. Sums([s \in SUBSET r |-> g[s]], r, f)
    BY <2>1, <2>2, SumsOfSome
  <2>7. [s \in SUBSET r |-> g[s]] = h
    BY <2>3, <2>4, <2>6, SumsAreOne
  <2>8. g[r] = h[r]
    BY <2>7
  <2> QED
    BY <2>5, <2>8 DEF g, h, r
<1>5. V({}) = 0 \/ R = {}
  <2> SUFFICES ASSUME R # {} PROVE V({}) = 0
    OBVIOUS
  <2>1. Sums(CHOOSE g : Sums(g, {}, f), {}, f)
    BY <1>3
  <2> QED
    BY <2>1 DEF Sums
<1> DEFINE g == [t \in SUBSET R |-> IF t = R THEN (IF R = {} THEN 0 ELSE f[One(R)] + V(R \ {One(R)}))
                                    ELSE V(t)]
<1> HIDE DEF V
<1>6. ASSUME NEW t \in SUBSET R
      PROVE  g[t] = IF t = {} THEN 0 ELSE f[One(t)] + g[t \ {One(t)}]
  <2>1. CASE t = {}
    BY <1>5, <2>1
  <2>2. CASE t # {}
    <3>1. One(t) \in t /\ t \ {One(t)} \in SUBSET R /\ t \ {One(t)} # R
      BY <2>2, OneIsIn
    <3>2. g[t \ {One(t)}] = V(t \ {One(t)})
      BY <3>1
    <3>3. g[t] = f[One(t)] + V(t \ {One(t)})
      BY <1>4, <2>2
    <3> QED
      BY <2>2, <3>2, <3>3
  <2> QED
    BY <2>1, <2>2
<1>7. g = [t \in SUBSET R |-> g[t]]
  OBVIOUS
<1> HIDE DEF g
<1>8. Sums(g, R, f)
  BY <1>6, <1>7 DEF Sums
<1> QED
  BY <1>2, <1>8

LEMMA SumsAreWhole ==
  ASSUME NEW S, IsFiniteSet(S), NEW N, N = Nat \/ N = Int, NEW f \in [S -> N], NEW g, Sums(g, S, f)
  PROVE  g \in [SUBSET S -> N]
<1> DEFINE Bad == {s \in SUBSET S : g[s] \notin N}
<1>1. g = [s \in SUBSET S |-> g[s]]
  BY DEF Sums
<1>2. ASSUME Bad # {} PROVE FALSE
  <2>1. PICK s \in Bad : \A t \in SUBSET s : t # s => t \notin Bad
    <3>1. Bad \in SUBSET SUBSET S
      OBVIOUS
    <3> HIDE DEF Bad
    <3> QED
      BY <1>2, <3>1, SmallestSet
  <2>2. s # {}
    BY <2>1 DEF Sums
  <2>3. One(s) \in s /\ s \ {One(s)} \in SUBSET s /\ s \ {One(s)} # s
    BY <2>2, OneIsIn
  <2>4. g[s \ {One(s)}] \in N /\ f[One(s)] \in N
    BY <2>1, <2>3
  <2>5. g[s] = f[One(s)] + g[s \ {One(s)}]
    BY <2>1, <2>2 DEF Sums
  <2> QED
    BY <2>1, <2>4, <2>5
<1> QED
  BY <1>1, <1>2

(* The order does not matter.                                              *)
LEMMA AnyFirst ==
  ASSUME NEW S, IsFiniteSet(S), NEW f \in [S -> Int], NEW g, Sums(g, S, f),
         NEW t \in SUBSET S, NEW z \in t
  PROVE  g[t] = f[z] + g[t \ {z}]
<1> DEFINE Bad == {s \in SUBSET S : \E x \in s : g[s] # f[x] + g[s \ {x}]}
<1>1. g \in [SUBSET S -> Int]
  BY SumsAreWhole
<1>2. ASSUME Bad # {} PROVE FALSE
  <2>1. PICK s \in Bad : \A r \in SUBSET s : r # s => r \notin Bad
    <3>1. Bad \in SUBSET SUBSET S
      OBVIOUS
    <3> HIDE DEF Bad
    <3> QED
      BY <1>2, <3>1, SmallestSet
  <2>2. PICK x \in s : g[s] # f[x] + g[s \ {x}]
    BY <2>1
  <2> DEFINE y == One(s)
  <2>3. y \in s /\ s # {}
    BY <2>2, OneIsIn
  <2> HIDE DEF y
  <2>4. g[s] = f[y] + g[s \ {y}]
    BY <2>1, <2>3 DEF Sums, y
  <2>5. x # y
    BY <2>2, <2>4
  <2>6. /\ s \ {y} \in SUBSET S /\ s \ {y} \in SUBSET s /\ s \ {y} # s /\ x \in s \ {y}
        /\ s \ {x} \in SUBSET S /\ s \ {x} \in SUBSET s /\ s \ {x} # s /\ y \in s \ {x}
    BY <2>1, <2>2, <2>3, <2>5
  <2>7. s \ {y} \notin Bad /\ s \ {x} \notin Bad
    BY <2>1, <2>6
  <2>8. g[s \ {y}] = f[x] + g[(s \ {y}) \ {x}] /\ g[s \ {x}] = f[y] + g[(s \ {x}) \ {y}]
    BY <2>6, <2>7
  <2> DEFINE r == s \ {x, y}
  <2>9. /\ (s \ {y}) \ {x} = r /\ (s \ {x}) \ {y} = r /\ r \in SUBSET S
        /\ x \in S /\ y \in S
    BY <2>1, <2>2, <2>3, <2>6
  <2> HIDE DEF Bad, r
  <2>10. g[s \ {y}] = f[x] + g[r] /\ g[s \ {x}] = f[y] + g[r]
    BY <2>8, <2>9
  <2>11. f[x] \in Int /\ f[y] \in Int /\ g[r] \in Int
    BY <1>1, <2>9
  <2>12. f[y] + (f[x] + g[r]) = f[x] + (f[y] + g[r])
    BY <2>11
  <2>13. g[s] = f[x] + g[s \ {x}]
    BY <2>4, <2>10, <2>12
  <2> QED
    BY <2>2, <2>13
<1>3. t \notin Bad
  BY <1>2
<1> QED
  BY <1>3

(* The sum over two sets that share nothing.                               *)
LEMMA SumsSplit ==
  ASSUME NEW S, IsFiniteSet(S), NEW f \in [S -> Int], NEW g, Sums(g, S, f),
         NEW A \in SUBSET S, NEW B \in SUBSET S, A \cap B = {}
  PROVE  g[A \cup B] = g[A] + g[B]
<1> DEFINE Bad == {s \in SUBSET B : g[A \cup s] # g[A] + g[s]}
<1>1. g \in [SUBSET S -> Int]
  BY SumsAreWhole
<1>2. ASSUME Bad # {} PROVE FALSE
  <2>1. PICK s \in Bad : \A t \in SUBSET s : t # s => t \notin Bad
    <3>1. Bad \in SUBSET SUBSET B /\ IsFiniteSet(B)
      BY FS_Subset
    <3> HIDE DEF Bad
    <3> QED
      BY <1>2, <3>1, SmallestSet
  <2>2. g[{}] = 0
    BY DEF Sums
  <2>3. s # {}
    <3> SUFFICES ASSUME s = {} PROVE FALSE
      OBVIOUS
    <3>1. A \cup s = A /\ g[A] \in Int
      BY <1>1
    <3> QED
      BY <2>1, <2>2, <3>1
  <2>4. PICK x \in s : TRUE
    BY <2>3
  <2> DEFINE r == s \ {x}
  <2>5. /\ r \in SUBSET s /\ r # s /\ r \in SUBSET B /\ r \in SUBSET S
        /\ A \cup s \in SUBSET S /\ x \in A \cup s /\ (A \cup s) \ {x} = A \cup r
        /\ s \in SUBSET S /\ x \in S /\ A \cup r \in SUBSET S
    BY <2>1, <2>4
  <2>6. r \notin Bad
    BY <2>1, <2>5
  <2>7. g[A \cup r] = g[A] + g[r]
    BY <2>5, <2>6
  <2>8. g[s] = f[x] + g[r] /\ g[A \cup s] = f[x] + g[(A \cup s) \ {x}]
    <3>1. g[s] = f[x] + g[s \ {x}]
      BY <2>4, <2>5, AnyFirst
    <3>2. g[A \cup s] = f[x] + g[(A \cup s) \ {x}]
      BY <2>5, AnyFirst
    <3> QED
      BY <3>1, <3>2
  <2> HIDE DEF r, Bad
  <2>9. f[x] \in Int /\ g[A] \in Int /\ g[r] \in Int
    BY <1>1, <2>5
  <2>10. f[x] + (g[A] + g[r]) = g[A] + (f[x] + g[r])
    BY <2>9
  <2>11. g[A \cup s] = g[A] + g[s]
    BY <2>5, <2>7, <2>8, <2>10
  <2> QED
    BY <2>1, <2>11 DEF Bad
<1>3. B \notin Bad
  BY <1>2
<1> QED
  BY <1>3

(* The sum over the classes of a partition.                                *)
Class(A, c, k) == {i \in A : c[i] = k}

LEMMA SumsByClass ==
  ASSUME NEW S, IsFiniteSet(S), NEW f \in [S -> Int], NEW g, Sums(g, S, f),
         NEW A \in SUBSET S, NEW K, IsFiniteSet(K), NEW c \in [A -> K],
         NEW e, \A k \in K : e[k] = g[Class(A, c, k)],
         NEW h, Sums(h, K, e)
  PROVE  h[K] = g[A]
<1> DEFINE Of(L) == {i \in A : c[i] \in L}
           j == [L \in SUBSET K |-> g[Of(L)]]
<1>1. ASSUME NEW L \in SUBSET K
      PROVE  j[L] = IF L = {} THEN 0 ELSE e[One(L)] + j[L \ {One(L)}]
  <2>1. CASE L = {}
    <3>1. Of(L) = {}
      BY <2>1
    <3> QED
      BY <2>1, <3>1 DEF Sums
  <2>2. CASE L # {}
    <3> DEFINE k == One(L)
               M == L \ {k}
               C == Class(A, c, k)
    <3>1. k \in L
      BY <2>2, OneIsIn
    <3> HIDE DEF k
    <3>2. Of(L) = C \cup Of(M) /\ C \cap Of(M) = {}
      BY <3>1 DEF Class
    <3>3. C \in SUBSET S /\ Of(M) \in SUBSET S
      BY DEF Class
    <3>4. e[k] = g[C] /\ j[L] = g[Of(L)] /\ j[M] = g[Of(M)]
      BY <3>1
    <3> HIDE DEF Of, C, j, M
    <3>5. g[C \cup Of(M)] = g[C] + g[Of(M)]
      BY <3>2, <3>3, SumsSplit
    <3> QED
      BY <2>2, <3>2, <3>4, <3>5 DEF M, k
  <2> QED
    BY <2>1, <2>2
<1>2. j = [L \in SUBSET K |-> j[L]] /\ Of(K) = A /\ j[K] = g[Of(K)]
  OBVIOUS
<1> HIDE DEF j, Of
<1>3. Sums(j, K, e)
  BY <1>1, <1>2 DEF Sums
<1>4. j = h
  BY <1>3, SumsAreOne
<1> QED
  BY <1>2, <1>4

(* A difference of sums.                                                   *)
LEMMA SumsDiffer ==
  ASSUME NEW S, IsFiniteSet(S), NEW f1 \in [S -> Int], NEW f2 \in [S -> Int],
         NEW g1, Sums(g1, S, f1), NEW g2, Sums(g2, S, f2),
         NEW h, Sums(h, S, [x \in S |-> f1[x] - f2[x]])
  PROVE  h[S] = g1[S] - g2[S]
<1> DEFINE e == [x \in S |-> f1[x] - f2[x]]
           j == [s \in SUBSET S |-> g1[s] - g2[s]]
<1>1. g1 \in [SUBSET S -> Int] /\ g2 \in [SUBSET S -> Int]
  BY SumsAreWhole
<1>2. ASSUME NEW s \in SUBSET S
      PROVE  j[s] = IF s = {} THEN 0 ELSE e[One(s)] + j[s \ {One(s)}]
  <2>1. CASE s = {}
    BY <2>1 DEF Sums
  <2>2. CASE s # {}
    <3> DEFINE x == One(s)
               r == s \ {x}
    <3>1. x \in S /\ r \in SUBSET S
      BY <2>2, OneIsIn
    <3>2. g1[s] = f1[x] + g1[r] /\ g2[s] = f2[x] + g2[r]
      BY <2>2 DEF Sums
    <3>3. e[x] = f1[x] - f2[x] /\ j[s] = g1[s] - g2[s] /\ j[r] = g1[r] - g2[r]
      BY <3>1
    <3>4. f1[x] \in Int /\ f2[x] \in Int /\ g1[r] \in Int /\ g2[r] \in Int
      BY <1>1, <3>1
    <3> HIDE DEF x, r, e, j
    <3>5. j[s] = e[x] + j[r]
      BY <3>2, <3>3, <3>4
    <3> QED
      BY <2>2, <3>5 DEF x, r
  <2> QED
    BY <2>1, <2>2
<1>3. j = [s \in SUBSET S |-> j[s]] /\ j[S] = g1[S] - g2[S]
  OBVIOUS
<1> HIDE DEF j
<1>4. Sums(j, S, e)
  BY <1>2, <1>3 DEF Sums
<1> HIDE DEF e
<1>5. j = h
  BY <1>4, SumsAreOne DEF e
<1> QED
  BY <1>3, <1>5

-----------------------------------------------------------------------------
(* The sums of the reports.                                                *)
LEMMA SameMoneySizes ==
  \A S : /\ Money!IsFiniteSet(S) <=> IsFiniteSet(S)
         /\ Money!Cardinality(S) = Cardinality(S)
  BY DEF Money!IsFiniteSet, Money!Cardinality, IsFiniteSet, Cardinality

LEMMA MoneyConstants ==
  /\ Amounts \subseteq Nat /\ Width \in Nat \ {0} /\ Week \in Nat \ {0}
  /\ IsFiniteSet(Invoices) /\ IsFiniteSet(Places) /\ IsFiniteSet(Kinds)
  /\ Money!NoPlace \notin Places
  BY Assumptions, SameMoneySizes DEF Money!ReportsAssumption, Money!NoPlace

LEMMA SumIs ==
  ASSUME NEW S, IsFiniteSet(S), NEW f, DOMAIN f = S, NEW h, Sums(h, S, f)
  PROVE  Money!Sum(f) = h[S]
<1> DEFINE g == CHOOSE g : Sums(g, S, f)
<1>1. Money!Sum(f) = g[S]
  BY DEF Money!Sum, Money!MapThenSumSet, Money!MapThenFoldSet, Sums, One
<1>2. Sums(g, S, f)
  BY SumsAreThere
<1> HIDE DEF g
<1>3. g = h
  BY <1>2, SumsAreOne
<1> QED
  BY <1>1, <1>3

Total == [i \in Invoices |-> IF inv[i].status = "none" THEN 0 ELSE inv[i].total]
Cost  == [e \in spent |-> e.amount]
In  == CHOOSE g : Sums(g, Invoices, Total)
Out == CHOOSE g : Sums(g, spent, Cost)

(* What is known of a row: who is open has not paid, who has paid did so   *)
(* by today, who is overdue was due before today.                          *)
MoneyInv ==
  /\ Money!ReportsTypeOK /\ IsFiniteSet(spent)
  /\ \A i \in Invoices :
       /\ inv[i].status \in {"open", "overdue"} => inv[i].paid = Money!NoDay
       /\ inv[i].status = "paid" => inv[i].paid \in 0 .. reportDay
       /\ inv[i].status = "overdue" => inv[i].due < reportDay

LEMMA InvoiceFields ==
  ASSUME Money!ReportsTypeOK, NEW i \in Invoices, inv[i].status # "none"
  PROVE  /\ inv[i] \in Money!InvoiceRows
         /\ inv[i].status \in {"open", "overdue", "paid", "cancelled"}
         /\ inv[i].due \in Money!Days /\ inv[i].paid \in Money!Days \cup {Money!NoDay}
         /\ inv[i].total \in Nat /\ Money!PlaceOf(i) \in Places \cup {Money!NoPlace}
         /\ inv[i].kind \in Kinds /\ inv[i].method \in Money!Methods
<1>1. inv[i] \in Money!InvoiceRows
  BY DEF Money!ReportsTypeOK, Money!NoInvoice
<1> QED
  BY <1>1, MoneyConstants DEF Money!InvoiceRows, Money!PlaceOf

LEMMA InSums ==
  ASSUME MoneyInv
  PROVE  Total \in [Invoices -> Nat] /\ Sums(In, Invoices, Total) /\ In \in [SUBSET Invoices -> Nat]
<1>1. Total \in [Invoices -> Nat]
  BY InvoiceFields DEF Total, MoneyInv
<1>2. Sums(In, Invoices, Total)
  BY MoneyConstants, SumsAreThere DEF In
<1> QED
  BY <1>1, <1>2, MoneyConstants, SumsAreWhole

LEMMA OutSums ==
  ASSUME MoneyInv
  PROVE  Cost \in [spent -> Nat] /\ Sums(Out, spent, Cost) /\ Out \in [SUBSET spent -> Nat]
<1>1. \A e \in spent : e.amount \in Nat
  BY MoneyConstants DEF MoneyInv, Money!ReportsTypeOK, Money!Expenses
<1>2. Cost \in [spent -> Nat]
  BY <1>1 DEF Cost
<1>3. Sums(Out, spent, Cost) /\ IsFiniteSet(spent)
  BY SumsAreThere DEF Out, MoneyInv
<1> QED
  BY <1>2, <1>3, SumsAreWhole

LEMMA IncomeIs ==
  ASSUME MoneyInv, NEW R \in SUBSET Invoices, \A i \in R : inv[i].status # "none"
  PROVE  Money!Income(R) = In[R] /\ In[R] \in Nat
<1> DEFINE Body(g) == [s \in SUBSET R |-> IF s = {} THEN 0
                                          ELSE inv[One(s)].total + g[s \ {One(s)}]]
           h == [s \in SUBSET R |-> In[s]]
           c == CHOOSE g : g = Body(g)
<1>1. Money!Income(R) = c[R]
  BY DEF Money!Income, Money!MapThenSumSet, Money!MapThenFoldSet, One
<1>2. Sums(h, R, Total)
  BY InSums, SumsOfSome
<1>3. ASSUME NEW s \in SUBSET R, s # {}
      PROVE  inv[One(s)].total = Total[One(s)]
  <2>1. One(s) \in R
    BY <1>3, OneIsIn
  <2> QED
    BY <2>1 DEF Total
<1>4. \A g : Body(g) = [s \in SUBSET R |-> IF s = {} THEN 0
                                           ELSE Total[One(s)] + g[s \ {One(s)}]]
  BY <1>3
<1> HIDE DEF Body, h
<1>5. \A g : g = Body(g) <=> Sums(g, R, Total)
  BY <1>4 DEF Sums
<1>6. c = Body(c)
  BY <1>2, <1>5
<1> HIDE DEF c
<1>7. Sums(c, R, Total)
  BY <1>5, <1>6
<1>8. IsFiniteSet(R)
  BY MoneyConstants, FS_Subset
<1>9. c = h
  BY <1>2, <1>7, <1>8, SumsAreOne
<1> QED
  BY <1>1, <1>9, InSums DEF h

LEMMA SpendingIs ==
  ASSUME MoneyInv, NEW R \in SUBSET spent
  PROVE  Money!Spending(R) = Out[R] /\ Out[R] \in Nat
<1> DEFINE Body(g) == [s \in SUBSET R |-> IF s = {} THEN 0
                                          ELSE One(s).amount + g[s \ {One(s)}]]
           h == [s \in SUBSET R |-> Out[s]]
           c == CHOOSE g : g = Body(g)
<1>1. Money!Spending(R) = c[R]
  BY DEF Money!Spending, Money!MapThenSumSet, Money!MapThenFoldSet, One
<1>2. Sums(h, R, Cost)
  BY OutSums, SumsOfSome
<1>3. ASSUME NEW s \in SUBSET R, s # {}
      PROVE  One(s).amount = Cost[One(s)]
  <2>1. One(s) \in R
    BY <1>3, OneIsIn
  <2> QED
    BY <2>1 DEF Cost
<1>4. \A g : Body(g) = [s \in SUBSET R |-> IF s = {} THEN 0
                                           ELSE Cost[One(s)] + g[s \ {One(s)}]]
  BY <1>3
<1> HIDE DEF Body, h
<1>5. \A g : g = Body(g) <=> Sums(g, R, Cost)
  BY <1>4 DEF Sums
<1>6. c = Body(c)
  BY <1>2, <1>5
<1> HIDE DEF c
<1>7. Sums(c, R, Cost)
  BY <1>5, <1>6
<1>8. IsFiniteSet(R)
  BY FS_Subset DEF MoneyInv
<1>9. c = h
  BY <1>2, <1>7, <1>8, SumsAreOne
<1> QED
  BY <1>1, <1>9, OutSums DEF h

(* Sums over invoices, and over expenses, class by class.                  *)
LEMMA SumsByKey ==
  ASSUME NEW S, IsFiniteSet(S), NEW f \in [S -> Nat], NEW g, Sums(g, S, f),
         NEW A \in SUBSET S, NEW K, IsFiniteSet(K), NEW c \in [A -> K],
         NEW e, DOMAIN e = K, \A k \in K : e[k] = g[Class(A, c, k)]
  PROVE  Money!Sum(e) = g[A]
<1>1. f \in [S -> Int]
  OBVIOUS
<1>2. PICK h : Sums(h, K, e)
  BY SumsAreThere
<1>3. Money!Sum(e) = h[K]
  BY <1>2, SumIs
<1>4. h[K] = g[A]
  BY <1>1, <1>2, SumsByClass
<1> QED
  BY <1>3, <1>4

LEMMA InByKey ==
  ASSUME MoneyInv, NEW A \in SUBSET Invoices, NEW K, IsFiniteSet(K), NEW c \in [A -> K],
         NEW e, DOMAIN e = K, \A k \in K : e[k] = In[Class(A, c, k)]
  PROVE  Money!Sum(e) = In[A]
  BY InSums, MoneyConstants, SumsByKey

LEMMA OutByKey ==
  ASSUME MoneyInv, NEW A \in SUBSET spent, NEW K, IsFiniteSet(K), NEW c \in [A -> K],
         NEW e, DOMAIN e = K, \A k \in K : e[k] = Out[Class(A, c, k)]
  PROVE  Money!Sum(e) = Out[A]
<1>1. IsFiniteSet(spent)
  BY DEF MoneyInv
<1> QED
  BY <1>1, OutSums, SumsByKey

LEMMA InSplit ==
  ASSUME MoneyInv, NEW A \in SUBSET Invoices, NEW B \in SUBSET Invoices, A \cap B = {}
  PROVE  In[A \cup B] = In[A] + In[B] /\ In[A] \in Nat /\ In[B] \in Nat
<1>1. Total \in [Invoices -> Int]
  BY InSums
<1>2. In[A \cup B] = In[A] + In[B]
  BY <1>1, InSums, MoneyConstants, SumsSplit
<1> QED
  BY <1>2, InSums

LEMMA OutSplit ==
  ASSUME MoneyInv, NEW A \in SUBSET spent, NEW B \in SUBSET spent, A \cap B = {}
  PROVE  Out[A \cup B] = Out[A] + Out[B] /\ Out[A] \in Nat /\ Out[B] \in Nat
<1>1. Cost \in [spent -> Int] /\ IsFiniteSet(spent)
  BY OutSums DEF MoneyInv
<1>2. Out[A \cup B] = Out[A] + Out[B]
  BY <1>1, OutSums, SumsSplit
<1> QED
  BY <1>2, OutSums

LEMMA SumOfDifference ==
  ASSUME NEW S, IsFiniteSet(S), NEW f1 \in [S -> Nat], NEW f2 \in [S -> Nat]
  PROVE  Money!Sum([x \in S |-> f1[x] - f2[x]]) = Money!Sum(f1) - Money!Sum(f2)
<1> DEFINE e == [x \in S |-> f1[x] - f2[x]]
<1>1. f1 \in [S -> Int] /\ f2 \in [S -> Int]
  OBVIOUS
<1>2. PICK h : Sums(h, S, e)
  BY SumsAreThere
<1>3. PICK g1 : Sums(g1, S, f1)
  BY SumsAreThere
<1>4. PICK g2 : Sums(g2, S, f2)
  BY SumsAreThere
<1>5. h[S] = g1[S] - g2[S]
  BY <1>1, <1>2, <1>3, <1>4, SumsDiffer
<1>6. Money!Sum(f1) = g1[S] /\ Money!Sum(f2) = g2[S]
  BY <1>3, <1>4, SumIs
<1>7. Money!Sum(e) = h[S]
  <2>1. DOMAIN e = S
    OBVIOUS
  <2> HIDE DEF e
  <2> QED
    BY <1>2, <2>1, SumIs
<1> QED
  BY <1>5, <1>6, <1>7

-----------------------------------------------------------------------------
(* Months.  A day is in the month that began last.                         *)
LEMMA MonthOfDay ==
  ASSUME NEW d \in Money!Days
  PROVE  /\ Money!MonthOf(d) \in MonthStarts /\ Money!MonthOf(d) <= d
         /\ Money!MonthOf(d) \in Money!Days /\ Money!MonthOf(d) # Money!End
         /\ \A m \in MonthStarts : m <= d => m <= Money!MonthOf(d)
<1> DEFINE T == {m \in MonthStarts : m <= d}
<1>1. d \in Nat /\ d < Money!End /\ Money!End \in Nat
  BY LastMonth DEF Money!Days
<1>2. T \in SUBSET Nat /\ IsFiniteSet(T) /\ T # {}
  <2>1. 0 \in T
    BY <1>1, LastMonth
  <2>2. IsFiniteSet(T)
    BY LastMonth, FS_Subset
  <2> QED
    BY <2>1, <2>2, LastMonth
<1> HIDE DEF T
<1>3. \E m \in T : \A k \in T : m >= k
  BY <1>2, FiniteHasGreatest
<1>4. Money!Max(T) \in T /\ \A k \in T : Money!Max(T) >= k
  BY <1>3 DEF Money!Max
<1>5. Money!MonthOf(d) = Money!Max(T)
  BY DEF Money!MonthOf, T
<1>6. /\ Money!MonthOf(d) \in MonthStarts /\ Money!MonthOf(d) <= d /\ Money!MonthOf(d) \in Nat
      /\ \A m \in MonthStarts : m <= d => Money!MonthOf(d) >= m
  BY <1>2, <1>4, <1>5 DEF T
<1>7. \A m \in MonthStarts : m \in Nat
  BY LastMonth
<1> QED
  BY <1>1, <1>6, <1>7 DEF Money!Days

LEMMA MonthsRise ==
  ASSUME NEW d \in Money!Days, NEW e \in Money!Days, d <= e
  PROVE  Money!MonthOf(d) <= Money!MonthOf(e)
<1>1. d \in Nat /\ e \in Nat
  BY LastMonth DEF Money!Days
<1>2. Money!MonthOf(d) \in MonthStarts /\ Money!MonthOf(d) <= d /\ Money!MonthOf(d) \in Nat
  BY MonthOfDay, LastMonth
<1>3. Money!MonthOf(d) <= e
  BY <1>1, <1>2
<1> QED
  BY <1>2, <1>3, MonthOfDay

LEMMA MonthIsListed ==
  ASSUME NEW a \in Money!Days, NEW b \in Money!Days, NEW d \in Money!Days, a <= d, d <= b
  PROVE  Money!MonthOf(d) \in Money!MonthsOf(a, b)
  BY MonthOfDay, MonthsRise DEF Money!MonthsOf

LEMMA MonthsAreFinite ==
  ASSUME NEW a, NEW b
  PROVE  IsFiniteSet(Money!MonthsOf(a, b))
  BY LastMonth, FS_Subset DEF Money!MonthsOf

-----------------------------------------------------------------------------
(* The rows of a period.                                                   *)
LEMMA IncomeRowsAre ==
  ASSUME MoneyInv, NEW a, NEW b
  PROVE  /\ Money!IncomeRows(a, b) \in SUBSET Invoices
         /\ \A i \in Money!IncomeRows(a, b) :
              /\ inv[i].status # "none" /\ inv[i].paid \in Money!Days
              /\ inv[i].paid >= a /\ inv[i].paid <= b
              /\ Money!PlaceOf(i) \in Places \cup {Money!NoPlace}
              /\ inv[i].kind \in Kinds /\ inv[i].method \in Money!Methods
<1>1. Money!ReportsTypeOK
  BY DEF MoneyInv
<1> QED
  BY <1>1, InvoiceFields DEF Money!IncomeRows

LEMMA ExpenseRowsAre ==
  ASSUME MoneyInv, NEW a, NEW b
  PROVE  /\ Money!ExpenseRows(a, b) \in SUBSET spent
         /\ \A e \in Money!ExpenseRows(a, b) :
              /\ e.day \in Money!Days /\ e.day >= a /\ e.day <= b
              /\ e.place \in Places \cup {Money!NoPlace}
  BY DEF Money!ExpenseRows, MoneyInv, Money!ReportsTypeOK, Money!Expenses

(* The months of a cash flow sum up to its rows.                           *)
LEMMA FlowIs ==
  ASSUME MoneyInv, NEW a \in Money!Days, NEW b \in Money!Days, a <= b,
         NEW ins, ins \subseteq Money!IncomeRows(a, b),
         NEW outs, outs \subseteq Money!ExpenseRows(a, b)
  PROVE  Money!NetOf(Money!CashFlowOf(ins, outs, a, b)) = In[ins] - Out[outs]
<1> DEFINE K == Money!MonthsOf(a, b)
           c == [i \in ins |-> Money!MonthOf(inv[i].paid)]
           d == [e \in outs |-> Money!MonthOf(e.day)]
           flow == Money!CashFlowOf(ins, outs, a, b)
<1>1. /\ ins \in SUBSET Invoices
      /\ \A i \in ins : inv[i].status # "none" /\ inv[i].paid \in Money!Days
                         /\ a <= inv[i].paid /\ inv[i].paid <= b
  <2>1. \A x \in Money!Days : x >= a <=> a <= x
    BY LastMonth DEF Money!Days
  <2> QED
    BY <2>1, IncomeRowsAre
<1>2. /\ outs \in SUBSET spent
      /\ \A e \in outs : e.day \in Money!Days /\ a <= e.day /\ e.day <= b
  <2>1. \A x \in Money!Days : x >= a <=> a <= x
    BY LastMonth DEF Money!Days
  <2> QED
    BY <2>1, ExpenseRowsAre
<1>3. c \in [ins -> K]
  BY <1>1, MonthIsListed
<1>4. d \in [outs -> K]
  BY <1>2, MonthIsListed
<1>5. IsFiniteSet(K)
  BY MonthsAreFinite
<1>6. /\ DOMAIN flow = K
      /\ \A m \in K : /\ flow[m].income = Money!Income(Class(ins, c, m))
                      /\ flow[m].expenses = Money!Spending(Class(outs, d, m))
  <2>1. flow = [m \in K |-> [income |-> Money!Income({i \in ins : Money!MonthOf(inv[i].paid) = m}),
                             expenses |-> Money!Spending({e \in outs : Money!MonthOf(e.day) = m})]]
    BY DEF Money!CashFlowOf
  <2>2. ASSUME NEW m
        PROVE  /\ {i \in ins : Money!MonthOf(inv[i].paid) = m} = Class(ins, c, m)
               /\ {e \in outs : Money!MonthOf(e.day) = m} = Class(outs, d, m)
    BY DEF Class
  <2> HIDE DEF c, d, K, flow
  <2> QED
    BY <2>1, <2>2
<1> HIDE DEF c, d, K, flow
<1>7. ASSUME NEW m \in K
      PROVE  /\ flow[m].income = In[Class(ins, c, m)]
             /\ flow[m].expenses = Out[Class(outs, d, m)]
  <2>1. Money!Income(Class(ins, c, m)) = In[Class(ins, c, m)]
    <3>1. /\ Class(ins, c, m) \in SUBSET Invoices
          /\ \A i \in Class(ins, c, m) : inv[i].status # "none"
      BY <1>1 DEF Class
    <3> QED
      BY <3>1, IncomeIs
  <2>2. Money!Spending(Class(outs, d, m)) = Out[Class(outs, d, m)]
    <3>1. Class(outs, d, m) \in SUBSET spent
      BY <1>2 DEF Class
    <3> QED
      BY <3>1, SpendingIs
  <2> QED
    BY <1>6, <2>1, <2>2
<1> DEFINE x == [m \in DOMAIN flow |-> flow[m].income]
           y == [m \in DOMAIN flow |-> flow[m].expenses]
<1>8. /\ DOMAIN x = K /\ \A m \in K : x[m] = In[Class(ins, c, m)]
      /\ DOMAIN y = K /\ \A m \in K : y[m] = Out[Class(outs, d, m)]
  BY <1>6, <1>7
<1>9. Money!NetOf(flow) = Money!Sum(x) - Money!Sum(y)
  BY DEF Money!NetOf
<1> HIDE DEF x, y
<1>10. Money!Sum(x) = In[ins]
  BY <1>1, <1>3, <1>5, <1>8, InByKey
<1>11. Money!Sum(y) = Out[outs]
  BY <1>2, <1>4, <1>5, <1>8, OutByKey
<1> QED
  BY <1>9, <1>10, <1>11 DEF flow

LEMMA FewMethods == IsFiniteSet(Money!Methods)
<1>1. Money!Methods = {"provider"} \cup {"manual"}
  BY DEF Money!Methods
<1>2. IsFiniteSet({"provider"}) /\ IsFiniteSet({"manual"})
  BY FS_Singleton
<1> QED
  BY <1>1, <1>2, FS_Union

LEMMA PeriodRows ==
  ASSUME MoneyInv, NEW a \in Money!Days, NEW b \in Money!Days, a <= b
  PROVE  /\ Money!Net(a, b) = In[Money!IncomeRows(a, b)] - Out[Money!ExpenseRows(a, b)]
         /\ Money!Income(Money!IncomeRows(a, b)) = In[Money!IncomeRows(a, b)]
         /\ Money!Spending(Money!ExpenseRows(a, b)) = Out[Money!ExpenseRows(a, b)]
         /\ In[Money!IncomeRows(a, b)] \in Nat /\ Out[Money!ExpenseRows(a, b)] \in Nat
<1>1. Money!Net(a, b) = In[Money!IncomeRows(a, b)] - Out[Money!ExpenseRows(a, b)]
  BY FlowIs DEF Money!Net, Money!CashFlow
<1>2. /\ Money!Income(Money!IncomeRows(a, b)) = In[Money!IncomeRows(a, b)]
      /\ In[Money!IncomeRows(a, b)] \in Nat
  BY IncomeRowsAre, IncomeIs
<1>3. /\ Money!Spending(Money!ExpenseRows(a, b)) = Out[Money!ExpenseRows(a, b)]
      /\ Out[Money!ExpenseRows(a, b)] \in Nat
  BY ExpenseRowsAre, SpendingIs
<1> QED
  BY <1>1, <1>2, <1>3

(* What the invoices of a set sum up to, by a column.                      *)
LEMMA IncomeByKey ==
  ASSUME MoneyInv, NEW A \in SUBSET Invoices, \A i \in A : inv[i].status # "none",
         NEW K, IsFiniteSet(K), NEW c \in [A -> K],
         NEW e, DOMAIN e = K, \A k \in K : e[k] = Money!Income(Class(A, c, k))
  PROVE  Money!Sum(e) = In[A]
<1>1. ASSUME NEW k \in K PROVE e[k] = In[Class(A, c, k)]
  <2>1. /\ Class(A, c, k) \in SUBSET Invoices
        /\ \A i \in Class(A, c, k) : inv[i].status # "none"
    BY DEF Class
  <2> QED
    BY <2>1, IncomeIs
<1> QED
  BY <1>1, InByKey

LEMMA SpendingByKey ==
  ASSUME MoneyInv, NEW A \in SUBSET spent, NEW K, IsFiniteSet(K), NEW c \in [A -> K],
         NEW e, DOMAIN e = K, \A k \in K : e[k] = Money!Spending(Class(A, c, k))
  PROVE  Money!Sum(e) = Out[A]
<1>1. ASSUME NEW k \in K PROVE e[k] = Out[Class(A, c, k)]
  <2>1. Class(A, c, k) \in SUBSET spent
    BY DEF Class
  <2> QED
    BY <2>1, SpendingIs
<1> QED
  BY <1>1, OutByKey

LEMMA ByKindIs ==
  ASSUME MoneyInv, NEW A \in SUBSET Invoices,
         \A i \in A : inv[i].status # "none" /\ inv[i].kind \in Kinds
  PROVE  Money!Sum([k \in Kinds |-> Money!Income({i \in A : inv[i].kind = k})]) = In[A]
<1> DEFINE c == [i \in A |-> inv[i].kind]
           e == [k \in Kinds |-> Money!Income({i \in A : inv[i].kind = k})]
<1>1. c \in [A -> Kinds] /\ DOMAIN e = Kinds
  OBVIOUS
<1>2. \A k \in Kinds : Class(A, c, k) = {i \in A : inv[i].kind = k}
  BY DEF Class
<1>3. \A k \in Kinds : e[k] = Money!Income(Class(A, c, k))
  BY <1>2
<1> HIDE DEF c, e
<1>4. Money!Sum(e) = In[A]
  BY <1>1, <1>3, MoneyConstants, IncomeByKey
<1> QED
  BY <1>4 DEF e

LEMMA ByMethodIs ==
  ASSUME MoneyInv, NEW A \in SUBSET Invoices,
         \A i \in A : inv[i].status # "none" /\ inv[i].method \in Money!Methods
  PROVE  Money!Sum([m \in Money!Methods |-> Money!Income({i \in A : inv[i].method = m})])
           = In[A]
<1> DEFINE c == [i \in A |-> inv[i].method]
           e == [m \in Money!Methods |-> Money!Income({i \in A : inv[i].method = m})]
<1>1. c \in [A -> Money!Methods] /\ DOMAIN e = Money!Methods
  OBVIOUS
<1>2. \A m \in Money!Methods : Class(A, c, m) = {i \in A : inv[i].method = m}
  BY DEF Class
<1>3. \A m \in Money!Methods : e[m] = Money!Income(Class(A, c, m))
  BY <1>2
<1> HIDE DEF c, e
<1>4. Money!Sum(e) = In[A]
  BY <1>1, <1>3, FewMethods, IncomeByKey
<1> QED
  BY <1>4 DEF e

LEMMA ByPlaceIs ==
  ASSUME MoneyInv, NEW A \in SUBSET Invoices, NEW P, IsFiniteSet(P),
         \A i \in A : inv[i].status # "none" /\ Money!PlaceOf(i) \in P
  PROVE  Money!Sum([p \in P |-> Money!Income({i \in A : Money!PlaceOf(i) = p})]) = In[A]
<1> DEFINE c == [i \in A |-> Money!PlaceOf(i)]
           e == [p \in P |-> Money!Income({i \in A : Money!PlaceOf(i) = p})]
<1>1. c \in [A -> P] /\ DOMAIN e = P
  OBVIOUS
<1>2. \A p \in P : Class(A, c, p) = {i \in A : Money!PlaceOf(i) = p}
  BY DEF Class
<1>3. \A p \in P : e[p] = Money!Income(Class(A, c, p))
  BY <1>2
<1> HIDE DEF c, e
<1>4. Money!Sum(e) = In[A]
  BY <1>1, <1>3, IncomeByKey
<1> QED
  BY <1>4 DEF e

LEMMA PlacesAndNone ==
  IsFiniteSet(Places \cup {Money!NoPlace})
<1>1. IsFiniteSet({Money!NoPlace})
  BY FS_Singleton
<1> QED
  BY <1>1, MoneyConstants, FS_Union

LEMMA CostByPlaceIs ==
  ASSUME MoneyInv, NEW A \in SUBSET spent, NEW P, IsFiniteSet(P), \A e \in A : e.place \in P
  PROVE  Money!Sum([p \in P |-> Money!Spending({e \in A : e.place = p})]) = Out[A]
<1> DEFINE c == [x \in A |-> x.place]
           e == [p \in P |-> Money!Spending({x \in A : x.place = p})]
<1>1. c \in [A -> P] /\ DOMAIN e = P
  OBVIOUS
<1>2. \A p \in P : Class(A, c, p) = {x \in A : x.place = p}
  BY DEF Class
<1>3. \A p \in P : e[p] = Money!Spending(Class(A, c, p))
  BY <1>2
<1> HIDE DEF c, e
<1>4. Money!Sum(e) = Out[A]
  BY <1>1, <1>3, SpendingByKey
<1> QED
  BY <1>4 DEF e

(* The page of a place, or of none: what is paid there less what it costs. *)
LEMMA PageIs ==
  ASSUME MoneyInv, NEW p, NEW a \in Money!Days, NEW b \in Money!Days, a <= b
  PROVE  /\ Money!IncomeAt(p, a, b) \in SUBSET Money!IncomeRows(a, b)
         /\ Money!CostsAt(p, a, b) \in SUBSET Money!ExpenseRows(a, b)
         /\ Money!Income(Money!IncomeAt(p, a, b)) = In[Money!IncomeAt(p, a, b)]
         /\ Money!Spending(Money!CostsAt(p, a, b)) = Out[Money!CostsAt(p, a, b)]
         /\ In[Money!IncomeAt(p, a, b)] \in Nat /\ Out[Money!CostsAt(p, a, b)] \in Nat
         /\ Money!CashFlowPage(p, a, b).net =
              In[Money!IncomeAt(p, a, b)] - Out[Money!CostsAt(p, a, b)]
<1> DEFINE ins == Money!IncomeAt(p, a, b)
           outs == Money!CostsAt(p, a, b)
<1>1. ins \in SUBSET Money!IncomeRows(a, b) /\ outs \in SUBSET Money!ExpenseRows(a, b)
  BY DEF Money!IncomeAt, Money!CostsAt
<1>2. Money!CashFlowPage(p, a, b).net = Money!NetOf(Money!CashFlowOf(ins, outs, a, b))
  BY DEF Money!CashFlowPage
<1> HIDE DEF ins, outs
<1>3. /\ ins \in SUBSET Invoices /\ \A i \in ins : inv[i].status # "none"
      /\ outs \in SUBSET spent
  BY <1>1, IncomeRowsAre, ExpenseRowsAre
<1>4. /\ Money!Income(ins) = In[ins] /\ Money!Spending(outs) = Out[outs]
      /\ In[ins] \in Nat /\ Out[outs] \in Nat
  BY <1>3, IncomeIs, SpendingIs
<1>5. Money!NetOf(Money!CashFlowOf(ins, outs, a, b)) = In[ins] - Out[outs]
  BY <1>1, FlowIs
<1> QED
  BY <1>1, <1>2, <1>4, <1>5 DEF ins, outs

(* The pages of all the places, with that of none, add up to the net.      *)
LEMMA PagesAddUp ==
  ASSUME MoneyInv, NEW a \in Money!Days, NEW b \in Money!Days, a <= b
  PROVE  Money!Sum([p \in Places \cup {Money!NoPlace} |-> Money!CashFlowPage(p, a, b).net])
           = Money!Net(a, b)
<1> DEFINE P == Places \cup {Money!NoPlace}
           ins == Money!IncomeRows(a, b)
           outs == Money!ExpenseRows(a, b)
           f1 == [p \in P |-> Money!Income({i \in ins : Money!PlaceOf(i) = p})]
           f2 == [p \in P |-> Money!Spending({e \in outs : e.place = p})]
           nets == [p \in P |-> Money!CashFlowPage(p, a, b).net]
<1>1. /\ ins \in SUBSET Invoices
      /\ \A i \in ins : inv[i].status # "none" /\ Money!PlaceOf(i) \in P
  BY IncomeRowsAre
<1>2. outs \in SUBSET spent /\ \A e \in outs : e.place \in P
  BY ExpenseRowsAre
<1>3. IsFiniteSet(P)
  BY PlacesAndNone
<1>4. ASSUME NEW p
      PROVE  /\ {i \in ins : Money!PlaceOf(i) = p} = Money!IncomeAt(p, a, b)
             /\ {e \in outs : e.place = p} = Money!CostsAt(p, a, b)
  BY DEF Money!IncomeAt, Money!CostsAt
<1> HIDE DEF P, ins, outs
<1>5. ASSUME NEW p
      PROVE  /\ Money!Income({i \in ins : Money!PlaceOf(i) = p}) \in Nat
             /\ Money!Spending({e \in outs : e.place = p}) \in Nat
             /\ Money!CashFlowPage(p, a, b).net =
                  Money!Income({i \in ins : Money!PlaceOf(i) = p})
                    - Money!Spending({e \in outs : e.place = p})
  <2> DEFINE I == {i \in ins : Money!PlaceOf(i) = p}
             O == {e \in outs : e.place = p}
  <2>1. I = Money!IncomeAt(p, a, b) /\ O = Money!CostsAt(p, a, b)
    BY <1>4
  <2> HIDE DEF I, O
  <2>2. /\ Money!Income(I) \in Nat /\ Money!Spending(O) \in Nat
        /\ Money!CashFlowPage(p, a, b).net = Money!Income(I) - Money!Spending(O)
    BY <2>1, PageIs
  <2> QED
    BY <2>2 DEF I, O
<1>6. f1 \in [P -> Nat] /\ f2 \in [P -> Nat]
  BY <1>5
<1>7. nets = [p \in P |-> f1[p] - f2[p]]
  BY <1>5
<1>8. Money!Sum(f1) = In[ins]
  BY <1>1, <1>3, ByPlaceIs
<1>9. Money!Sum(f2) = Out[outs]
  BY <1>2, <1>3, CostByPlaceIs
<1>10. Money!Net(a, b) = In[ins] - Out[outs]
  BY PeriodRows DEF ins, outs
<1> HIDE DEF f1, f2, nets
<1>11. Money!Sum(nets) = In[ins] - Out[outs]
  BY <1>3, <1>6, <1>7, <1>8, <1>9, SumOfDifference
<1> QED
  BY <1>10, <1>11 DEF nets, P

(* Two periods that follow each other.                                     *)
LEMMA PeriodsFollow ==
  ASSUME MoneyInv, NEW a \in Money!Days, NEW b \in Money!Days, a <= b,
         NEW c \in b + 1 .. Money!End - 1
  PROVE  Money!Net(a, b) + Money!Net(b + 1, c) = Money!Net(a, c)
<1>1. /\ a \in Nat /\ b \in Nat /\ b + 1 \in Money!Days /\ c \in Money!Days
      /\ b + 1 <= c /\ a <= c
  BY LastMonth DEF Money!Days
<1>2. \A x \in Money!Days : x \in Nat
  BY LastMonth DEF Money!Days
<1> DEFINE i1 == Money!IncomeRows(a, b)
           i2 == Money!IncomeRows(b + 1, c)
           o1 == Money!ExpenseRows(a, b)
           o2 == Money!ExpenseRows(b + 1, c)
<1>3. i1 \cap i2 = {} /\ i1 \cup i2 = Money!IncomeRows(a, c)
  <2>1. \A x \in Money!Days :
          /\ x >= a /\ x <= c <=> (x >= a /\ x <= b) \/ (x >= b + 1 /\ x <= c)
          /\ ~ (x <= b /\ x >= b + 1)
    BY <1>1, <1>2
  <2> QED
    BY <2>1 DEF Money!IncomeRows
<1>4. o1 \cap o2 = {} /\ o1 \cup o2 = Money!ExpenseRows(a, c)
  <2>1. \A e \in spent : e.day \in Nat
    BY <1>2 DEF MoneyInv, Money!ReportsTypeOK, Money!Expenses
  <2> QED
    BY <1>1, <2>1 DEF Money!ExpenseRows
<1>5. /\ i1 \in SUBSET Invoices /\ i2 \in SUBSET Invoices
      /\ o1 \in SUBSET spent /\ o2 \in SUBSET spent
  BY IncomeRowsAre, ExpenseRowsAre
<1>6. /\ Money!Net(a, b) = In[i1] - Out[o1] /\ Money!Net(b + 1, c) = In[i2] - Out[o2]
      /\ Money!Net(a, c) = In[Money!IncomeRows(a, c)] - Out[Money!ExpenseRows(a, c)]
  BY <1>1, PeriodRows
<1> HIDE DEF i1, i2, o1, o2
<1>7. In[i1 \cup i2] = In[i1] + In[i2] /\ In[i1] \in Nat /\ In[i2] \in Nat
  BY <1>3, <1>5, InSplit
<1>8. Out[o1 \cup o2] = Out[o1] + Out[o2] /\ Out[o1] \in Nat /\ Out[o2] \in Nat
  BY <1>4, <1>5, OutSplit
<1>9. Money!Net(a, c) = (In[i1] + In[i2]) - (Out[o1] + Out[o2])
  BY <1>3, <1>4, <1>6, <1>7, <1>8
<1> QED
  BY <1>6, <1>7, <1>8, <1>9

LEMMA ReportsBalanced == MoneyInv => Money!ReportsBalance
<1> SUFFICES ASSUME MoneyInv, NEW a \in Money!Days, NEW b \in Money!Days, a <= b
             PROVE  LET ins == Money!IncomeRows(a, b) IN
                    /\ Money!Net(a, b) = Money!Income(ins)
                                           - Money!Spending(Money!ExpenseRows(a, b))
                    /\ Money!Sum(Money!ByKind(a, b)) = Money!Income(ins)
                    /\ Money!Sum(Money!ByPlace(a, b)) = Money!Income(ins)
                    /\ Money!Sum(Money!ByMethod(a, b)) = Money!Income(ins)
                    /\ Money!Sum([p \in Places \cup {Money!NoPlace} |->
                                    Money!CashFlowPage(p, a, b).net]) = Money!Net(a, b)
                    /\ \A c \in b + 1 .. Money!End - 1 :
                         Money!Net(a, b) + Money!Net(b + 1, c) = Money!Net(a, c)
  BY DEF Money!ReportsBalance
<1> DEFINE ins == Money!IncomeRows(a, b)
<1>1. /\ ins \in SUBSET Invoices
      /\ \A i \in ins : /\ inv[i].status # "none" /\ inv[i].kind \in Kinds
                        /\ Money!PlaceOf(i) \in Places \cup {Money!NoPlace}
                        /\ inv[i].method \in Money!Methods
  BY IncomeRowsAre
<1>2. /\ Money!Net(a, b) = In[ins] - Out[Money!ExpenseRows(a, b)]
      /\ Money!Income(ins) = In[ins]
      /\ Money!Spending(Money!ExpenseRows(a, b)) = Out[Money!ExpenseRows(a, b)]
  BY PeriodRows
<1>3. Money!Sum(Money!ByKind(a, b)) = In[ins]
  BY <1>1, ByKindIs DEF Money!ByKind
<1>4. Money!Sum(Money!ByPlace(a, b)) = In[ins]
  BY <1>1, PlacesAndNone, ByPlaceIs DEF Money!ByPlace
<1>5. Money!Sum(Money!ByMethod(a, b)) = In[ins]
  BY <1>1, ByMethodIs DEF Money!ByMethod
<1>6. Money!Sum([p \in Places \cup {Money!NoPlace} |-> Money!CashFlowPage(p, a, b).net])
        = Money!Net(a, b)
  BY PagesAddUp
<1>7. \A c \in b + 1 .. Money!End - 1 :
        Money!Net(a, b) + Money!Net(b + 1, c) = Money!Net(a, c)
  BY PeriodsFollow
<1> HIDE DEF ins
<1> QED
  BY <1>2, <1>3, <1>4, <1>5, <1>6, <1>7 DEF ins

(* A group of a place's invoices is worth no more than all of them.        *)
LEMMA GroupIsPart ==
  ASSUME MoneyInv, NEW A \in SUBSET Invoices, \A i \in A : inv[i].status # "none",
         NEW i \in A
  PROVE  /\ Money!Income(Money!Group(i, A)) \in Nat
         /\ Money!Income(Money!Group(i, A)) <= In[A]
<1> DEFINE G == Money!Group(i, A)
           R == A \ G
<1>1. G \in SUBSET A
  BY DEF Money!Group
<1> HIDE DEF G
<1>2. G \in SUBSET Invoices /\ R \in SUBSET Invoices /\ G \cap R = {} /\ G \cup R = A
  BY <1>1
<1>3. Money!Income(G) = In[G]
  <2>1. \A j \in G : inv[j].status # "none"
    BY <1>1
  <2> QED
    BY <1>2, <2>1, IncomeIs
<1> HIDE DEF R
<1>4. In[A] = In[G] + In[R] /\ In[G] \in Nat /\ In[R] \in Nat
  BY <1>2, InSplit
<1> QED
  BY <1>3, <1>4 DEF G

LEMMA NothingIsNothing ==
  ASSUME MoneyInv
  PROVE  In[{}] = 0
<1> DEFINE none == {}
<1>1. none \cup none = none /\ none \cap none = {} /\ none \in SUBSET Invoices
  OBVIOUS
<1> HIDE DEF none
<1>2. In[none \cup none] = In[none] + In[none] /\ In[none] \in Nat
  BY <1>1, InSplit
<1>3. In[none] = In[none] + In[none]
  <2>1. In[none \cup none] = In[none]
    BY <1>1
  <2> QED
    BY <1>2, <2>1
<1>4. In[none] = 0
  <2>1. \A n \in Nat : n = n + n => n = 0
    OBVIOUS
  <2> QED
    BY <1>2, <1>3, <2>1
<1> QED
  BY <1>4 DEF none

(* What the profit takes for the income of a place.                        *)
LEMMA MapIs ==
  ASSUME MoneyInv, NEW p, NEW a \in Money!Days, NEW b \in Money!Days, a <= b
  PROVE  /\ \A x \in Money!IncomeMap(p, a, b) : x \in Nat /\ x <= In[Money!IncomeAt(p, a, b)]
         /\ (\A i \in Money!IncomeAt(p, a, b) :
               Money!Group(i, Money!IncomeAt(p, a, b)) = Money!IncomeAt(p, a, b))
              => Money!IncomeMap(p, a, b) = {In[Money!IncomeAt(p, a, b)]}
<1> DEFINE ins == Money!IncomeAt(p, a, b)
<1>1. Money!IncomeMap(p, a, b) =
        IF ins = {} THEN {0} ELSE {Money!Income(Money!Group(i, ins)) : i \in ins}
  BY DEF Money!IncomeMap
<1>2. ins \in SUBSET Money!IncomeRows(a, b) /\ Money!Income(ins) = In[ins] /\ In[ins] \in Nat
  BY PageIs
<1> HIDE DEF ins
<1>3. ins \in SUBSET Invoices /\ \A i \in ins : inv[i].status # "none"
  BY <1>2, IncomeRowsAre
<1>4. CASE ins = {}
  <2>1. Money!IncomeMap(p, a, b) = {0} /\ In[ins] = 0
    BY <1>1, <1>4, NothingIsNothing
  <2> QED
    BY <2>1 DEF ins
<1>5. CASE ins # {}
  <2>1. Money!IncomeMap(p, a, b) = {Money!Income(Money!Group(i, ins)) : i \in ins}
    BY <1>1, <1>5
  <2>2. ASSUME NEW i \in ins
        PROVE  /\ Money!Income(Money!Group(i, ins)) \in Nat
               /\ Money!Income(Money!Group(i, ins)) <= In[ins]
    BY <1>3, GroupIsPart
  <2>3. ASSUME \A i \in ins : Money!Group(i, ins) = ins
        PROVE  Money!IncomeMap(p, a, b) = {In[ins]}
    <3>1. \A i \in ins : Money!Income(Money!Group(i, ins)) = In[ins]
      BY <1>2, <2>3
    <3> QED
      BY <1>5, <2>1, <3>1
  <2> QED
    BY <2>1, <2>2, <2>3 DEF ins
<1> QED
  BY <1>4, <1>5

LEMMA PlacesAreOne == MoneyInv => Money!PlacesAgree
<1> SUFFICES ASSUME MoneyInv, NEW p \in Places,
                    NEW a \in Money!Days, NEW b \in Money!Days, a <= b
             PROVE  LET shown == Money!CashFlowPage(p, a, b)
                        ins == Money!IncomeAt(p, a, b)
                    IN
                    /\ Money!Sum(Money!IncomePage(p, a, b)) = shown.income
                    /\ shown.income - Money!ExpensePage(p, a, b) = shown.net
                    /\ \A x \in Money!Profit(p, a, b) : x <= shown.net
                    /\ (\A i \in ins : Money!Group(i, ins) = ins)
                         => Money!Profit(p, a, b) = {shown.net}
  BY DEF Money!PlacesAgree
<1> DEFINE ins == Money!IncomeAt(p, a, b)
           outs == Money!CostsAt(p, a, b)
           earned == Money!IncomeMap(p, a, b)
           line == Money!CashFlowPage(p, a, b)
<1>1. /\ ins \in SUBSET Money!IncomeRows(a, b)
      /\ Money!Income(ins) = In[ins] /\ Money!Spending(outs) = Out[outs]
      /\ In[ins] \in Nat /\ Out[outs] \in Nat
      /\ line.net = In[ins] - Out[outs]
  BY PageIs
<1>2. /\ ins \in SUBSET Invoices
      /\ \A i \in ins : inv[i].status # "none" /\ inv[i].kind \in Kinds
  BY <1>1, IncomeRowsAre
<1>3. line.income = Money!Income(ins)
  BY DEF Money!CashFlowPage, Money!ByPlace, Money!IncomeAt
<1>4. Money!ExpensePage(p, a, b) = Money!Spending(outs)
  BY DEF Money!ExpensePage
<1>5. Money!Sum(Money!IncomePage(p, a, b)) = In[ins]
  BY <1>2, ByKindIs DEF Money!IncomePage
<1>6. Money!Profit(p, a, b) = {x - Money!Spending(outs) : x \in earned}
  BY DEF Money!Profit
<1>7. /\ \A x \in earned : x \in Nat /\ x <= In[ins]
      /\ (\A i \in ins : Money!Group(i, ins) = ins) => earned = {In[ins]}
  BY MapIs
<1> HIDE DEF ins, outs, earned, line
<1>8. \A x \in Money!Profit(p, a, b) : x <= line.net
  BY <1>1, <1>6, <1>7
<1>9. ASSUME \A i \in ins : Money!Group(i, ins) = ins
      PROVE  Money!Profit(p, a, b) = {line.net}
  BY <1>1, <1>6, <1>7, <1>9
<1>10. /\ Money!Sum(Money!IncomePage(p, a, b)) = line.income
       /\ line.income - Money!ExpensePage(p, a, b) = line.net
  BY <1>1, <1>3, <1>4, <1>5
<1> QED
  BY <1>8, <1>9, <1>10 DEF ins, line

-----------------------------------------------------------------------------
(* The dashboard: what is paid from day x up to day y.                     *)
PaidIn(x, y) == {i \in Invoices : /\ inv[i].status = "paid"
                                  /\ inv[i].paid >= x /\ inv[i].paid < y}

LEMMA PaidIs ==
  ASSUME MoneyInv, NEW x, NEW y
  PROVE  /\ Money!PaidBetween(x, y) = In[PaidIn(x, y)] /\ In[PaidIn(x, y)] \in Nat
         /\ PaidIn(x, y) \in SUBSET Invoices
<1>1. /\ PaidIn(x, y) \in SUBSET Invoices
      /\ \A i \in PaidIn(x, y) : inv[i].status # "none"
  BY DEF PaidIn
<1>2. Money!PaidBetween(x, y) = Money!Income(PaidIn(x, y))
  BY DEF Money!PaidBetween, PaidIn
<1> QED
  BY <1>1, <1>2, IncomeIs

LEMMA PaidDays ==
  ASSUME MoneyInv, NEW i \in Invoices, inv[i].status \notin {"none", "cancelled"}
  PROVE  /\ inv[i].paid \in Money!Days <=> inv[i].status = "paid"
         /\ inv[i].paid \in Money!Days => inv[i].paid \in Nat /\ inv[i].paid <= reportDay
<1>1. Money!NoDay \notin Money!Days
  BY LastMonth DEF Money!NoDay, Money!Days
<1>2. reportDay \in Nat /\ \A d \in 0 .. reportDay : d \in Money!Days /\ d \in Nat /\ d <= reportDay
  BY LastMonth DEF MoneyInv, Money!ReportsTypeOK, Money!Days
<1>3. inv[i].status \in {"open", "overdue", "paid"}
  BY InvoiceFields DEF MoneyInv
<1> QED
  BY <1>1, <1>2, <1>3 DEF MoneyInv

LEMMA PaidRows ==
  ASSUME MoneyInv, NEW x \in Int, NEW y \in Int
  PROVE  Money!IncomeRows(x, y) = PaidIn(x, y + 1)
<1>1. ASSUME NEW i \in Invoices
      PROVE  i \in Money!IncomeRows(x, y) <=> i \in PaidIn(x, y + 1)
  <2>1. CASE inv[i].status \in {"none", "cancelled"}
    BY <2>1 DEF Money!IncomeRows, PaidIn
  <2>2. CASE inv[i].status \notin {"none", "cancelled"} /\ inv[i].status # "paid"
    BY <2>2, PaidDays DEF Money!IncomeRows, PaidIn
  <2>3. CASE inv[i].status = "paid"
    <3>1. inv[i].paid \in Money!Days /\ inv[i].paid \in Nat
      BY <2>3, PaidDays
    <3> QED
      BY <2>3, <3>1 DEF Money!IncomeRows, PaidIn
  <2> QED
    BY <2>1, <2>2, <2>3
<1> QED
  BY <1>1 DEF Money!IncomeRows, PaidIn

LEMMA PaidFollows ==
  ASSUME MoneyInv, NEW x \in Int, NEW y \in Int, NEW z \in Int, x <= y, y <= z
  PROVE  In[PaidIn(x, z)] = In[PaidIn(x, y)] + In[PaidIn(y, z)]
<1>1. \A i \in Invoices : inv[i].status = "paid" => inv[i].paid \in Nat
  BY PaidDays
<1>2. PaidIn(x, y) \cap PaidIn(y, z) = {} /\ PaidIn(x, y) \cup PaidIn(y, z) = PaidIn(x, z)
  BY <1>1 DEF PaidIn
<1> QED
  BY <1>2, PaidIs, InSplit

LEMMA DashboardIsRight == MoneyInv => Money!DashboardAgrees
<1> SUFFICES ASSUME MoneyInv PROVE Money!DashboardAgrees
  OBVIOUS
<1> DEFINE T == reportDay
           m == Money!MonthOf(T)
<1>1. T \in Money!Days /\ T \in Nat /\ m \in Nat /\ m \in Money!Days /\ m <= T
  BY MonthOfDay, LastMonth DEF MoneyInv, Money!ReportsTypeOK, Money!Days
<1>2. Money!NetThisMonth = Money!Net(Money!Period.from, Money!Period.to)
  <2>1. Money!NetThisMonth = Money!PaidBetween(m, T + 1) - Money!Spending(Money!ExpenseRows(m, T))
    BY DEF Money!NetThisMonth
  <2>2. Money!PaidBetween(m, T + 1) = In[Money!IncomeRows(m, T)]
    BY <1>1, PaidIs, PaidRows
  <2>3. /\ Money!Net(m, T) = In[Money!IncomeRows(m, T)] - Out[Money!ExpenseRows(m, T)]
        /\ Money!Spending(Money!ExpenseRows(m, T)) = Out[Money!ExpenseRows(m, T)]
    BY <1>1, PeriodRows
  <2>4. Money!Period.from = m /\ Money!Period.to = T
    BY DEF Money!Period
  <2> QED
    BY <2>1, <2>2, <2>3, <2>4
<1>3. ASSUME NEW x \in Int, NEW y \in Int
      PROVE  Money!Income(Money!IncomeRows(x, y)) = In[PaidIn(x, y + 1)]
  BY PaidRows, IncomeRowsAre, IncomeIs
<1>4. Money!PreviousMonth + Money!PaidBetween(m, T + 1) =
        Money!Income(Money!IncomeRows(IF m = 0 THEN 0 ELSE Money!MonthOf(m - 1), T))
  <2>1. CASE m = 0
    <3>1. Money!PreviousMonth = 0
      BY <2>1 DEF Money!PreviousMonth
    <3> HIDE DEF m, T
    <3>2. Money!PaidBetween(m, T + 1) = In[PaidIn(0, T + 1)] /\ In[PaidIn(0, T + 1)] \in Nat
      BY <2>1, PaidIs
    <3>3. Money!Income(Money!IncomeRows(0, T)) = In[PaidIn(0, T + 1)]
      BY <1>1, <1>3
    <3> QED
      BY <2>1, <3>1, <3>2, <3>3
  <2>2. CASE m # 0
    <3> DEFINE p == Money!MonthOf(m - 1)
    <3>1. Money!PreviousMonth = Money!PaidBetween(p, m)
      BY <2>2 DEF Money!PreviousMonth
    <3> HIDE DEF m, T
    <3>2. m - 1 \in Money!Days /\ m - 1 \in Nat
      BY <1>1, <2>2, LastMonth DEF Money!Days
    <3>3. p \in Nat /\ p <= m - 1
      BY <3>2, MonthOfDay, LastMonth DEF Money!Days
    <3> HIDE DEF p
    <3>4. p \in Int /\ m \in Int /\ T + 1 \in Int /\ T \in Int /\ p <= m /\ m <= T + 1
      BY <1>1, <3>3
    <3>5. In[PaidIn(p, T + 1)] = In[PaidIn(p, m)] + In[PaidIn(m, T + 1)]
      BY <3>4, PaidFollows
    <3>6. Money!Income(Money!IncomeRows(p, T)) = In[PaidIn(p, T + 1)]
      BY <1>3, <3>4
    <3>7. /\ Money!PaidBetween(p, m) = In[PaidIn(p, m)]
          /\ Money!PaidBetween(m, T + 1) = In[PaidIn(m, T + 1)]
      BY PaidIs
    <3>8. Money!PreviousMonth + Money!PaidBetween(m, T + 1) = Money!Income(Money!IncomeRows(p, T))
      BY <3>1, <3>5, <3>6, <3>7
    <3> QED
      BY <2>2, <3>8 DEF p
  <2> QED
    BY <2>1, <2>2
<1>5. ASSUME NEW k \in 1 .. Money!End
      PROVE  Money!RangeCompare(k) + Money!RangeRevenue(k) =
               Money!Income(Money!IncomeRows(T - k, T))
  <2>1. k \in Nat /\ k >= 1
    BY LastMonth
  <2>2. /\ T - k \in Int /\ T \in Int /\ T + k \in Int /\ T + 1 \in Int
        /\ T - k <= T /\ T <= T + k
    BY <1>1, <2>1
  <2>3. In[PaidIn(T - k, T + k)] = In[PaidIn(T - k, T)] + In[PaidIn(T, T + k)]
    BY <2>2, PaidFollows
  <2>4. PaidIn(T - k, T + k) = PaidIn(T - k, T + 1)
    <3>1. \A i \in Invoices : inv[i].status = "paid" => inv[i].paid \in Nat /\ inv[i].paid <= T
      BY PaidDays
    <3> QED
      BY <1>1, <2>1, <3>1 DEF PaidIn
  <2>5. /\ Money!RangeCompare(k) = In[PaidIn(T - k, T)]
        /\ Money!RangeRevenue(k) = In[PaidIn(T, T + k)]
    BY PaidIs DEF Money!RangeCompare, Money!RangeRevenue
  <2>6. Money!Income(Money!IncomeRows(T - k, T)) = In[PaidIn(T - k, T + 1)]
    BY <1>3, <2>2
  <2> QED
    BY <2>3, <2>4, <2>5, <2>6
<1> QED
  BY <1>2, <1>4, <1>5 DEF Money!DashboardAgrees

-----------------------------------------------------------------------------
(* The aging report: each invoice that is late is in one bucket.           *)
LEMMA AgingIsRight == MoneyInv => Money!AgingIsComplete
<1> SUFFICES ASSUME MoneyInv PROVE Money!AgingIsComplete
  OBVIOUS
<1> DEFINE R == Money!Receivable
           over == {i \in Invoices : inv[i].status = "overdue"}
           early == {i \in Invoices : inv[i].status = "open" /\ inv[i].due >= reportDay}
           owed == {i \in Invoices : inv[i].status \in {"open", "overdue"}}
           c == [i \in R |-> IF Money!Late(i) <= Width THEN 1
                             ELSE IF Money!Late(i) <= 2 * Width THEN 2
                             ELSE IF Money!Late(i) <= 3 * Width THEN 3 ELSE 4]
<1>1. reportDay \in Nat
  BY LastMonth DEF MoneyInv, Money!ReportsTypeOK, Money!Days
<1>2. ASSUME NEW i \in Invoices, inv[i].status # "none"
      PROVE  inv[i].due \in Nat /\ Money!Late(i) \in Int
  <2>1. inv[i].due \in Nat
    BY <1>2, InvoiceFields, LastMonth DEF MoneyInv, Money!Days
  <2> QED
    BY <1>1, <2>1 DEF Money!Late
<1>3. /\ R \in SUBSET Invoices /\ \A i \in R : inv[i].status # "none"
      /\ over \in SUBSET R /\ early \in SUBSET Invoices /\ owed \in SUBSET Invoices
      /\ R \cap early = {} /\ R \cup early = owed
  BY <1>1, <1>2 DEF Money!Receivable, MoneyInv
<1>4. c \in [R -> 1 .. 4]
  OBVIOUS
<1>5. ASSUME NEW k \in 1 .. 4
      PROVE  Class(R, c, k) = {i \in R : /\ k < 4 => Money!Late(i) <= k * Width
                                         /\ k > 1 => Money!Late(i) > (k - 1) * Width}
  <2>1. ASSUME NEW i \in R
        PROVE  c[i] = k <=> /\ k < 4 => Money!Late(i) <= k * Width
                            /\ k > 1 => Money!Late(i) > (k - 1) * Width
    <3>1. Money!Late(i) \in Int /\ Width \in Nat \ {0}
      BY <1>2, <1>3, MoneyConstants
    <3>2. c[i] = IF Money!Late(i) <= Width THEN 1
                 ELSE IF Money!Late(i) <= 2 * Width THEN 2
                 ELSE IF Money!Late(i) <= 3 * Width THEN 3 ELSE 4
      OBVIOUS
    <3> HIDE DEF c, R
    <3>3. CASE Money!Late(i) <= 0
      BY <3>1, <3>2, <3>3
    <3>4. k = 1 \/ k = 2 \/ k = 3 \/ k = 4
      OBVIOUS
    <3>5. CASE k = 1
      BY <3>1, <3>2, <3>5
    <3>6. CASE k = 2
      BY <3>1, <3>2, <3>6
    <3>7. CASE k = 3
      BY <3>1, <3>2, <3>7
    <3>8. CASE k = 4
      BY <3>1, <3>2, <3>8
    <3> QED
      BY <3>4, <3>5, <3>6, <3>7, <3>8
  <2> QED
    BY <2>1 DEF Class
<1>6. DOMAIN Money!Aging = 1 .. 4
      /\ \A k \in 1 .. 4 : Money!Aging[k] = Money!Income(Class(R, c, k))
  BY <1>5 DEF Money!Aging
<1>7. IsFiniteSet(1 .. 4)
  <2>1. 1 \in Int /\ 4 \in Int
    OBVIOUS
  <2> HIDE DEF R, over, early, owed, c
  <2> QED
    BY <2>1, FS_Interval
<1> DEFINE e == Money!Aging
<1> HIDE DEF c, R, e
<1>8. Money!Sum(e) = In[R]
  BY <1>3, <1>4, <1>6, <1>7, IncomeByKey DEF e
<1>9. Money!Income(R) = In[R] /\ In[R] \in Nat
  BY <1>3, IncomeIs
<1>10. Money!OverdueAmount = In[over] /\ In[over] \in Nat
  <2>1. /\ over \in SUBSET Invoices /\ \A i \in over : inv[i].status # "none"
    BY <1>3
  <2>2. Money!OverdueAmount = Money!Income(over)
    BY DEF Money!OverdueAmount
  <2> QED
    BY <2>1, <2>2, IncomeIs
<1>11. Money!Income(early) = In[early] /\ In[early] \in Nat
  <2>1. /\ early \in SUBSET Invoices /\ \A i \in early : inv[i].status # "none"
    OBVIOUS
  <2> QED
    BY <2>1, IncomeIs
<1>12. Money!OpenReceivables = In[owed] /\ In[owed] \in Nat
  <2>1. /\ owed \in SUBSET Invoices /\ \A i \in owed : inv[i].status # "none"
    OBVIOUS
  <2>2. Money!OpenReceivables = Money!Income(owed)
    BY DEF Money!OpenReceivables
  <2> QED
    BY <2>1, <2>2, IncomeIs
<1> HIDE DEF over, early, owed
<1>13. In[R] = In[over] + In[R \ over] /\ In[R \ over] \in Nat
  <2>1. /\ over \in SUBSET Invoices /\ R \ over \in SUBSET Invoices
        /\ over \cap (R \ over) = {} /\ over \cup (R \ over) = R
    BY <1>3
  <2> QED
    BY <2>1, InSplit
<1>14. In[owed] = In[R] + In[early]
  BY <1>3, InSplit
<1>15. Money!OverdueAmount <= Money!Sum(e)
  BY <1>8, <1>10, <1>13
<1>16. Money!OpenReceivables - Money!Sum(e) = Money!Income(early)
  BY <1>8, <1>9, <1>11, <1>12, <1>14
<1> QED
  BY <1>8, <1>9, <1>15, <1>16 DEF Money!AgingIsComplete, e, R, early

-----------------------------------------------------------------------------
(* The forecast.  Two sets with as many members, paired by a function.     *)
LEMMA Paired ==
  ASSUME NEW S, IsFiniteSet(S), NEW R, NEW f \in [S -> R],
         \A x, y \in S : f[x] = f[y] => x = y,
         \A z \in R : \E x \in S : f[x] = z
  PROVE  Cardinality(R) = Cardinality(S)
<1>1. f \in Bijection(S, R)
  BY DEF Bijection, Injection, Surjection, IsInjective
<1> QED
  BY <1>1, FS_Bijection DEF ExistsBijection

LEMMA Divided ==
  ASSUME NEW x \in Int, NEW w \in Nat \ {0}
  PROVE  /\ x = (w * (x \div w)) + (x % w)
         /\ x % w \in 0 .. w - 1 /\ x \div w \in Int
  OBVIOUS

LEMMA NoRest ==
  ASSUME NEW w \in Nat \ {0}, NEW q \in Int
  PROVE  w * q \in Int /\ (w * q) % w = 0
  OBVIOUS

LEMMA StepApart ==
  ASSUME NEW w \in Nat \ {0}, NEW p \in Int, NEW q \in Int, p < q
  PROVE  (w * p) + w <= w * q
  OBVIOUS

LEMMA Together ==
  ASSUME NEW w \in Nat \ {0}, NEW p \in Int, NEW q \in Int
  PROVE  (w * p) + (w * q) = w * (p + q) /\ w * p \in Int /\ w * q \in Int
  OBVIOUS

(* The days a number of weeks after the first one, from day x to day y.    *)
WeekDays(w, s, x, y) == {d \in x .. y : (d - s) % w = 0}
WholeWeeks(w, s, u) == \E q \in Int : u = s + (w * q)
WeeksFrom(w, u, y) == IF u > y THEN 0 ELSE ((y - u) \div w) + 1

LEMMA EveryWeek ==
  ASSUME NEW w \in Nat \ {0}, NEW s \in Int, NEW x \in Int, NEW y \in Int,
         NEW u \in Int, WholeWeeks(w, s, u), x <= u, u - w < x
  PROVE  Cardinality(WeekDays(w, s, x, y)) = WeeksFrom(w, u, y)
<1> DEFINE R == WeekDays(w, s, x, y)
<1>0. PICK q \in Int : u = s + (w * q)
  BY DEF WholeWeeks
<1>1. ASSUME NEW d \in R
      PROVE  \E p \in Int : p >= q /\ d = s + (w * p) /\ d >= u
  <2>1. d \in Int /\ x <= d /\ (d - s) % w = 0 /\ d - s \in Int
    BY DEF WeekDays
  <2> DEFINE p == (d - s) \div w
  <2>2. p \in Int /\ d - s = (w * p) + ((d - s) % w)
    BY <2>1, Divided
  <2> HIDE DEF p, R
  <2>3. w * p \in Int /\ w * q \in Int
    BY <2>2, Together
  <2>4. d = s + (w * p)
    BY <2>1, <2>2, <2>3
  <2>5. p >= q
    <3>1. SUFFICES ASSUME p < q PROVE FALSE
      BY <2>2
    <3>2. (w * p) + w <= w * q
      BY <2>2, <3>1, StepApart
    <3> QED
      BY <1>0, <2>1, <2>3, <2>4, <3>2
  <2>6. d >= u
    <3>1. CASE p = q
      BY <1>0, <2>1, <2>4, <3>1
    <3>2. CASE p > q
      <4>1. (w * q) + w <= w * p
        BY <2>2, <3>2, StepApart
      <4> QED
        BY <1>0, <2>1, <2>3, <2>4, <4>1
    <3> QED
      BY <2>2, <2>5, <3>1, <3>2
  <2> QED
    BY <2>2, <2>4, <2>5, <2>6
<1>2. CASE u > y
  <2>1. R = {}
    <3>1. SUFFICES ASSUME NEW d \in R PROVE FALSE
      OBVIOUS
    <3>2. d >= u /\ d \in Int /\ d <= y
      BY <1>1 DEF WeekDays
    <3> QED
      BY <1>2, <3>2
  <2> QED
    BY <1>2, <2>1, FS_EmptySet DEF WeeksFrom
<1>3. CASE u <= y
  <2> DEFINE n == (y - u) \div w
             f == [k \in 0 .. n |-> u + (w * k)]
  <2>1. /\ n \in Int /\ y - u \in Int /\ y - u >= 0
        /\ y - u = (w * n) + ((y - u) % w) /\ (y - u) % w \in 0 .. w - 1
    <3>1. y - u \in Int /\ y - u >= 0
      BY <1>3
    <3> HIDE DEF R
    <3> QED
      BY <3>1, Divided
  <2>2. w * n \in Int /\ (y - u) % w \in Int /\ 0 <= (y - u) % w /\ (y - u) % w < w
    BY <2>1, Together
  <2> HIDE DEF n, R
  <2>3. n >= 0
    <3>1. SUFFICES ASSUME n < 0 PROVE FALSE
      BY <2>1
    <3>2. (w * n) + w <= w * 0
      BY <2>1, <3>1, StepApart
    <3>3. w * 0 = 0
      OBVIOUS
    <3> QED
      BY <2>1, <2>2, <3>2, <3>3
  <2>4. ASSUME NEW k \in 0 .. n PROVE u + (w * k) \in R
    <3>1. k \in Int /\ q + k \in Int /\ 0 <= k /\ k <= n
      BY <2>1
    <3>2. /\ (w * q) + (w * k) = w * (q + k) /\ w * q \in Int /\ w * k \in Int
          /\ w * (q + k) \in Int /\ (w * (q + k)) % w = 0
      BY <3>1, Together, NoRest
    <3>3. w * k >= 0 /\ w * k <= w * n
      <4>1. CASE k = n
        <5>1. w * n >= 0
          <6>1. CASE n = 0
            BY <6>1
          <6>2. CASE n > 0
            <7>1. (w * 0) + w <= w * n /\ w * 0 = 0
              BY <2>1, <6>2, StepApart
            <7> QED
              BY <2>2, <7>1
          <6> QED
            BY <2>1, <2>3, <6>1, <6>2
        <5> QED
          BY <2>2, <4>1, <5>1
      <4>2. CASE k < n
        <5>1. (w * k) + w <= w * n
          BY <2>1, <3>1, <4>2, StepApart
        <5>2. w * k >= 0
          <6>1. CASE k = 0
            BY <6>1
          <6>2. CASE k > 0
            <7>1. (w * 0) + w <= w * k /\ w * 0 = 0
              BY <3>1, <6>2, StepApart
            <7> QED
              BY <3>2, <7>1
          <6> QED
            BY <3>1, <6>1, <6>2
        <5> QED
          BY <2>2, <3>2, <5>1, <5>2
      <4> QED
        BY <2>1, <3>1, <4>1, <4>2
    <3>4. (u + (w * k)) - s = w * (q + k)
      BY <1>0, <3>2
    <3>5. u + (w * k) \in x .. y
      BY <2>1, <2>2, <3>2, <3>3
    <3> QED
      BY <3>2, <3>4, <3>5 DEF R, WeekDays
  <2>5. f \in [0 .. n -> R]
    BY <2>4
  <2>6. ASSUME NEW j \in 0 .. n, NEW k \in 0 .. n, f[j] = f[k] PROVE j = k
    <3>1. u + (w * j) = u + (w * k) /\ j \in Int /\ k \in Int
      BY <2>1, <2>6
    <3>2. w * j \in Int /\ w * k \in Int
      BY <3>1, Together
    <3>3. ASSUME j < k PROVE FALSE
      <4>1. (w * j) + w <= w * k
        BY <3>1, <3>3, StepApart
      <4> QED
        BY <3>1, <3>2, <4>1
    <3>4. ASSUME k < j PROVE FALSE
      <4>1. (w * k) + w <= w * j
        BY <3>1, <3>4, StepApart
      <4> QED
        BY <3>1, <3>2, <4>1
    <3> QED
      BY <3>1, <3>3, <3>4
  <2>7. ASSUME NEW d \in R PROVE \E k \in 0 .. n : f[k] = d
    <3>1. PICK p \in Int : p >= q /\ d = s + (w * p)
      BY <1>1
    <3>2. p - q \in Int /\ p - q >= 0 /\ q + (p - q) = p
      BY <3>1
    <3>3. /\ (w * q) + (w * (p - q)) = w * p /\ w * q \in Int /\ w * (p - q) \in Int
          /\ w * p \in Int
      BY <3>2, Together
    <3>4. d = u + (w * (p - q)) /\ d <= y
      <4>1. d \in x .. y
        BY DEF R, WeekDays
      <4> QED
        BY <1>0, <3>1, <3>3, <4>1
    <3>5. p - q <= n
      <4>1. SUFFICES ASSUME n < p - q PROVE FALSE
        BY <2>1, <3>2
      <4>2. (w * n) + w <= w * (p - q)
        BY <2>1, <3>2, <4>1, StepApart
      <4> QED
        BY <2>1, <2>2, <3>3, <3>4, <4>2
    <3>6. p - q \in 0 .. n
      BY <2>1, <3>2, <3>5
    <3> QED
      BY <3>4, <3>6
  <2>8. IsFiniteSet(0 .. n) /\ Cardinality(0 .. n) = n + 1
    <3>1. 0 \in Int /\ n \in Int /\ ~ (0 > n)
      BY <2>1, <2>3
    <3>2. IsFiniteSet(0 .. n) /\ Cardinality(0 .. n) = n - 0 + 1
      BY <3>1, FS_Interval
    <3> QED
      BY <2>1, <3>2
  <2> HIDE DEF f
  <2>9. Cardinality(R) = Cardinality(0 .. n)
    BY <2>5, <2>6, <2>7, <2>8, Paired
  <2> QED
    BY <1>3, <2>8, <2>9 DEF n, R, WeeksFrom
<1> QED
  BY <1>2, <1>3

LEMMA LeaseFields ==
  ASSUME NEW l \in Money!Leases
  PROVE  /\ l.start \in Money!Days /\ l.start \in Nat /\ l.last \in Nat /\ l.start <= l.last
         /\ l.cycle \in {"weekly", "monthly", "one_time"}
  BY LastMonth DEF Money!Leases, Money!Days, Money!NoDay

(* The part of a period in which a lease runs.                             *)
LEMMA LeaseWindow ==
  ASSUME NEW l \in Money!Leases, NEW a \in Money!Days, NEW b \in Money!Days, a <= b,
         l.last >= a, l.start <= b
  PROVE  /\ Money!FirstOf(l, a) \in Money!Days /\ Money!LastOf(l, b) \in Money!Days
         /\ Money!FirstOf(l, a) \in Nat /\ Money!LastOf(l, b) \in Nat
         /\ Money!FirstOf(l, a) >= l.start
         /\ \A d \in Int : /\ Money!FirstOf(l, a) <= d <=> a <= d /\ l.start <= d
                           /\ d <= Money!LastOf(l, b) <=> d <= b /\ d <= l.last
<1>1. /\ l.start \in Nat /\ l.last \in Nat /\ a \in Nat /\ b \in Nat /\ Money!End \in Nat
      /\ l.start < Money!End /\ b < Money!End /\ a < Money!End
  BY LeaseFields, LastMonth DEF Money!Days
<1> QED
  BY <1>1 DEF Money!FirstOf, Money!LastOf, Money!Days

LEMMA WeeklyIs ==
  ASSUME NEW l \in Money!Leases, NEW a \in Money!Days, NEW b \in Money!Days, a <= b,
         l.last >= a, l.start <= b
  PROVE  Money!WeeklyDues(l, a, b) =
           Cardinality({d \in a .. b : /\ l.start <= d /\ d <= l.last
                                       /\ (d - l.start) % Week = 0})
<1> DEFINE x == Money!FirstOf(l, a)
           y == Money!LastOf(l, b)
           s == l.start
           offset == (x - s) % Week
           u == IF offset = 0 THEN x ELSE x + Week - offset
<1>1. /\ x \in Nat /\ y \in Nat /\ s \in Nat /\ a \in Nat /\ b \in Nat /\ x - s \in Int
      /\ \A d \in Int : x <= d <=> a <= d /\ s <= d
      /\ \A d \in Int : d <= y <=> d <= b /\ d <= l.last
  BY LeaseWindow, LeaseFields, LastMonth DEF Money!Days
<1>2. Week \in Nat \ {0}
  BY MoneyConstants
<1>3. Money!WeeklyDues(l, a, b) = WeeksFrom(Week, u, y)
  BY DEF Money!WeeklyDues, WeeksFrom
<1> HIDE DEF x, y, s
<1>4. {d \in a .. b : s <= d /\ d <= l.last /\ (d - s) % Week = 0} =
        WeekDays(Week, s, x, y)
  <2>1. \A d : d \in a .. b /\ s <= d /\ d <= l.last <=> d \in x .. y
    BY <1>1
  <2> QED
    BY <2>1 DEF WeekDays
<1> DEFINE n == (x - s) \div Week
<1>5. /\ n \in Int /\ offset \in 0 .. Week - 1 /\ x - s = (Week * n) + offset
  BY <1>1, <1>2, Divided
<1>6. Week * n \in Int /\ offset \in Int /\ 0 <= offset /\ offset < Week /\ Week \in Int
  BY <1>2, <1>5, Together
<1> HIDE DEF n, offset
<1>7. u \in Int /\ WholeWeeks(Week, s, u) /\ x <= u /\ u - Week < x
  <2>1. CASE offset = 0
    <3>1. u \in Int /\ u = s + (Week * n) /\ x <= u /\ u - Week < x
      BY <1>1, <1>2, <1>5, <1>6, <2>1
    <3> QED
      BY <1>5, <3>1 DEF WholeWeeks
  <2>2. CASE offset # 0
    <3>1. Week * (n + 1) = (Week * n) + Week
      BY <1>2, <1>5
    <3>2. u = x + Week - offset
      BY <2>2
    <3>3. u \in Int /\ u = s + (Week * (n + 1)) /\ x <= u /\ u - Week < x
      BY <1>1, <1>5, <1>6, <2>2, <3>1, <3>2
    <3> QED
      BY <1>5, <3>3 DEF WholeWeeks
  <2> QED
    BY <2>1, <2>2
<1> HIDE DEF u
<1>8. Cardinality(WeekDays(Week, s, x, y)) = WeeksFrom(Week, u, y)
  <2>1. x \in Int /\ y \in Int /\ s \in Int
    BY <1>1
  <2> QED
    BY <1>2, <1>7, <2>1, EveryWeek
<1> QED
  BY <1>3, <1>4, <1>8 DEF s

(* The days of a month, and the day of it on which rent falls due.         *)
LEMMA DaysOfMonth ==
  ASSUME NEW m \in MonthStarts \ {Money!End}
  PROVE  /\ m \in Nat /\ Money!MonthEnd(m) \in Nat /\ m <= Money!MonthEnd(m)
         /\ \A d \in Nat : m <= d /\ d <= Money!MonthEnd(m) =>
              d \in Money!Days /\ Money!MonthOf(d) = m
<1> DEFINE T == {n \in MonthStarts : n > m}
<1>1. m \in Nat /\ m < Money!End /\ Money!End \in Nat /\ Money!End \in MonthStarts
  BY LastMonth
<1>2. T \in SUBSET Nat /\ T # {} /\ Money!End \in T
  BY <1>1, LastMonth
<1> HIDE DEF T
<1>3. \E n \in T : \A k \in T : n <= k
  BY <1>2, LeastNatural
<1> DEFINE n == Money!Min(T)
<1>4. n \in T /\ \A k \in T : n <= k
  BY <1>3 DEF Money!Min
<1>5. Money!MonthEnd(m) = n - 1
  BY DEF Money!MonthEnd, T
<1> HIDE DEF n
<1>6. n \in Nat /\ n > m /\ n <= Money!End
  BY <1>2, <1>4 DEF T
<1>7. ASSUME NEW d \in Nat, m <= d, d <= n - 1
      PROVE  d \in Money!Days /\ Money!MonthOf(d) = m
  <2>1. d \in Money!Days
    BY <1>1, <1>6, <1>7 DEF Money!Days
  <2> DEFINE k == Money!MonthOf(d)
  <2>2. k \in MonthStarts /\ k <= d /\ m <= k
    BY <1>7, <2>1, MonthOfDay
  <2> HIDE DEF k
  <2>3. k \in Nat
    BY <2>2, LastMonth
  <2>4. ~ (k > m)
    <3>1. SUFFICES ASSUME k > m PROVE FALSE
      OBVIOUS
    <3>2. k \in T
      BY <2>2, <3>1 DEF T
    <3>3. n <= k
      BY <1>4, <3>2
    <3> QED
      BY <1>6, <1>7, <2>2, <2>3, <3>3
  <2>5. k = m
    BY <1>1, <2>2, <2>3, <2>4
  <2> QED
    BY <2>1, <2>5 DEF k
<1> QED
  BY <1>1, <1>5, <1>6, <1>7

LEMMA DueInMonth ==
  ASSUME NEW l \in Money!Leases, NEW m \in MonthStarts \ {Money!End}
  PROVE  /\ Money!DueDay(l, m) \in Nat /\ Money!DueDay(l, m) \in Money!Days
         /\ Money!MonthOf(Money!DueDay(l, m)) = m
<1>1. /\ l.start \in Nat /\ Money!MonthOf(l.start) \in Nat /\ Money!MonthOf(l.start) <= l.start
  BY LeaseFields, MonthOfDay, LastMonth DEF Money!Days
<1>2. m \in Nat /\ Money!MonthEnd(m) \in Nat /\ m <= Money!MonthEnd(m)
  BY DaysOfMonth
<1>3. /\ Money!DueDay(l, m) \in Nat /\ m <= Money!DueDay(l, m)
      /\ Money!DueDay(l, m) <= Money!MonthEnd(m)
  BY <1>1, <1>2 DEF Money!DueDay
<1> QED
  BY <1>3, DaysOfMonth

LEMMA MonthlyIs ==
  ASSUME NEW l \in Money!Leases, NEW a \in Money!Days, NEW b \in Money!Days, a <= b,
         l.last >= a, l.start <= b
  PROVE  Money!MonthlyDues(l, a, b) =
           Cardinality({d \in a .. b : /\ l.start <= d /\ d <= l.last
                                       /\ d = Money!DueDay(l, Money!MonthOf(d))})
<1> DEFINE x == Money!FirstOf(l, a)
           y == Money!LastOf(l, b)
           due(m) == Money!DueDay(l, m)
           R == {d \in a .. b : l.start <= d /\ d <= l.last /\ d = due(Money!MonthOf(d))}
           S == {m \in Money!MonthsOf(x, y) : x <= due(m) /\ due(m) <= y /\ due(m) >= l.start}
           f == [m \in S |-> due(m)]
<1>1. /\ x \in Money!Days /\ y \in Money!Days /\ a \in Nat /\ b \in Nat /\ l.start \in Nat
      /\ \A d \in Int : x <= d <=> a <= d /\ l.start <= d
      /\ \A d \in Int : d <= y <=> d <= b /\ d <= l.last
  BY LeaseWindow, LeaseFields, LastMonth DEF Money!Days
<1>2. \A d \in a .. b : d \in Money!Days /\ d \in Int
  BY LastMonth DEF Money!Days
<1>3. Money!MonthlyDues(l, a, b) = Money!Cardinality(S)
  BY DEF Money!MonthlyDues
<1> HIDE DEF x, y
<1>4. ASSUME NEW m \in S
      PROVE  due(m) \in R /\ Money!MonthOf(due(m)) = m
  <2>1. m \in MonthStarts \ {Money!End} /\ x <= due(m) /\ due(m) <= y
    BY DEF Money!MonthsOf
  <2>2. due(m) \in Int /\ Money!MonthOf(due(m)) = m
    BY <2>1, DueInMonth
  <2> QED
    BY <1>1, <2>1, <2>2
<1>5. ASSUME NEW d \in R PROVE \E m \in S : due(m) = d
  <2>1. /\ d \in Money!Days /\ d \in Int /\ x <= d /\ d <= y /\ d >= l.start
        /\ due(Money!MonthOf(d)) = d
    BY <1>1, <1>2
  <2>2. Money!MonthOf(d) \in Money!MonthsOf(x, y)
    BY <1>1, <2>1, MonthIsListed
  <2> QED
    BY <2>1, <2>2
<1>6. IsFiniteSet(S)
  BY MonthsAreFinite, FS_Subset
<1> HIDE DEF S, R
<1>7. /\ f \in [S -> R]
      /\ \A m, n \in S : f[m] = f[n] => m = n
      /\ \A d \in R : \E m \in S : f[m] = d
  BY <1>4, <1>5
<1> HIDE DEF f
<1>8. Cardinality(R) = Cardinality(S)
  BY <1>6, <1>7, Paired
<1> QED
  BY <1>3, <1>8, SameMoneySizes DEF R

LEMMA ForecastIsRight == MoneyInv => Money!ForecastCountsDueDays
<1> SUFFICES ASSUME MoneyInv, NEW l \in Money!Leases, NEW b \in reportDay .. Money!End - 1
             PROVE  Money!Dues(l, reportDay, b) =
                      Money!Cardinality({d \in reportDay .. b : Money!FallsDue(l, d)})
  BY DEF Money!ForecastCountsDueDays
<1> DEFINE a == reportDay
           R == {d \in a .. b : Money!FallsDue(l, d)}
<1>1. a \in Money!Days /\ b \in Money!Days /\ a <= b /\ a \in Nat /\ b \in Nat
  BY LastMonth DEF MoneyInv, Money!ReportsTypeOK, Money!Days
<1>2. /\ l.start \in Nat /\ l.last \in Nat /\ l.start <= l.last
      /\ l.cycle \in {"weekly", "monthly", "one_time"}
  BY LeaseFields
<1>3. Money!Cardinality(R) = Cardinality(R)
  BY SameMoneySizes
<1> HIDE DEF a
<1>4. CASE l.last < a \/ l.start > b
  <2>1. R = {}
    <3>1. SUFFICES ASSUME NEW d \in R PROVE FALSE
      OBVIOUS
    <3>2. d \in Int /\ a <= d /\ d <= b /\ l.start <= d /\ d <= l.last
      BY <1>1 DEF Money!FallsDue
    <3> QED
      BY <1>1, <1>2, <1>4, <3>2
  <2>2. Money!Dues(l, a, b) = 0
    BY <1>4 DEF Money!Dues
  <2> QED
    BY <1>3, <2>1, <2>2, FS_EmptySet DEF a
<1>5. CASE ~ (l.last < a \/ l.start > b)
  <2>1. l.last >= a /\ l.start <= b
    BY <1>1, <1>2, <1>5
  <2>2. CASE l.cycle = "one_time"
    <3>1. Money!Dues(l, a, b) = IF a <= l.start /\ l.start <= b THEN 1 ELSE 0
      BY <1>5, <2>2 DEF Money!Dues
    <3>2. R = {d \in a .. b : d = l.start}
      <4>1. ASSUME NEW d \in a .. b PROVE Money!FallsDue(l, d) <=> d = l.start
        BY <1>2, <2>2 DEF Money!FallsDue
      <4> QED
        BY <4>1
    <3>3. CASE a <= l.start
      <4>1. R = {l.start}
        BY <1>1, <1>2, <2>1, <3>2, <3>3
      <4> QED
        BY <1>3, <2>1, <3>1, <3>3, <4>1, FS_Singleton DEF a
    <3>4. CASE ~ (a <= l.start)
      <4>1. R = {}
        BY <1>1, <1>2, <3>2, <3>4
      <4> QED
        BY <1>3, <3>1, <3>4, <4>1, FS_EmptySet DEF a
    <3> QED
      BY <3>3, <3>4
  <2>3. CASE l.cycle = "weekly"
    <3>1. Money!Dues(l, a, b) = Money!WeeklyDues(l, a, b)
      BY <1>5, <2>3 DEF Money!Dues
    <3>2. R = {d \in a .. b : l.start <= d /\ d <= l.last /\ (d - l.start) % Week = 0}
      BY <2>3 DEF Money!FallsDue
    <3> HIDE DEF R
    <3>3. Money!WeeklyDues(l, a, b) = Cardinality(R)
      BY <1>1, <2>1, <3>2, WeeklyIs
    <3> QED
      BY <1>3, <3>1, <3>3 DEF a, R
  <2>4. CASE l.cycle = "monthly"
    <3>1. Money!Dues(l, a, b) = Money!MonthlyDues(l, a, b)
      BY <1>5, <2>4 DEF Money!Dues
    <3>2. R = {d \in a .. b : /\ l.start <= d /\ d <= l.last
                              /\ d = Money!DueDay(l, Money!MonthOf(d))}
      BY <2>4 DEF Money!FallsDue
    <3> HIDE DEF R
    <3>3. Money!MonthlyDues(l, a, b) = Cardinality(R)
      BY <1>1, <2>1, <3>2, MonthlyIs
    <3> QED
      BY <1>3, <3>1, <3>3 DEF a, R
  <2> QED
    BY <1>2, <2>2, <2>3, <2>4
<1> QED
  BY <1>4, <1>5 DEF a

-----------------------------------------------------------------------------
(* What is known of the rows of money stays so.                            *)
RowInv(r) ==
  /\ r.status \in {"open", "overdue"} => r.paid = Money!NoDay
  /\ r.status = "paid" => r.paid \in 0 .. reportDay
  /\ r.status = "overdue" => r.due < reportDay

LEMMA OneRowMoves ==
  ASSUME MoneyInv, NEW i \in Invoices, NEW r \in Money!InvoiceRows, RowInv(r),
         inv' = [inv EXCEPT ![i] = r], UNCHANGED <<spent, reportDay>>
  PROVE  MoneyInv'
<1>1. Money!ReportsTypeOK'
  BY InvoicesKeep DEF MoneyInv
<1>2. \A j \in Invoices : inv'[j] = IF j = i THEN r ELSE inv[j]
  BY DEF MoneyInv, Money!ReportsTypeOK
<1> QED
  BY <1>1, <1>2 DEF MoneyInv, RowInv, Money!NoDay, Money!End

LEMMA MoneyBegins == Money!Init => MoneyInv
<1> SUFFICES ASSUME Money!Init PROVE MoneyInv
  OBVIOUS
<1>1. Money!ReportsTypeOK
  BY LastMonth DEF Money!Init, Money!ReportsTypeOK
<1>2. \A i \in Invoices : inv[i].status = "none"
  BY DEF Money!Init, Money!NoInvoice
<1>3. IsFiniteSet(spent)
  BY FS_EmptySet DEF Money!Init
<1> QED
  BY <1>1, <1>2, <1>3 DEF MoneyInv

LEMMA MoneyStays ==
  ASSUME MoneyInv, Money!Next \/ UNCHANGED moneyVars
  PROVE  MoneyInv'
<1>1. Money!ReportsTypeOK'
  BY MoneyStep DEF MoneyInv
<1>2. CASE UNCHANGED moneyVars
  BY <1>1, <1>2 DEF moneyVars, MoneyInv, Money!NoDay, Money!End
<1>3. ASSUME NEW i \in Invoices, NEW r \in Money!InvoiceRows, Money!Issue(i, r)
      PROVE  MoneyInv'
  BY <1>3, OneRowMoves DEF Money!Issue, RowInv
<1>4. ASSUME NEW i \in Invoices, NEW m \in Money!Methods, Money!Pay(i, m)
      PROVE  MoneyInv'
  <2> DEFINE r == [inv[i] EXCEPT !.status = "paid", !.paid = reportDay, !.method = m]
  <2>1. inv[i].status # "none" /\ UNCHANGED <<spent, reportDay>>
        /\ inv' = [inv EXCEPT ![i] = r]
    BY <1>4 DEF Money!Pay
  <2>2. inv[i] \in Money!InvoiceRows /\ reportDay \in Money!Days
    BY <2>1, InvoiceFields DEF MoneyInv, Money!ReportsTypeOK
  <2>3. r \in Money!InvoiceRows /\ r.status = "paid" /\ r.paid = reportDay
    BY <2>2 DEF Money!InvoiceRows
  <2>4. reportDay \in 0 .. reportDay
    BY <2>2, LastMonth DEF Money!Days
  <2> HIDE DEF r
  <2> QED
    BY <2>1, <2>3, <2>4, OneRowMoves DEF RowInv
<1>5. ASSUME NEW i \in Invoices, Money!Cancel(i) PROVE MoneyInv'
  <2> DEFINE r == [inv[i] EXCEPT !.status = "cancelled"]
  <2>1. inv[i].status # "none" /\ UNCHANGED <<spent, reportDay>>
        /\ inv' = [inv EXCEPT ![i] = r]
    BY <1>5 DEF Money!Cancel
  <2>2. inv[i] \in Money!InvoiceRows
    BY <2>1, InvoiceFields DEF MoneyInv
  <2>3. r \in Money!InvoiceRows /\ r.status = "cancelled"
    BY <2>2 DEF Money!InvoiceRows
  <2> HIDE DEF r
  <2> QED
    BY <2>1, <2>3, OneRowMoves DEF RowInv
<1>6. ASSUME NEW i \in Invoices, Money!MarkOverdue(i) PROVE MoneyInv'
  <2> DEFINE r == [inv[i] EXCEPT !.status = "overdue"]
  <2>1. /\ inv[i].status = "open" /\ inv[i].due < reportDay
        /\ UNCHANGED <<spent, reportDay>> /\ inv' = [inv EXCEPT ![i] = r]
    BY <1>6 DEF Money!MarkOverdue
  <2>2. inv[i] \in Money!InvoiceRows /\ inv[i].paid = Money!NoDay
    BY <2>1, InvoiceFields DEF MoneyInv
  <2>3. /\ r \in Money!InvoiceRows /\ r.status = "overdue"
        /\ r.due = inv[i].due /\ r.paid = Money!NoDay
    BY <2>2 DEF Money!InvoiceRows
  <2> HIDE DEF r
  <2> QED
    BY <2>1, <2>3, OneRowMoves DEF RowInv
<1>7. ASSUME NEW e \in Money!Expenses, Money!Spend(e) PROVE MoneyInv'
  <2>1. spent' = spent \cup {e} /\ UNCHANGED <<inv, reportDay>>
    BY <1>7 DEF Money!Spend
  <2>2. IsFiniteSet(spent')
    BY <2>1, FS_AddElement DEF MoneyInv
  <2> QED
    BY <1>1, <2>1, <2>2 DEF MoneyInv, Money!NoDay, Money!End
<1>8. ASSUME Money!NextDay PROVE MoneyInv'
  <2>1. reportDay' = reportDay + 1 /\ UNCHANGED <<inv, spent>> /\ reportDay \in Nat
    BY <1>8, LastMonth DEF Money!NextDay, MoneyInv, Money!ReportsTypeOK, Money!Days
  <2>2. ASSUME NEW i \in Invoices, inv[i].status = "overdue", inv[i].due < reportDay
        PROVE  inv[i].due < reportDay'
    <3>1. inv[i].due \in Nat
      BY <2>2, InvoiceFields, LastMonth DEF MoneyInv, Money!Days
    <3> QED
      BY <2>1, <2>2, <3>1
  <2>3. \A d \in 0 .. reportDay : d \in 0 .. reportDay'
    BY <2>1
  <2> QED
    BY <1>1, <2>1, <2>2, <2>3 DEF MoneyInv, Money!NoDay, Money!End
<1> QED
  BY <1>2, <1>3, <1>4, <1>5, <1>6, <1>7, <1>8 DEF Money!Next

LEMMA BooksAreRight == MoneyInv => BooksBalance
  BY ReportsBalanced, PlacesAreOne, DashboardIsRight, AgingIsRight, ForecastIsRight
     DEF BooksBalance

-----------------------------------------------------------------------------
(* The parts together.                                                     *)
allVars ==
  <<part, vars, viewVars, moneyVars, listVars, galVars, manVars, setVars>>

PlatformStep == [PlatformNext]_allVars

(* Each part makes a step of its own or none.                              *)
LEMMA StepOfAPart ==
  PlatformStep => /\ [Next]_vars
                  /\ Views!Next \/ UNCHANGED viewVars
                  /\ Money!Next \/ UNCHANGED moneyVars
                  /\ Pages!Next \/ UNCHANGED listVars
                  /\ Gal!Next \/ UNCHANGED galVars
                  /\ Man!Next \/ UNCHANGED manVars
                  /\ Set!Next \/ UNCHANGED setVars
  BY DEF PlatformStep, allVars, PlatformNext

LEMMA PartsBegin ==
  PlatformInit => /\ Init /\ Views!Init /\ Money!Init /\ Pages!Init
                  /\ Gal!Init /\ Man!Init /\ Set!Init
  BY DEF PlatformInit

AllInv ==
  /\ FileInv /\ ViewInv /\ MoneyInv /\ ListInv /\ GalInv /\ ManInv /\ SetInv

LEMMA AllInit == PlatformInit => AllInv
<1>1. Init => FileInv
  BY Assumptions, InitFiles
<1> QED
  BY <1>1, MoneyBegins, PartsBegin, ViewInit, ListInit, GalInit, ManInit, SetInit DEF AllInv

LEMMA AllStep == AllInv /\ PlatformStep => AllInv'
<1> SUFFICES ASSUME AllInv, PlatformStep PROVE AllInv'
  OBVIOUS
<1>1. FileInv'
  <2>1. FileInv /\ BackupsAssumption /\ [Next]_vars
    BY StepOfAPart, Assumptions DEF AllInv
  <2> QED
    BY <2>1, FileStep
<1>2. ViewInv' /\ MoneyInv' /\ ListInv'
  BY StepOfAPart, ViewStep, MoneyStays, ListStep DEF AllInv
<1>3. GalInv' /\ ManInv' /\ SetInv'
  BY StepOfAPart, GalStep, ManStep, SetStep DEF AllInv
<1> QED
  BY <1>1, <1>2, <1>3 DEF AllInv

LEMMA AllTyped == AllInv => PlatformTypeOK
<1> SUFFICES ASSUME AllInv PROVE PlatformTypeOK
  OBVIOUS
<1>1. BackupsTypeOK /\ Views!ViewsTypeOK /\ Money!ReportsTypeOK
  BY DEF AllInv, FileInv, ViewInv, MoneyInv
<1>2. Pages!ListsTypeOK
  BY ListsAreTyped DEF AllInv
<1>3. Gal!GalleryTypeOK /\ Man!PeopleTypeOK /\ Set!SettingsTypeOK
  BY DEF AllInv, GalInv, GalTypes, ManInv, SetInv
<1> QED
  BY <1>1, <1>2, <1>3 DEF PlatformTypeOK

(* Every variable of the seven parts keeps its type, whoever overlaps or   *)
(* stops: backups, stays, invoices, lists, galleries, people and settings. *)
THEOREM PlatformIsTyped == PlatformSpec => []PlatformTypeOK
  BY AllInit, AllStep, AllTyped, PTL DEF PlatformSpec, PlatformStep, allVars

(* The list of the units, the overview, the dashboard's counts, the week,  *)
(* the trend and the report tell one calendar, and in no window of the     *)
(* matrix a taken night shows as free: for any number of units and stays,  *)
(* any days and any bookings and cancellations                             *)
(* (list_units_with_availability_status, availability_matrix,              *)
(* occupancy_report, dashboard_summary).                                   *)
THEOREM OneCalendarIsTold == PlatformSpec => []CalendarIsTold
<1>1. AllInv => CalendarIsTold
  BY ViewsAgreed, TakenIsTold DEF AllInv, CalendarIsTold
<1> QED
  BY AllInit, AllStep, <1>1, PTL DEF PlatformSpec, PlatformStep, allVars

(* The money adds up for any invoices, expenses and leases, in any period: *)
(* the cash flow, the income by kind, place and method and the pages of    *)
(* the properties tell one sum; so do the breakdown and the income of one  *)
(* property and the dashboard; the profit never shows more, and the same   *)
(* where the invoices of a property are all of its leases or all of its    *)
(* stays; what is late is in one bucket; and the forecast counts the days  *)
(* on which rent falls due (cash_flow_report, get_dashboard_stats,         *)
(* compute_profitability_by_property, compute_aging_receivables,           *)
(* _lease_forecast_amount).                                                *)
THEOREM BooksAlwaysBalance == PlatformSpec => []BooksBalance
<1>1. AllInv => BooksBalance
  BY BooksAreRight DEF AllInv
<1> QED
  BY AllInit, AllStep, <1>1, PTL DEF PlatformSpec, PlatformStep, allVars

(* Turning the pages of a list, exporting it and searching miss no row,    *)
(* for any size of a page, of a file and of a result, in each of the       *)
(* orders, however many rows are added meanwhile (the queries with offset  *)
(* and limit, resource_export, search_all_resources, api_search).          *)
THEOREM NoRowIsMissed == PlatformSpec => []PagesMissNothing
<1>1. AllInv => PagesMissNothing
  BY ListsAreWhole, ExportsAreWhole, SearchesShowAll DEF AllInv, PagesMissNothing
<1> QED
  BY AllInit, AllStep, <1>1, PTL DEF PlatformSpec, PlatformStep, allVars

(* Records stay whole: pictures have their files, however many workers     *)
(* upload, delete and stop at once; labels and comments stay within their  *)
(* organization; and a form that is sent as it was shown keeps the value   *)
(* of a setting, but for a secret JSON string (images.py, _resolve_target, *)
(* settings_edit).                                                         *)
THEOREM RecordsStayWhole == PlatformSpec => []RecordsAreKept
<1>1. AllInv => RecordsAreKept
  BY DEF AllInv, GalInv, ManInv, SetInv, RecordsAreKept
<1> QED
  BY AllInit, AllStep, <1>1, PTL DEF PlatformSpec, PlatformStep, allVars
=============================================================================
