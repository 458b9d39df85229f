------------------------------- MODULE People -------------------------------
(* Users, guests and what is written about them: users/services.py,        *)
(* guests/services.py, tags/services.py, comments/services.py,             *)
(* notifications/services.py, gdpr/services.py, with their pages.          *)
(*                                                                         *)
(* Users and guests are numbered by a sequence each.  Making a user also   *)
(* makes a guest with the user's number, unless that number is taken, and  *)
(* without the sequence of the guests being asked.                         *)
(*                                                                         *)
(* Left out: names apart from the person they are of, passwords, colours   *)
(* and texts; the audit rows.  Guests stand for what can be labelled and   *)
(* commented on (guests, reservations, properties), whose organization     *)
(* never changes.                                                          *)
EXTENDS Naturals, FiniteSets

CONSTANTS
  Persons,     \* people, each with an e-mail address of their own
  Orgs,        \* organizations
  MaxUsers,    \* bound on the numbers of users
  MaxGuests,   \* bound on the numbers of guests
  MaxRows      \* bound on the rows written about them at a time

PeopleAssumption == MaxUsers \in Nat /\ MaxGuests \in Nat /\ MaxRows \in Nat

VARIABLES
  users, guests,         \* the rows, by number
  nextUser, nextGuest,   \* the sequences
  links,                 \* tags attached: the tag's organization and a guest
  comments,              \* comments on guests
  notices,               \* notifications of users about a mention
  made,                  \* leases, invoices and requests: who made them
  erasing                \* deletions of users that have done their first commit

vars == <<users, guests, nextUser, nextGuest, links, comments, notices, made,
          erasing>>
written == <<links, comments, notices, made>>

Ids == 1 .. (MaxUsers + MaxGuests)
Nobody == "Anonyymi"
NoRow == [org |-> "none"]
Has(table, i) == table[i] # NoRow

(* shadow: the guest was made with the user of that number.                *)
UserRow == [org : Orgs, person : Persons \cup {Nobody}, active : BOOLEAN]
GuestRow == [org : Orgs, person : Persons \cup {Nobody}, shadow : BOOLEAN]
Comment == [by : Ids, org : Orgs, about : Ids, edited : BOOLEAN]
Notice == [to : Ids, org : Orgs, read : BOOLEAN]

Room == Cardinality(links) + Cardinality(comments) + Cardinality(made) < MaxRows

Init ==
  /\ users = [i \in Ids |-> NoRow] /\ guests = [i \in Ids |-> NoRow]
  /\ nextUser = 1 /\ nextGuest = 1
  /\ links = {} /\ comments = {} /\ notices = {} /\ made = {} /\ erasing = {}

-----------------------------------------------------------------------------
(* create_user; _ensure_shadow_guest_profile.                              *)
CreateUser(p, o) ==
  /\ nextUser <= MaxUsers
  /\ \A i \in Ids : Has(users, i) => users[i].person # p
  /\ users' = [users EXCEPT ![nextUser] = [org |-> o, person |-> p, active |-> TRUE]]
  /\ guests' = IF Has(guests, nextUser) THEN guests
               ELSE [guests EXCEPT ![nextUser] = [org |-> o, person |-> p, shadow |-> TRUE]]
  /\ nextUser' = nextUser + 1
  /\ UNCHANGED <<nextGuest, written, erasing>>

(* users_edit: the user may move to another organization; what is not      *)
(* asked for stays.  users_toggle_active.                                  *)
EditUser(u, o, active) ==
  /\ Has(users, u)
  /\ users' = [users EXCEPT ![u].org = o, ![u].active = active]
  /\ UNCHANGED <<guests, nextUser, nextGuest, written, erasing>>

(* _assert_unique_email.                                                   *)
EmailFree(p, o, g) ==
  \A i \in Ids \ {g} : Has(guests, i) /\ guests[i].org = o => guests[i].person # p

(* create_guest: a number that is taken makes the insert fail; the         *)
(* sequence has moved on.                                                  *)
CreateGuest(p, o) ==
  /\ nextGuest <= MaxGuests /\ EmailFree(p, o, 0)
  /\ guests' = IF Has(guests, nextGuest) THEN guests
               ELSE [guests EXCEPT ![nextGuest] = [org |-> o, person |-> p, shadow |-> FALSE]]
  /\ nextGuest' = nextGuest + 1
  /\ UNCHANGED <<users, nextUser, written, erasing>>

UpdateGuest(g, p, o) ==
  /\ Has(guests, g) /\ guests[g].org = o /\ EmailFree(p, o, g)
  /\ guests' = [guests EXCEPT ![g].person = p]
  /\ UNCHANGED <<users, nextUser, nextGuest, written, erasing>>

-----------------------------------------------------------------------------
(* _resolve_target.                                                        *)
InOrganization(g, o) == Has(guests, g) /\ guests[g].org = o

(* A user, or a key, of organization o.                                    *)
Works(u, o) == Has(users, u) /\ users[u].active /\ users[u].org = o

(* TagService.attach and detach, of the tag of organization o.             *)
Attach(o, g) ==
  /\ InOrganization(g, o) /\ (Room \/ <<o, g>> \in links)
  /\ links' = links \cup {<<o, g>>}
  /\ UNCHANGED <<users, guests, nextUser, nextGuest, comments, notices, made, erasing>>

Detach(o, g) ==
  /\ InOrganization(g, o) /\ <<o, g>> \in links
  /\ links' = links \ {<<o, g>>}
  /\ UNCHANGED <<users, guests, nextUser, nextGuest, comments, notices, made, erasing>>

(* CommentService.create: those of the organization that the text mentions *)
(* are told, but for the author.  Here a comment mentions one at most.     *)
Say(u, o, g, mentioned) ==
  /\ Works(u, o) /\ InOrganization(g, o) /\ Room /\ notices = {}
  /\ comments' = comments \cup
       {[by |-> u, org |-> o, about |-> g, edited |-> FALSE]}
  /\ notices' = notices \cup {[to |-> v, org |-> o, read |-> FALSE] :
       v \in {w \in mentioned \ {u} : Has(users, w) /\ users[w].org = o}}
  /\ UNCHANGED <<users, guests, nextUser, nextGuest, links, made, erasing>>

(* CommentService.edit, by the author, for fifteen minutes, which may or   *)
(* may not have passed.                                                    *)
EditComment(u, c) ==
  /\ Has(users, u) /\ c.by = u
  /\ comments' = (comments \ {c}) \cup {[c EXCEPT !.edited = TRUE]}
  /\ UNCHANGED <<users, guests, nextUser, nextGuest, links, notices, made, erasing>>

(* CommentService.delete, by an administrator of the organization.         *)
DeleteComment(u, c) ==
  /\ Has(users, u) /\ users[u].org = c.org
  /\ comments' = comments \ {c}
  /\ UNCHANGED <<users, guests, nextUser, nextGuest, links, notices, made, erasing>>

(* mark_read, mark_all_read; prune_old.                                    *)
ReadNotices(u, some) ==
  /\ some # {} /\ \A n \in some : n.to = u /\ ~n.read
  /\ notices' = (notices \ some) \cup {[n EXCEPT !.read = TRUE] : n \in some}
  /\ UNCHANGED <<users, guests, nextUser, nextGuest, links, comments, made, erasing>>

PruneNotices(old) ==
  /\ old # {} /\ notices' = notices \ old
  /\ UNCHANGED <<users, guests, nextUser, nextGuest, links, comments, made, erasing>>

(* A user makes a lease, an invoice or a maintenance request.              *)
Make(u, o) ==
  /\ Works(u, o) /\ Room
  /\ made' = made \cup {[by |-> u, org |-> o]}
  /\ UNCHANGED <<users, guests, nextUser, nextGuest, links, comments, notices, erasing>>

-----------------------------------------------------------------------------
(* anonymize_user_data: the user, and whatever guest has the user's number.*)
Blank(u) ==
  /\ users' = [users EXCEPT ![u].person = Nobody, ![u].active = FALSE]
  /\ guests' = IF Has(guests, u) THEN [guests EXCEPT ![u].person = Nobody] ELSE guests

Anonymize(u) ==
  /\ Has(users, u) /\ Blank(u)
  /\ UNCHANGED <<nextUser, nextGuest, written, erasing>>

(* delete_user_data: the user is anonymised, which commits.                *)
Delete(u) ==
  /\ Has(users, u) /\ erasing = {} /\ Blank(u)
  /\ erasing' = {[user |-> u, org |-> users[u].org]}
  /\ UNCHANGED <<nextUser, nextGuest, written>>

(* Then what the user made goes to the colleague with the lowest number.   *)
(* No colleague, or a row that names the user under a constraint that      *)
(* nothing resolves (comments.author_user_id, notifications.user_id): the  *)
(* commit is refused and the user stays, anonymous.                        *)
Colleagues(e) == {v \in Ids \ {e.user} : Has(users, v) /\ users[v].org = e.org}
Heir(e) == CHOOSE v \in Colleagues(e) : \A w \in Colleagues(e) : v <= w
Named(u) == (\E c \in comments : c.by = u) \/ (\E n \in notices : n.to = u)

Remove(e) ==
  /\ Colleagues(e) # {} /\ ~Named(e.user) /\ Has(users, e.user)
  /\ made' = {IF x.by = e.user THEN [x EXCEPT !.by = Heir(e)] ELSE x : x \in made}
  /\ users' = [users EXCEPT ![e.user] = NoRow]
  /\ erasing' = erasing \ {e}
  /\ UNCHANGED <<guests, nextUser, nextGuest, links, comments, notices>>

Refuse(e) ==
  /\ Colleagues(e) = {} \/ Named(e.user)
  /\ erasing' = erasing \ {e}
  /\ UNCHANGED <<users, guests, nextUser, nextGuest, written>>

-----------------------------------------------------------------------------
UserPages ==
  \/ \E p \in Persons, o \in Orgs : CreateUser(p, o)
  \/ \E u \in Ids, o \in Orgs, b \in BOOLEAN : EditUser(u, o, b)
NewGuestPage == \E p \in Persons, o \in Orgs : CreateGuest(p, o)
EditGuestPage == \E p \in Persons, o \in Orgs, g \in Ids : UpdateGuest(g, p, o)
TagPages == \E o \in Orgs, g \in Ids : Attach(o, g) \/ Detach(o, g)
TagApi   == TagPages
CommentPages ==
  \/ \E u \in Ids, o \in Orgs, g \in Ids : \E v \in {{}} \cup {{i} : i \in Ids} : Say(u, o, g, v)
  \/ \E u \in Ids, c \in comments : EditComment(u, c) \/ DeleteComment(u, c)
CommentApi == CommentPages
NoticePages ==
  \E some \in SUBSET notices : PruneNotices(some) \/ \E u \in Ids : ReadNotices(u, some)
GdprPage == \E u \in Ids : Anonymize(u) \/ Delete(u)
Erasure == \E e \in erasing : Remove(e) \/ Refuse(e)
OtherPages == \E u \in Ids, o \in Orgs : Make(u, o)

Next ==
  \/ UserPages \/ NewGuestPage \/ EditGuestPage \/ TagPages \/ TagApi
  \/ CommentPages \/ CommentApi \/ NoticePages \/ GdprPage \/ Erasure \/ OtherPages

Spec == Init /\ [][Next]_vars

-----------------------------------------------------------------------------
PeopleTypeOK ==
  /\ users \in [Ids -> UserRow \cup {NoRow}]
  /\ guests \in [Ids -> GuestRow \cup {NoRow}]
  /\ nextUser \in 1 .. MaxUsers + 1 /\ nextGuest \in 1 .. MaxGuests + 1
  /\ links \subseteq Orgs \X Ids /\ comments \subseteq Comment
  /\ notices \subseteq Notice /\ made \subseteq [by : Ids, org : Orgs]
  /\ erasing \subseteq [user : Ids, org : Orgs]

(* A tag and what it is attached to, a comment and what it is about, are   *)
(* of one organization, whatever moves, is erased or is edited between     *)
(* (_resolve_target and the lookup of the tag, tags/services.py 76-110,    *)
(* comments/services.py 27-45).                                            *)
RecordsStayAtHome ==
  /\ \A l \in links : Has(guests, l[2]) /\ guests[l[2]].org = l[1]
  /\ \A c \in comments : Has(guests, c.about) /\ guests[c.about].org = c.org

(* Erasing a user changes the profile of that user only                    *)
(* (_sync_shadow_guest_anonymized).  A guest who took the number before    *)
(* the user was made loses theirs.                                         *)
ErasureIsItsOwn ==
  [][\A u \in Ids : Anonymize(u) /\ Has(guests, u) => guests[u].shadow]_vars
=============================================================================
