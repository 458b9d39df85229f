------------------------------- MODULE SignIn -------------------------------
(***************************************************************************)
(* What lets someone in once: the link that resets a password, the link    *)
(* into the guest portal, the six digits that are mailed as a second       *)
(* factor and the backup codes, in app/auth/services.py, app/auth/routes.py*)
(* and app/portal/services.py.                                             *)
(*                                                                         *)
(* A request looks a token up and commits its use in two steps; between    *)
(* them the command cleanup-expired-tokens, a process of its own, may      *)
(* delete the row, and another worker may look the same token up.  Times   *)
(* are ages in ticks.  The record for the audit log is part of the         *)
(* transaction that uses the token; if it cannot be written, record()      *)
(* rolls that transaction back and the request goes on.                    *)
(*                                                                         *)
(* Left out: the passwords (Lockout), the codes of an authenticator app,   *)
(* which no table holds, the mails themselves, a mailed code with the same *)
(* digits as one that is still on record, whose insert fails, and          *)
(* superadmins who act as another user.                                    *)
(***************************************************************************)
EXTENDS Integers, Sequences, FiniteSets, FiniteSetsExt

CONSTANTS
  Guests, Admins,   \* users of the portal, superadmins
  Workers,
  Life,             \* ticks that a token of each kind is good for
  Codes,            \* backup codes in a set (10)
  MaxLinks,         \* bound: links and mailed codes that are ever made
  MaxSets,          \* bound: sets of backup codes that are ever made
  MaxLost           \* bound: transactions that are rolled back

Users == Guests \cup Admins
LinkKinds == {"reset", "magic", "mail"}

SignInAssumption ==
  /\ Guests \cap Admins = {}
  /\ Life \in [LinkKinds -> Nat \ {0}] /\ Codes \in Nat \ {0}
  /\ MaxLinks \in Nat /\ MaxSets \in Nat /\ MaxLost \in Nat

VARIABLES
  token,    \* the tokens, in the order they were made
  taken,    \* how often each has let someone in
  lost,     \* and how often the transaction that said so was rolled back
  active,   \* User.is_active
  enabled,  \* User.is_2fa_enabled
  session,  \* how far each user's browser is logged in
  clerk       \* what each worker is doing

vars == <<token, taken, lost, active, enabled, session, clerk>>

Made == 1 .. Len(token)
MaxTokens == MaxLinks + Codes * MaxSets
Free == [at |-> "free"]

Late(kind) == IF kind = "backup" THEN 0 ELSE Life[kind] + 1

Token == [kind : LinkKinds \cup {"backup"}, user : Users, age : Nat,
          used : BOOLEAN, there : BOOLEAN]

SignInTypeOK ==
  /\ token \in Seq(Token) /\ Len(token) <= MaxTokens
  /\ \A t \in Made : token[t].age <= Late(token[t].kind)
  /\ taken \in [1 .. MaxTokens -> Nat] /\ lost \in [1 .. MaxTokens -> 0 .. 1]
  /\ active \in [Users -> BOOLEAN] /\ enabled \in [Admins -> BOOLEAN]
  /\ session \in [Users -> {"out", "half", "in"}]
  /\ \A w \in Workers : clerk[w] # Free =>
       clerk[w].at \in {"found", "enter"} /\ clerk[w].token \in Made

Init ==
  /\ token = <<>> /\ taken = [t \in 1 .. MaxTokens |-> 0] /\ lost = taken
  /\ active = [u \in Users |-> TRUE] /\ enabled = [u \in Admins |-> FALSE]
  /\ session = [u \in Users |-> "out"] /\ clerk = [w \in Workers |-> Free]

-----------------------------------------------------------------------------
(* Making tokens.                                                          *)
New(kind, u) ==
  [kind |-> kind, user |-> u, age |-> 0, used |-> FALSE, there |-> TRUE]

Room == Cardinality({t \in Made : token[t].kind # "backup"}) < MaxLinks
RoomForSet == Cardinality({t \in Made : token[t].kind = "backup"}) < Codes * MaxSets

RequestReset(u) ==
  /\ active[u] /\ Room
  /\ token' = Append(token, New("reset", u))
  /\ UNCHANGED <<taken, lost, active, enabled, session, clerk>>

(* issue_magic_link: for users of the portal.                              *)
RequestMagic(u) ==
  /\ active[u] /\ Room
  /\ token' = Append(token, New("magic", u))
  /\ UNCHANGED <<taken, lost, active, enabled, session, clerk>>

(* send_email_2fa_code: sending the mail commits the row.                  *)
SendCode(u) ==
  /\ enabled[u] /\ session[u] # "out" /\ Room
  /\ token' = Append(token, New("mail", u))
  /\ UNCHANGED <<taken, lost, active, enabled, session, clerk>>

IsBackupOf(t, u) == token[t].kind = "backup" /\ token[t].user = u

(* generate_backup_codes: a new set in place of the old one.               *)
NewCodes(u) ==
  /\ RoomForSet
  /\ token' = [t \in Made |-> [token[t] EXCEPT !.there = @ /\ ~IsBackupOf(t, u)]]
                \o [n \in 1 .. Codes |-> New("backup", u)]

(* complete_superadmin_two_factor_setup.                                   *)
SetUp(u) ==
  /\ session[u] # "out" /\ NewCodes(u)
  /\ enabled' = [enabled EXCEPT ![u] = TRUE]
  /\ session' = [session EXCEPT ![u] = "half"]
  /\ UNCHANGED <<taken, lost, active, clerk>>

(* regenerate_superadmin_backup_codes.                                     *)
Regenerate(u) ==
  /\ session[u] # "out" /\ NewCodes(u)
  /\ UNCHANGED <<taken, lost, active, enabled, session, clerk>>

-----------------------------------------------------------------------------
(* find_active_by_raw, consume_active_code, consume_backup_code.           *)
Usable(t) ==
  /\ token[t].there /\ ~token[t].used
  /\ token[t].kind # "backup" => token[t].age <= Life[token[t].kind]

Lookup(t) ==
  LET u == token[t].user IN
  CASE token[t].kind = "reset" -> TRUE
    [] token[t].kind = "magic" -> active[u]
    [] OTHER -> enabled[u] /\ session[u] # "out"

Find(w, t) ==
  /\ clerk[w] = Free /\ Usable(t) /\ Lookup(t)
  /\ clerk' = [clerk EXCEPT ![w] =
       [at |-> "found", token |-> t,
        codes |-> {c \in Made : IsBackupOf(c, token[t].user) /\ token[c].there}]]
  /\ UNCHANGED <<token, taken, lost, active, enabled, session>>

(* Seeded fault: a mailed code is not marked.                              *)
SpendLinksOnly(r) ==
  [t \in Made |->
     IF IsBackupOf(t, token[r.token].user) /\ token[r.token].kind = "backup"
     THEN [token[t] EXCEPT !.there = t \in r.codes \ {r.token}]
     ELSE [token[t] EXCEPT !.used = @ \/ (t = r.token /\ token[t].kind # "mail")]]

(* The rows once the use is committed: used_at, or the list of codes that  *)
(* were there when it was read but for this one.                           *)
Spend(r) ==
  [t \in Made |->
     IF IsBackupOf(t, token[r.token].user) /\ token[r.token].kind = "backup"
     THEN [token[t] EXCEPT !.there = t \in r.codes \ {r.token}]
     ELSE [token[t] EXCEPT !.used = @ \/ t = r.token]]

(* A second factor finishes the login, or shows one of the settings to who *)
(* is logged in already; a reset changes the password and logs nobody in.  *)
LetIn(w, t) ==
  /\ taken' = [taken EXCEPT ![t] = @ + 1]
  /\ IF token[t].kind \in {"mail", "backup"}
     THEN session' = [session EXCEPT ![token[t].user] = "in"]
     ELSE UNCHANGED session
  /\ IF token[t].kind = "magic"
     THEN clerk' = [clerk EXCEPT ![w].at = "enter"]
     ELSE clerk' = [clerk EXCEPT ![w] = Free]

Commit(w) ==
  /\ clerk[w].at = "found"
  /\ token[clerk[w].token].kind # "backup" => token[clerk[w].token].there
  /\ token' = Spend(clerk[w]) /\ LetIn(w, clerk[w].token)
  /\ UNCHANGED <<lost, active, enabled>>

(* The audit record fails: what was to be committed is rolled back, and    *)
(* the request ends as if it were not.  A magic link is committed before.  *)
CommitUnrecorded(w) ==
  /\ clerk[w].at = "found"
  /\ LET t == clerk[w].token IN
       /\ token[t].kind # "magic" /\ Cardinality({i \in Made : lost[i] > 0}) < MaxLost
       /\ lost[t] = 0
       /\ lost' = [lost EXCEPT ![t] = 1] /\ LetIn(w, t)
  /\ UNCHANGED <<token, active, enabled>>

(* magic_link_login: the session, after the link was marked.               *)
Enter(w) ==
  /\ clerk[w].at = "enter"
  /\ session' = [session EXCEPT ![token[clerk[w].token].user] = "in"]
  /\ clerk' = [clerk EXCEPT ![w] = Free]
  /\ UNCHANGED <<token, taken, lost, active, enabled>>

(* The worker stops, the database fails, or the row is not there any more. *)
Fail(w) ==
  /\ clerk[w] # Free /\ clerk' = [clerk EXCEPT ![w] = Free]
  /\ UNCHANGED <<token, taken, lost, active, enabled, session>>

-----------------------------------------------------------------------------
(* cleanup_expired_tokens.                                                 *)
Cleanup ==
  /\ token' = [t \in Made |->
       [token[t] EXCEPT !.there =
          @ /\ (token[t].kind = "backup" \/ token[t].age <= Life[token[t].kind])]]
  /\ token' # token
  /\ UNCHANGED <<taken, lost, active, enabled, session, clerk>>

(* The login pages of the application and of the portal, with a password.  *)
Login(u) ==
  /\ active[u]
  /\ session' = [session EXCEPT ![u] = IF u \in Admins THEN "half" ELSE "in"]
  /\ UNCHANGED <<token, taken, lost, active, enabled, clerk>>

Logout(u) ==
  /\ session[u] # "out" /\ session' = [session EXCEPT ![u] = "out"]
  /\ UNCHANGED <<token, taken, lost, active, enabled, clerk>>

(* deactivate_user, reactivate_user.                                       *)
SetActive(u, a) ==
  /\ active' = [active EXCEPT ![u] = a]
  /\ UNCHANGED <<token, taken, lost, enabled, session, clerk>>

Tick ==
  /\ token' = [t \in Made |-> [token[t] EXCEPT !.age =
                 IF @ < Late(token[t].kind) THEN @ + 1 ELSE @]]
  /\ token' # token
  /\ UNCHANGED <<taken, lost, active, enabled, session, clerk>>

(* Requests that take one step are served by a worker that is free.        *)
Pages(u) ==
  \/ RequestReset(u) \/ Login(u) \/ Logout(u)
  \/ \E a \in BOOLEAN : SetActive(u, a)

AdminPages(u) == SendCode(u) \/ SetUp(u) \/ Regenerate(u)

Next ==
  \/ \E w \in Workers :
       \/ \E t \in Made : Find(w, t)
       \/ Commit(w) \/ CommitUnrecorded(w) \/ Enter(w) \/ Fail(w)
       \/ /\ clerk[w] = Free
          /\ \/ \E u \in Users : Pages(u)
             \/ \E u \in Guests : RequestMagic(u)
             \/ \E u \in Admins : AdminPages(u)
  \/ Cleanup \/ Tick

Spec == Init /\ [][Next]_vars

-----------------------------------------------------------------------------
(* With one worker a token lets one in once, and again only after its use  *)
(* was rolled back with the audit record (verify_superadmin_two_factor_-   *)
(* code, complete_password_reset_after_validation, authenticate_by_-       *)
(* magic_link).                                                            *)
SpentOnce == \A t \in Made : taken[t] <= 1 + lost[t]

(* Until it is spent, replaced or too old, a token stays good, whatever is *)
(* cleaned up, set up and used meanwhile; and never again afterwards.      *)
Newest(u) ==
  LET all == {t \in Made : IsBackupOf(t, u)} IN
  {t \in all : Cardinality({c \in all : c > t}) < Codes}

ServesUntilSpent ==
  \A t \in Made :
    Usable(t) <=>
      /\ taken[t] = lost[t]
      /\ IF token[t].kind = "backup" THEN t \in Newest(token[t].user)
         ELSE token[t].age <= Life[token[t].kind]
=============================================================================
