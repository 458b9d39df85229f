------------------------------ MODULE Lockout ------------------------------
(***************************************************************************)
(* Wrong passwords for one e-mail address: authenticate_user of            *)
(* app/auth/services.py behind the login page of app/auth/routes.py.       *)
(*                                                                         *)
(* A login reads how many failures the last 15 minutes hold, checks the    *)
(* password, and commits the attempt; a success then deletes the failures  *)
(* in another commit.  Several workers may serve the page at once.  A tick *)
(* is a part of the 15 minutes.                                            *)
(*                                                                         *)
(* Left out: the rate limit per address, which comes before, the session,  *)
(* and an unknown or inactive user, whose attempts are recorded like those *)
(* with a wrong password.                                                  *)
(***************************************************************************)
EXTENDS Integers, FiniteSets

CONSTANTS
  Workers,
  MaxAttempts,  \* MAX_LOGIN_ATTEMPTS
  Window,       \* the ticks of 15 minutes
  MaxRecords    \* bound: failures on record within the window

LockoutAssumption ==
  /\ MaxAttempts \in Nat \ {0} /\ Window \in Nat \ {0} /\ MaxRecords \in Nat
  /\ IsFiniteSet(Workers)

Ages == 0..(Window - 1)

VARIABLES
  failed,    \* login_attempts without success, by age in ticks
  guessed,   \* of these, the ones whose password was looked at
  login      \* what each worker is doing

vars == <<failed, guessed, login>>

LockoutTypeOK ==
  /\ failed \in [Ages -> 0..MaxRecords] /\ guessed \in [Ages -> 0..MaxRecords]
  /\ login \in [Workers -> {"idle", "refused", "open", "wrong", "right", "reset"}]

Init ==
  /\ failed = [a \in Ages |-> 0] /\ guessed = [a \in Ages |-> 0]
  /\ login = [w \in Workers |-> "idle"]

(* The attempts that f counts, each with its age and a number.             *)
Attempts(f) == {r \in Ages \X (1..MaxRecords) : r[2] <= f[r[1]]}
Total(f) == Cardinality(Attempts(f))

(* _is_locked_out.                                                         *)
LockedOut == Total(failed) > MaxAttempts

Goto(w, at) == login' = [login EXCEPT ![w] = at]

Begin(w) ==
  /\ login[w] = "idle"
  /\ Goto(w, IF LockedOut THEN "refused" ELSE "open")
  /\ UNCHANGED <<failed, guessed>>

CheckPassword(w) ==
  /\ login[w] = "open" /\ (Goto(w, "wrong") \/ Goto(w, "right"))
  /\ UNCHANGED <<failed, guessed>>

(* _record_login_attempt: also the attempts that the lock refuses.         *)
RecordFailure(w) ==
  /\ login[w] \in {"refused", "wrong"} /\ Total(failed) < MaxRecords
  /\ failed' = [failed EXCEPT ![0] = @ + 1]
  /\ guessed' = IF login[w] = "wrong" THEN [guessed EXCEPT ![0] = @ + 1]
                                      ELSE guessed
  /\ Goto(w, "idle")

RecordSuccess(w) ==
  /\ login[w] = "right" /\ Goto(w, "reset")
  /\ UNCHANGED <<failed, guessed>>

(* _reset_failed_attempts.                                                 *)
Reset(w) ==
  /\ login[w] = "reset" /\ Goto(w, "idle")
  /\ failed' = [a \in Ages |-> 0] /\ guessed' = [a \in Ages |-> 0]

(* The database or the worker fails: what was not committed is lost.       *)
Fail(w) ==
  /\ login[w] # "idle" /\ Goto(w, "idle")
  /\ UNCHANGED <<failed, guessed>>

Older(f) == [a \in Ages |-> IF a = 0 THEN 0 ELSE f[a - 1]]

Tick ==
  /\ failed' = Older(failed) /\ guessed' = Older(guessed)
  /\ UNCHANGED login

Serve(w) ==
  \/ Begin(w) \/ CheckPassword(w) \/ RecordFailure(w) \/ RecordSuccess(w)
  \/ Reset(w) \/ Fail(w)

Next == Tick \/ \E w \in Workers : Serve(w)
Spec == Init /\ [][Next]_vars

-----------------------------------------------------------------------------
(* Within 15 minutes, and since the last login that succeeded, the         *)
(* passwords looked at and on record as wrong are at most MaxAttempts and  *)
(* one for each worker that may be looking at one already                  *)
(* (authenticate_user, _is_locked_out).                                    *)
GuessesAreLimited == Total(guessed) <= MaxAttempts + Cardinality(Workers)
=============================================================================
