--------------------------- MODULE CalendarImport ---------------------------
(***************************************************************************)
(* The calendar of a unit as another site publishes it, its copy here, and *)
(* the conflicts with a reservation: app/integrations/ical, and the pages  *)
(* of app/admin/routes.py and app/api/routes.py about it.                  *)
(*                                                                         *)
(* A synchronisation fetches and parses the calendar, then deletes the     *)
(* rows of the feed and inserts the new ones in one transaction.  The job  *)
(* and the button of the page may synchronise one feed at the same time.   *)
(* At READ COMMITTED a DELETE works on the rows that were committed when   *)
(* it started: it waits for a transaction that has deleted one of them,    *)
(* and rows that this one, or another, commits meanwhile it never sees.    *)
(*                                                                         *)
(* Left out: texts and ids of events, the token of the published calendar, *)
(* and the other feeds, which the job takes one after the other.           *)
(***************************************************************************)
EXTENDS Integers, FiniteSets

CONSTANTS
  LastDay,    \* bound: the days are 0 .. LastDay
  Syncs,      \* the threads that synchronise: the job's and the page's
  MaxEntries  \* bound: the events of the other site's calendar

CalendarAssumption == LastDay \in Nat /\ MaxEntries \in Nat

VARIABLES
  feed,       \* "none", or the row of the feed: "ok" or "error"
  rows,       \* imported_calendar_events: each with the sync that wrote it
  sync,       \* what each thread is doing
  stay,       \* a reservation of the unit
  done        \* what each thread committed last, and which it did not see

vars == <<feed, rows, sync, stay, done>>

Days  == 0..LastDay
NoDay == -1
Entry == [from : Days \cup {NoDay}, to : Days \cup {NoDay}]
Span  == {s \in [from : Days, to : 0..(LastDay + 1)] : s.from < s.to}
Idle  == [at |-> "idle"]
NoStay == [st |-> "none"]

Calendars == {c \in SUBSET Entry : Cardinality(c) <= MaxEntries}
Copy(spans, s) == {[span |-> x, by |-> s] : x \in spans}
Rows == [span : [from : Days, to : 0..(LastDay + 1)], by : Syncs]

(* The transactions that have begun to delete.                             *)
Replacing == {"deleting", "replacing"}

CalendarTypeOK ==
  /\ feed \in {"none", "ok", "error"}
  /\ rows \subseteq Rows
  /\ \A s \in Syncs :
       /\ done[s].new \subseteq Rows /\ done[s].met \subseteq Syncs
       /\ \/ sync[s] = Idle
          \/ sync[s].at = "fetched" /\ sync[s].new \subseteq Rows
          \/ /\ sync[s].at \in Replacing
             /\ sync[s].new \subseteq Rows /\ sync[s].old \subseteq Rows
             /\ sync[s].met \subseteq Syncs
  /\ stay = NoStay \/ (stay.st \in {"confirmed", "cancelled"} /\ stay.span \in Span)

Init ==
  /\ feed = "none" /\ rows = {} /\ stay = NoStay
  /\ sync = [s \in Syncs |-> Idle]
  /\ done = [s \in Syncs |-> [new |-> {}, met |-> {}]]

-----------------------------------------------------------------------------
(* parse_ical_events: no start, no event; one that does not end after its  *)
(* start lasts a day.                                                      *)
Parsed(calendar) ==
  {[from |-> e.from, to |-> IF e.to > e.from THEN e.to ELSE e.from + 1] :
     e \in {x \in calendar : x.from # NoDay}}

(* detect_conflicts.                                                       *)
Conflicts ==
  {r \in rows : /\ stay # NoStay /\ stay.st # "cancelled"
                /\ stay.span.from < r.span.to /\ stay.span.to > r.span.from}

(* export_unit_calendar: what this unit publishes.                         *)
Published == IF stay # NoStay /\ stay.st # "cancelled" THEN {stay.span} ELSE {}

-----------------------------------------------------------------------------
CreateFeed ==
  /\ feed = "none" /\ feed' = "ok"
  /\ UNCHANGED <<rows, sync, stay, done>>

Book ==
  /\ stay = NoStay
  /\ stay' \in [st : {"confirmed"}, span : Span]
  /\ UNCHANGED <<feed, rows, sync, done>>

CancelStay ==
  /\ stay # NoStay /\ stay.st = "confirmed"
  /\ stay' = [stay EXCEPT !.st = "cancelled"]
  /\ UNCHANGED <<feed, rows, sync, done>>

-----------------------------------------------------------------------------
(* _sync_single_feed.                                                      *)

(* The other site may have edited its calendar before every fetch.         *)
Fetch(s) ==
  /\ feed # "none" /\ sync[s] = Idle
  /\ \E calendar \in Calendars :
       sync' = [sync EXCEPT ![s] =
                  [at |-> "fetched", new |-> Copy(Parsed(calendar), s)]]
  /\ UNCHANGED <<feed, rows, stay, done>>

(* The fetch or the parse fails: the rows stay, the feed shows the error.  *)
FetchFails(s) ==
  /\ feed # "none" /\ sync[s] = Idle
  /\ feed' = "error"
  /\ UNCHANGED <<rows, sync, stay, done>>

(* The DELETE starts with the rows that are committed by then.             *)
BeginDelete(s) ==
  /\ sync[s].at = "fetched"
  /\ sync' = [sync EXCEPT ![s] = [at |-> "deleting", new |-> sync[s].new,
                                  old |-> rows, met |-> {}]]
  /\ UNCHANGED <<feed, rows, stay, done>>

(* It locks those of them that are still there.                            *)
Delete(s) ==
  /\ sync[s].at = "deleting"
  /\ \A t \in Syncs \ {s} :
       sync[t].at = "replacing" => sync[t].old \cap sync[s].old = {}
  /\ sync' = [sync EXCEPT ![s].at = "replacing"]
  /\ UNCHANGED <<feed, rows, stay, done>>

(* What becomes of the other transactions when s commits: the rows it has  *)
(* deleted are gone for them, the rows it has inserted they do not see.    *)
AfterCommit(s) ==
  [t \in Syncs |->
     IF t = s THEN Idle
     ELSE IF sync[t].at \in Replacing
       THEN [sync[t] EXCEPT !.old = @ \ sync[s].old, !.met = @ \cup {s}]
     ELSE sync[t]]

(* done, after s has committed: what another did not see of an earlier     *)
(* commit of s is gone.                                                    *)
DoneBy(s) ==
  [t \in Syncs |-> IF t = s THEN [new |-> sync[s].new, met |-> sync[s].met]
                   ELSE [done[t] EXCEPT !.met = @ \ {s}]]

(* Seeded fault: the rows that were there stay.                            *)
CommitAppend(s) ==
  /\ sync[s].at = "replacing"
  /\ rows' = rows \cup sync[s].new /\ feed' = "ok"
  /\ sync' = AfterCommit(s) /\ done' = DoneBy(s)
  /\ UNCHANGED stay

(* Inserts and commit.                                                     *)
Commit(s) ==
  /\ sync[s].at = "replacing"
  /\ rows' = (rows \ sync[s].old) \cup sync[s].new /\ feed' = "ok"
  /\ sync' = AfterCommit(s) /\ done' = DoneBy(s)
  /\ UNCHANGED stay

(* A statement fails: rollback, and the error is kept with the feed.       *)
CommitFails(s) ==
  /\ sync[s].at \in Replacing /\ feed' = "error"
  /\ sync' = [sync EXCEPT ![s] = Idle]
  /\ UNCHANGED <<rows, stay, done>>

(* The process ends: nothing of the transaction stays.                     *)
Crash(s) ==
  /\ sync[s] # Idle /\ sync' = [sync EXCEPT ![s] = Idle]
  /\ UNCHANGED <<feed, rows, stay, done>>

Sync(s) ==
  \/ Fetch(s) \/ FetchFails(s) \/ BeginDelete(s) \/ Delete(s)
  \/ Commit(s) \/ CommitFails(s) \/ Crash(s)

Next == CreateFeed \/ Book \/ CancelStay \/ \E s \in Syncs : Sync(s)

Spec == Init /\ [][Next]_vars

-----------------------------------------------------------------------------
(* The rows of one fetch appear and disappear together, through failures,  *)
(* rollbacks and crashes of either sync and however long a DELETE waits    *)
(* (_sync_single_feed).                                                    *)
CopiesAreWhole ==
  \A r \in rows : r \in done[r.by].new /\ done[r.by].new \subseteq rows

(* Rows of two fetches stand beside each other, so that events are double  *)
(* or were withdrawn by the other site, only if one of the syncs committed *)
(* between the start of the other's DELETE and its commit: a sync that     *)
(* nobody commits beside leaves one fetch (_sync_single_feed).             *)
MixedCopiesOverlapped ==
  \A r1, r2 \in rows :
    \/ r1.by = r2.by
    \/ r1.by \in done[r2.by].met
    \/ r2.by \in done[r1.by].met

(* A conflict is reported exactly when the reservation and the imported    *)
(* event share a night, also for an event without an end or with one       *)
(* before its start (parse_ical_events, detect_conflicts).                 *)
ConflictIffSharedNight ==
  \A r \in rows :
    r \in Conflicts <=>
      \E p \in Published : \E d \in Days :
        d \in p.from..(p.to - 1) /\ d \in r.span.from..(r.span.to - 1)
=============================================================================
