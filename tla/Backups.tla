------------------------------ MODULE Backups ------------------------------
(* Backups and restores (backups/services.py, backups/scheduler.py,        *)
(* backups/routes.py, the commands backup-create and backup-restore).      *)
(* A backup is a row and a file; the dump in the file holds the database,  *)
(* the table of the backups included, as it was when pg_dump began.  Each  *)
(* worker has a nightly job, which takes an advisory lock on whichever     *)
(* connection of its pool it is given, and a page.                         *)
(* Left out: what else is in the database; audit rows, notices and mail    *)
(* (nothing reads them back); the copy sent off site (it sets s3_uri       *)
(* only); the archive of the uploads (it is written and dropped with the   *)
(* other siblings of the dump); a pool that closes connections by itself.  *)
EXTENDS Naturals, FiniteSets

CONSTANTS
  Workers,      \* processes of the application
  Pool,         \* connections a worker's pool may hold
  Backups       \* how many backups are taken: 1 .. Backups are their names

BackupsAssumption ==
  /\ Backups \in Nat \ {0} /\ Pool # {} /\ Workers # {}

VARIABLES
  rows,    \* the database, of which the rows of the backups matter here
  disk,    \* the directory of the backups
  made,    \* how many names have been given
  lock,    \* the connection that holds the advisory lock, if any
  thrown,  \* whether a worker threw its connections away
  proc     \* the job and the page of each worker

vars == <<rows, disk, made, lock, thrown, proc>>

Names == 1 .. Backups
None == "none"
Procs == Workers \X {"job", "page"}
Connections == Workers \X Pool

Triggers == {"scheduled", "manual", "pre_restore"}
NoRow == [status |-> None, trigger |-> None]
Rows == {NoRow} \cup [status : {"pending", "success", "failed"}, trigger : Triggers]
Contents == [Names -> Rows]

(* A file: the database it dumps, whether it is complete, whether it is    *)
(* older than the retention; "safe" is why it was made, which the file     *)
(* alone does not tell.                                                    *)
NoFile == [there |-> FALSE]
Files == [there : {TRUE}, dump : Contents, whole : BOOLEAN, old : BOOLEAN,
          safe : BOOLEAN]

Idle == [pc |-> "idle", name |-> 0, trigger |-> None, target |-> 0, swept |-> {}]

Init ==
  /\ rows = [n \in Names |-> NoRow]
  /\ disk = [n \in Names |-> NoFile]
  /\ made = 0 /\ lock = {} /\ thrown = FALSE
  /\ proc = [p \in Procs |-> Idle]

At(p, pc) == proc[p].pc = pc
Go(p, pc) == proc' = [proc EXCEPT ![p].pc = pc]
SetRow(n, row) == rows' = [rows EXCEPT ![n] = row]
Status(n, s) == SetRow(n, [rows[n] EXCEPT !.status = s])

-----------------------------------------------------------------------------
(* create_backup.  The row comes first, "so a process crash mid-dump still *)
(* leaves a trace".                                                        *)
Begin(p, trigger, target) ==
  /\ made < Backups
  /\ made' = made + 1
  /\ SetRow(made + 1, [status |-> "pending", trigger |-> trigger])
  /\ proc' = [proc EXCEPT ![p] = [pc |-> "dump", name |-> made + 1,
              trigger |-> trigger, target |-> target, swept |-> {}]]
  /\ UNCHANGED disk

(* pg_dump reads the state of the moment it begins in.                     *)
Dump(p) ==
  /\ At(p, "dump") /\ Go(p, "dumping")
  /\ disk' = [disk EXCEPT ![proc[p].name] =
       [there |-> TRUE, dump |-> rows, whole |-> FALSE, old |-> FALSE,
        safe |-> proc[p].trigger = "pre_restore"]]
  /\ UNCHANGED <<rows, made, lock, thrown>>

Dumped(p) ==
  /\ At(p, "dumping") /\ Go(p, "export")
  /\ disk' = [disk EXCEPT ![proc[p].name].whole = TRUE]
  /\ UNCHANGED <<rows, made, lock, thrown>>

(* A row that a restore has taken away meanwhile cannot be updated: the    *)
(* commit raises, and what the run left on disk stays.                     *)
HasRow(p) == rows[proc[p].name] # NoRow

(* pg_dump or the JSON exports fail: the row first, then the files.        *)
Fails(p) ==
  /\ proc[p].pc \in {"dump", "dumping", "export"} /\ HasRow(p)
  /\ Status(proc[p].name, "failed") /\ Go(p, "unlink")
  /\ UNCHANGED <<disk, made, lock, thrown>>

(* Seeded fault: a restore goes on when its safe copy has failed.          *)
UnlinkAndGoOn(p) ==
  /\ At(p, "unlink")
  /\ disk' = [disk EXCEPT ![proc[p].name] = NoFile]
  /\ Go(p, IF proc[p].target = 0 THEN "end" ELSE "load")
  /\ UNCHANGED <<rows, made, lock, thrown>>

Unlink(p) ==
  /\ At(p, "unlink")
  /\ disk' = [disk EXCEPT ![proc[p].name] = NoFile]
  /\ Go(p, "end")
  /\ UNCHANGED <<rows, made, lock, thrown>>

(* Seeded fault: the row is a success before pg_dump has ended.            *)
SucceedsEarly(p) ==
  /\ proc[p].pc \in {"dumping", "export"} /\ HasRow(p)
  /\ Status(proc[p].name, "success") /\ Go(p, "prune")
  /\ UNCHANGED <<disk, made, lock, thrown>>

Succeeds(p) ==
  /\ At(p, "export") /\ HasRow(p)
  /\ Status(proc[p].name, "success") /\ Go(p, "prune")
  /\ UNCHANGED <<disk, made, lock, thrown>>

Breaks(p) ==
  /\ proc[p].pc \in {"dumping", "export"} /\ ~HasRow(p)
  /\ Go(p, "end")
  /\ UNCHANGED <<rows, disk, made, lock, thrown>>

(* prune_old_backups: files past the retention go, unless their row says   *)
(* that they are safe copies; the rows go in one commit at the end.        *)
Protected(n) == rows[n].trigger = "pre_restore"
Expired == {n \in Names : disk[n].there /\ disk[n].old /\ ~Protected(n)}

Sweep(p) ==
  /\ At(p, "prune")
  /\ disk' = [n \in Names |-> IF n \in Expired THEN NoFile ELSE disk[n]]
  /\ proc' = [proc EXCEPT ![p].swept = Expired, ![p].pc = "forget"]
  /\ UNCHANGED <<rows, made, lock, thrown>>

Forget(p) ==
  /\ At(p, "forget")
  /\ rows' = [n \in Names |-> IF n \in proc[p].swept THEN NoRow ELSE rows[n]]
  /\ proc' = [proc EXCEPT ![p].swept = {},
              ![p].pc = IF proc[p].target = 0 THEN "end" ELSE "load"]
  /\ UNCHANGED <<disk, made, lock, thrown>>

-----------------------------------------------------------------------------
(* _scheduled_backup_job: the lock belongs to the connection it was asked  *)
(* on; one that holds it already gets it again.                            *)
Tick(w) ==
  /\ At(<<w, "job">>, "idle")
  /\ \E c \in Pool :
       /\ lock \subseteq {<<w, c>>}
       /\ lock' = {<<w, c>>}
  /\ Begin(<<w, "job">>, "scheduled", 0)
  /\ UNCHANGED thrown

(* The commits within gave the connection back to the pool, so that the    *)
(* unlock may run on another one, which holds nothing.                     *)
JobEnds(w) ==
  /\ At(<<w, "job">>, "end")
  /\ \E c \in Pool : lock' = lock \ {<<w, c>>}
  /\ proc' = [proc EXCEPT ![<<w, "job">>] = Idle]
  /\ UNCHANGED <<rows, disk, made, thrown>>

(* backups_create, backup-create.                                          *)
CreateNow(w) ==
  /\ At(<<w, "page">>, "idle")
  /\ Begin(<<w, "page">>, "manual", 0)
  /\ UNCHANGED <<lock, thrown>>

(* restore_backup wants the file and makes the safe copy before anything   *)
(* else.  The page takes files of successful rows only; backup-restore, in *)
(* a process of its own (here: a worker whose job does not run), any file, *)
(* one that is half written or has lost its row among them.                *)
Restore(w, n) ==
  /\ At(<<w, "page">>, "idle")
  /\ disk[n].there
  /\ Begin(<<w, "page">>, "pre_restore", n)
  /\ UNCHANGED <<lock, thrown>>

(* engine.dispose() closes the worker's idle connections, and with them    *)
(* goes a lock that one of them held; then psql loads the dump in one      *)
(* transaction.  A dump that is cut short breaks off the reading of it,    *)
(* which closes psql's input and so commits what psql was given.           *)
Dispose(w) == /\ lock' = lock \ ({w} \X Pool)
              /\ thrown' = TRUE

Load(w) ==
  LET file == disk[proc[<<w, "page">>].target] IN
  /\ At(<<w, "page">>, "load")
  /\ file.there
  /\ \E loaded \in SUBSET Names :
       /\ file.whole => loaded = Names
       /\ rows' = [n \in Names |-> IF n \in loaded THEN file.dump[n] ELSE NoRow]
  /\ Dispose(w)
  /\ Go(<<w, "page">>, "end")
  /\ UNCHANGED <<disk, made>>

(* The file is gone, or psql fails: nothing is loaded.                     *)
LoadFails(w) ==
  /\ At(<<w, "page">>, "load")
  /\ Dispose(w)
  /\ Go(<<w, "page">>, "end")
  /\ UNCHANGED <<rows, disk, made>>

PageEnds(w) ==
  /\ At(<<w, "page">>, "end")
  /\ proc' = [proc EXCEPT ![<<w, "page">>] = Idle]
  /\ UNCHANGED <<rows, disk, made, lock, thrown>>

(* A worker dies with its job, its page and its connections.               *)
Crash(w) ==
  /\ \E k \in {"job", "page"} : proc[<<w, k>>].pc \notin {"idle", "end"}
  /\ proc' = [proc EXCEPT ![<<w, "job">>] = Idle, ![<<w, "page">>] = Idle]
  /\ lock' = lock \ ({w} \X Pool)
  /\ UNCHANGED <<rows, disk, made, thrown>>

-----------------------------------------------------------------------------
(* Days pass: a file that no running backup is about gets old.  A backup   *)
(* and a restore take half an hour each at most (BACKUP_TIMEOUT_SEC,       *)
(* RESTORE_TIMEOUT_SEC), the retention is days.                            *)
InUse(n) == \E p \in Procs : proc[p] # Idle /\ proc[p].name = n

Age(n) ==
  /\ disk[n].there /\ ~disk[n].old /\ ~InUse(n)
  /\ disk' = [disk EXCEPT ![n].old = TRUE]
  /\ UNCHANGED <<rows, made, lock, thrown, proc>>

Next ==
  \/ \E p \in Procs :
       \/ Dump(p) \/ Dumped(p) \/ Fails(p) \/ Unlink(p) \/ Succeeds(p)
       \/ Breaks(p) \/ Sweep(p) \/ Forget(p)
  \/ \E w \in Workers :
       \/ Tick(w) \/ JobEnds(w) \/ CreateNow(w) \/ PageEnds(w) \/ Crash(w)
       \/ Load(w) \/ LoadFails(w)
       \/ \E n \in Names : Restore(w, n)
  \/ \E n \in Names : Age(n)

Spec == Init /\ [][Next]_vars

-----------------------------------------------------------------------------
Steps == {"idle", "dump", "dumping", "export", "unlink", "prune", "forget",
          "load", "end"}

BackupsTypeOK ==
  /\ rows \in Contents
  /\ disk \in [Names -> {NoFile} \cup Files]
  /\ made \in 0 .. Backups
  /\ lock \in SUBSET Connections /\ thrown \in BOOLEAN
  /\ proc \in [Procs -> [pc : Steps, name : 0 .. Backups,
       trigger : Triggers \cup {None}, target : 0 .. Backups,
       swept : SUBSET Names]]

(* A file whose row says "success" is a complete dump: whatever fails,     *)
(* dies or is restored, a page never offers a half-finished dump for a     *)
(* download or a restore (create_backup, "a half-finished backup is never  *)
(* recorded as a success").                                                *)
SuccessIsWhole ==
  \A n \in Names :
    rows[n].status = "success" /\ disk[n].there => disk[n].whole

(* Two workers never run the nightly dump at once, unless a restore in one *)
(* of them closed the connection that held the lock (scheduler.py, "We use *)
(* a Postgres advisory lock to serialise the actual dump").                *)
OneNightlyDump ==
  ~thrown => Cardinality({w \in Workers : ~At(<<w, "job">>, "idle")}) <= 1

(* What the backups promise of files and of the nightly job.               *)
BackupsAreSound == SuccessIsWhole /\ OneNightlyDump

(* The database is replaced only when a complete copy of it, made by the   *)
(* same restore, is on disk and may still be loaded (restore_backup).      *)
SafeCopyFirst ==
  [][\A w \in Workers :
       Load(w) => LET copy == disk[proc[<<w, "page">>].name]
                  IN copy.there /\ copy.whole /\ copy.safe /\ ~copy.old]_vars

(* "pre_restore safe-copies are kept regardless of age so a botched        *)
(* restore can always be reverted" (prune_old_backups).                    *)
SafeCopiesAreKept ==
  [][\A n \in Names : disk[n].there /\ disk[n].whole /\ disk[n].safe
                        /\ disk'[n] = NoFile
                      => \E p \in Procs : proc[p].name = n /\ At(p, "unlink")]_vars
=============================================================================
