---------------------------- MODULE BackupsProofs ----------------------------
(***************************************************************************)
(* What holds of backups and restores, for any number of workers,          *)
(* connections and backups, and any crashes.                               *)
(*                                                                         *)
(* A row of a dump may come back long after it was written, so that what   *)
(* is promised of the rows must hold of every dump on disk too: Vouched.   *)
(* A file that a running backup is about has one writer and is never old   *)
(* (Written), hence pruning leaves it alone.                               *)
(***************************************************************************)
EXTENDS Backups, FiniteSetTheorems, TLAPS

ProcRow == [pc : Steps, name : 0 .. Backups, trigger : Triggers \cup {None},
            target : 0 .. Backups, swept : SUBSET Names]
Disks == [Names -> {NoFile} \cup Files]

Busy(p) == proc[p].pc # "idle"

(* Whoever is busy works on a name that was given to nobody else; there is *)
(* no file with a name that has not been given.                            *)
Named ==
  /\ \A p \in Procs : Busy(p) => proc[p].name \in 1 .. made
  /\ \A p, q \in Procs :
       Busy(p) /\ Busy(q) /\ proc[p].name = proc[q].name => p = q
  /\ \A n \in Names : disk[n].there => n <= made

(* The file of a running backup, as far as it has come.                    *)
Own(p) ==
  LET f == disk[proc[p].name] IN
  Busy(p) =>
    /\ f.there => ~f.old /\ (f.safe <=> proc[p].trigger = "pre_restore")
    /\ proc[p].pc = "dumping" => f.there
    /\ proc[p].pc \in {"export", "prune", "forget", "load"} => f.there /\ f.whole
    /\ proc[p].target # 0 => proc[p].trigger = "pre_restore"
    /\ proc[p].pc = "load" => proc[p].target # 0
Written == \A p \in Procs : Own(p)

(* A state of the table in which every success is a finished dump.         *)
InTheMaking(n) ==
  \E p \in Procs : proc[p].name = n /\ proc[p].pc \in {"dump", "dumping"}
Finished(n) ==
  n <= made /\ ~InTheMaking(n) /\ (disk[n].there => disk[n].whole)
Vouched(c) == \A n \in Names : c[n].status = "success" => Finished(n)
AllVouched ==
  /\ Vouched(rows)
  /\ \A m \in Names : disk[m].there => Vouched(disk[m].dump)

FileInv == BackupsTypeOK /\ Named /\ Written /\ AllVouched

-----------------------------------------------------------------------------
LEMMA InitFiles == BackupsAssumption /\ Init => FileInv
<1> SUFFICES ASSUME BackupsAssumption, Init PROVE FileInv
  OBVIOUS
<1>1. /\ rows = [n \in Names |-> NoRow] /\ disk = [n \in Names |-> NoFile]
      /\ made = 0 /\ lock = {} /\ thrown = FALSE /\ proc = [p \in Procs |-> Idle]
  BY DEF Init
<1>2. NoRow \in Rows /\ Idle \in ProcRow /\ made \in 0 .. Backups
  BY <1>1 DEF BackupsAssumption, Rows, Idle, ProcRow, Steps
<1>3. BackupsTypeOK
  BY <1>1, <1>2 DEF BackupsTypeOK, Contents, ProcRow
<1>4. Named /\ Written
  BY <1>1 DEF Named, Written, Own, Busy, Idle, NoFile
<1>5. AllVouched
  BY <1>1 DEF AllVouched, Vouched, NoRow, NoFile, None
<1> QED
  BY <1>3, <1>4, <1>5 DEF FileInv

(* A step makes a success only of a finished dump, or takes it from one of *)
(* the dumps; and it writes only files in the making, from the table.      *)
RowsStand ==
  \A n \in Names : rows'[n].status = "success" =>
    \/ rows[n].status = "success"
    \/ \E k \in Names : disk[k].there /\ disk[k].dump[n].status = "success"
    \/ Finished(n)'
FilesStand ==
  \A m \in Names : disk'[m].there =>
    /\ \/ disk'[m].dump = rows
       \/ \E k \in Names : disk[k].there /\ disk'[m].dump = disk[k].dump
    /\ disk[m].there \/ InTheMaking(m)
    /\ ~disk'[m].whole => (disk[m].there /\ ~disk[m].whole) \/ InTheMaking(m)

(* What was finished stays so if no dump begins on its name and no file is *)
(* cut short but one in the making.                                        *)
Grows ==
  /\ made \in Nat /\ made' \in Nat /\ made <= made'
  /\ \A n \in Names : InTheMaking(n)' => InTheMaking(n) \/ n > made
  /\ FilesStand

LEMMA FinishedStays ==
  ASSUME Grows, NEW n \in Names, Finished(n)
  PROVE  Finished(n)'
  BY DEF Grows, Finished, FilesStand, Names

(* The dumps on disk are the ones that were there, and one of the table.   *)
LEMMA VouchedStays ==
  ASSUME Grows, AllVouched,
         RowsStand
  PROVE  AllVouched'
<1>1. \A n \in Names : Finished(n) => Finished(n)'
  BY FinishedStays
<1>2. Vouched(rows)'
  BY <1>1 DEF AllVouched, Vouched, RowsStand
<1>3. ASSUME NEW m \in Names, disk'[m].there
      PROVE  \A n \in Names : disk'[m].dump[n].status = "success" => Finished(n)'
  <2>1. CASE disk'[m].dump = rows
    BY <1>1, <2>1 DEF AllVouched, Vouched
  <2>2. CASE \E k \in Names : disk[k].there /\ disk'[m].dump = disk[k].dump
    BY <1>1, <2>2 DEF AllVouched, Vouched
  <2> QED
    BY <1>3, <2>1, <2>2 DEF Grows, FilesStand
<1> QED
  BY <1>2, <1>3 DEF AllVouched, Vouched

TypesStand ==
  /\ made' = made /\ rows' \in Contents /\ disk' \in Disks
  /\ lock' \in SUBSET Connections /\ thrown' \in BOOLEAN
Continues(p, q) ==
  /\ q.pc # "idle" => Busy(p) /\ q.name = proc[p].name
  /\ q.pc \in {"dump", "dumping"} => proc[p].pc \in {"dump", "dumping"}
OthersStand(p) ==
  \A o \in Procs : o # p /\ Busy(o) => disk'[proc[o].name] = disk[proc[o].name]

(* One of a worker's two activities goes on with its name, or ends.        *)
LEMMA OneStep ==
  ASSUME FileInv, NEW p \in Procs, NEW q \in ProcRow,
         proc' = [proc EXCEPT ![p] = q], TypesStand, Continues(p, q), OthersStand(p),
         RowsStand,
         FilesStand,
         Own(p)'
  PROVE  FileInv'
<1>1. \A o \in Procs : proc'[o] = IF o = p THEN q ELSE proc[o]
  BY DEF FileInv, BackupsTypeOK
<1>2. BackupsTypeOK'
  BY DEF FileInv, BackupsTypeOK, ProcRow, Disks, TypesStand
<1>3. Named'
  <2>1. \A n \in Names : disk'[n].there => n <= made
    BY DEF FileInv, Named, FilesStand, InTheMaking, Busy
  <2> QED
    BY <1>1, <2>1 DEF FileInv, Named, Busy, Continues, TypesStand
<1>4. Written'
  BY <1>1 DEF FileInv, Written, Own, Busy, OthersStand
<1>5. Grows
  BY <1>1 DEF FileInv, BackupsTypeOK, Grows, InTheMaking, Continues, TypesStand
<1>6. AllVouched'
  BY <1>5, VouchedStays DEF FileInv
<1> QED
  BY <1>2, <1>3, <1>4, <1>6 DEF FileInv

-----------------------------------------------------------------------------
(* What the steps of a backup find: types, and that the file of p has no   *)
(* other writer.                                                           *)
LEMMA Finds ==
  ASSUME FileInv, NEW p \in Procs
  PROVE  /\ proc[p] \in ProcRow /\ rows \in Contents /\ disk \in Disks
         /\ lock \in SUBSET Connections /\ thrown \in BOOLEAN
         /\ made \in 0 .. Backups
         /\ Busy(p) => /\ proc[p].name \in Names /\ proc[p].name <= made /\ Own(p)
                       /\ \A o \in Procs : o # p /\ Busy(o) =>
                            proc[o].name # proc[p].name
  BY DEF FileInv, BackupsTypeOK, ProcRow, Disks, Named, Written, Names

LEMMA DumpKeeps ==
  ASSUME FileInv, NEW p \in Procs, Dump(p) PROVE FileInv'
<1> DEFINE q == [proc[p] EXCEPT !.pc = "dumping"]
           n == proc[p].name
           f == [there |-> TRUE, dump |-> rows, whole |-> FALSE, old |-> FALSE,
                 safe |-> proc[p].trigger = "pre_restore"]
<1>1. /\ proc' = [proc EXCEPT ![p] = q] /\ disk' = [disk EXCEPT ![n] = f]
      /\ UNCHANGED <<rows, made, lock, thrown>> /\ proc[p].pc = "dump" /\ Busy(p)
  BY DEF Dump, Go, At, Busy
<1>2. /\ q \in ProcRow /\ q.pc = "dumping" /\ q.name = n
      /\ q.trigger = proc[p].trigger /\ q.target = proc[p].target
  BY Finds DEF ProcRow, Steps
<1>3. f \in Files /\ n \in Names
  BY <1>1, Finds DEF Files
<1>4. disk' \in Disks
  BY <1>1, <1>3, Finds DEF Disks
<1>5. Own(p)'
  BY <1>1, <1>2, <1>3, Finds DEF Own, Busy, FileInv, BackupsTypeOK
<1>6. \A m \in Names : disk'[m] = IF m = n THEN f ELSE disk[m]
  BY <1>1, Finds DEF Disks
<1>7. InTheMaking(n)
  BY <1>1 DEF InTheMaking
<1> HIDE DEF q
<1>8. OthersStand(p) /\ Continues(p, q)
  BY <1>1, <1>2, <1>6, Finds DEF OthersStand, Continues
<1>9. RowsStand /\ FilesStand
  BY <1>1, <1>6, <1>7 DEF RowsStand, FilesStand
<1>10. TypesStand
  BY <1>1, <1>4, Finds DEF TypesStand
<1> HIDE DEF n, f
<1> QED
  BY <1>1, <1>2, <1>5, <1>8, <1>9, <1>10, OneStep

(* Steps that leave the directory alone.                                   *)
LEMMA SameDisk ==
  ASSUME FileInv, NEW p \in Procs, NEW q \in ProcRow,
         proc' = [proc EXCEPT ![p] = q], TypesStand, Continues(p, q), disk' = disk,
         RowsStand,
         Own(p)'
  PROVE  FileInv'
<1>1. FilesStand /\ OthersStand(p)
  BY DEF FilesStand, OthersStand
<1> QED
  BY <1>1, OneStep

LEMMA DumpedKeeps ==
  ASSUME FileInv, NEW p \in Procs, Dumped(p) PROVE FileInv'
<1> DEFINE q == [proc[p] EXCEPT !.pc = "export"]
           n == proc[p].name
<1>1. /\ proc' = [proc EXCEPT ![p] = q] /\ disk' = [disk EXCEPT ![n].whole = TRUE]
      /\ UNCHANGED <<rows, made, lock, thrown>> /\ proc[p].pc = "dumping" /\ Busy(p)
  BY DEF Dumped, Go, At, Busy
<1>2. /\ q \in ProcRow /\ q.pc = "export" /\ q.name = n
      /\ q.trigger = proc[p].trigger /\ q.target = proc[p].target
  BY Finds DEF ProcRow, Steps
<1>3. n \in Names /\ disk[n] \in Files
  BY <1>1, Finds DEF Own, Disks, NoFile
<1> DEFINE f == [disk[n] EXCEPT !.whole = TRUE]
<1>4. /\ f \in Files /\ f.there /\ f.whole /\ f.dump = disk[n].dump
      /\ f.old = disk[n].old /\ f.safe = disk[n].safe
  BY <1>3 DEF Files
<1>5. disk' \in Disks /\ \A m \in Names : disk'[m] = IF m = n THEN f ELSE disk[m]
  BY <1>1, <1>3, <1>4, Finds DEF Disks
<1>6. disk[n].there
  BY <1>3 DEF Files
<1> HIDE DEF q, f
<1>7. Own(p)'
  BY <1>1, <1>2, <1>3, <1>4, <1>5, <1>6, Finds DEF Own, Busy, FileInv, BackupsTypeOK
<1>8. OthersStand(p) /\ Continues(p, q)
  BY <1>1, <1>2, <1>5, Finds DEF OthersStand, Continues
<1>9. RowsStand /\ FilesStand
  BY <1>1, <1>4, <1>5, <1>6 DEF RowsStand, FilesStand
<1>10. TypesStand
  BY <1>1, <1>5, Finds DEF TypesStand
<1> HIDE DEF n
<1> QED
  BY <1>1, <1>2, <1>7, <1>8, <1>9, <1>10, OneStep

(* The row of a running backup, with another status.                       *)
LEMMA StatusType ==
  ASSUME FileInv, NEW p \in Procs, Busy(p), HasRow(p),
         NEW st \in {"success", "failed"}, Status(proc[p].name, st)
  PROVE  /\ rows' \in Contents
         /\ \A n \in Names : rows'[n].status = "success" =>
              rows[n].status = "success" \/ (n = proc[p].name /\ st = "success")
<1> DEFINE n == proc[p].name
<1>1. n \in Names /\ rows \in Contents
  BY Finds
<1>2. rows[n] \in [status : {"pending", "success", "failed"}, trigger : Triggers]
  BY <1>1 DEF HasRow, Contents, Rows
<1> DEFINE r == [rows[n] EXCEPT !.status = st]
<1>3. r \in Rows /\ r.status = st
  BY <1>2 DEF Rows
<1>4. rows' = [rows EXCEPT ![n] = r]
  BY DEF Status, SetRow
<1> HIDE DEF r, n
<1>5. rows' \in Contents /\ \A m \in Names : rows'[m] = IF m = n THEN r ELSE rows[m]
  BY <1>1, <1>3, <1>4 DEF Contents
<1> QED
  BY <1>3, <1>5 DEF n

(* The file of p, when p goes on and nothing is written.                   *)
LEMMA OwnStays ==
  ASSUME FileInv, NEW p \in Procs, Busy(p), NEW q \in ProcRow,
         proc' = [proc EXCEPT ![p] = q], disk' = disk,
         q.name = proc[p].name, q.trigger = proc[p].trigger,
         q.target = proc[p].target, q.pc # "dumping",
         q.pc \in {"export", "prune", "forget", "load"} =>
           proc[p].pc \in {"export", "prune", "forget", "load"},
         q.pc = "load" => q.target # 0
  PROVE  Own(p)'
<1>1. proc'[p] = q
  BY DEF FileInv, BackupsTypeOK
<1> QED
  BY <1>1, Finds DEF Own, Busy

LEMMA FailsKeeps ==
  ASSUME FileInv, NEW p \in Procs, Fails(p) PROVE FileInv'
<1> DEFINE q == [proc[p] EXCEPT !.pc = "unlink"]
<1>1. /\ proc' = [proc EXCEPT ![p] = q] /\ disk' = disk
      /\ UNCHANGED <<made, lock, thrown>> /\ Busy(p) /\ HasRow(p)
      /\ Status(proc[p].name, "failed")
  BY DEF Fails, Go, Busy
<1>2. /\ q \in ProcRow /\ q.pc = "unlink" /\ q.name = proc[p].name
      /\ q.trigger = proc[p].trigger /\ q.target = proc[p].target
  BY Finds DEF ProcRow, Steps
<1> HIDE DEF q
<1>3. rows' \in Contents /\ RowsStand
  BY <1>1, StatusType DEF RowsStand
<1>4. TypesStand
  BY <1>1, <1>3, Finds DEF TypesStand
<1>5. Continues(p, q)
  BY <1>1, <1>2 DEF Continues
<1>6. Own(p)'
  BY <1>1, <1>2, OwnStays
<1> QED
  BY <1>1, <1>2, <1>3, <1>4, <1>5, <1>6, SameDisk

LEMMA SucceedsKeeps ==
  ASSUME FileInv, NEW p \in Procs, Succeeds(p) PROVE FileInv'
<1> DEFINE q == [proc[p] EXCEPT !.pc = "prune"]
<1>1. /\ proc' = [proc EXCEPT ![p] = q] /\ disk' = disk
      /\ UNCHANGED <<made, lock, thrown>> /\ Busy(p) /\ HasRow(p)
      /\ Status(proc[p].name, "success") /\ proc[p].pc = "export"
  BY DEF Succeeds, Go, Busy, At
<1>2. /\ q \in ProcRow /\ q.pc = "prune" /\ q.name = proc[p].name
      /\ q.trigger = proc[p].trigger /\ q.target = proc[p].target
  BY Finds DEF ProcRow, Steps
<1>3. \A o \in Procs : proc'[o] = IF o = p THEN q ELSE proc[o]
  BY <1>1 DEF FileInv, BackupsTypeOK
<1> HIDE DEF q
<1>4. ASSUME NEW n \in Names, n = proc[p].name
      PROVE  Finished(n)'
  <2>1. ~InTheMaking(n)
    BY <1>1, <1>4, Finds DEF InTheMaking, Busy
  <2>2. ~InTheMaking(n)'
    BY <1>2, <1>3, <2>1 DEF InTheMaking
  <2> QED
    BY <1>1, <1>4, <2>2, Finds DEF Finished, Own
<1>5. rows' \in Contents /\ RowsStand
  BY <1>1, <1>4, StatusType DEF RowsStand
<1>6. TypesStand
  BY <1>1, <1>5, Finds DEF TypesStand
<1>7. Continues(p, q)
  BY <1>1, <1>2 DEF Continues
<1>8. Own(p)'
  BY <1>1, <1>2, OwnStays
<1> QED
  BY <1>1, <1>2, <1>5, <1>6, <1>7, <1>8, SameDisk

LEMMA BreaksKeeps ==
  ASSUME FileInv, NEW p \in Procs, Breaks(p) PROVE FileInv'
<1> DEFINE q == [proc[p] EXCEPT !.pc = "end"]
<1>1. /\ proc' = [proc EXCEPT ![p] = q] /\ disk' = disk /\ rows' = rows
      /\ UNCHANGED <<made, lock, thrown>> /\ Busy(p)
  BY DEF Breaks, Go, Busy
<1>2. /\ q \in ProcRow /\ q.pc = "end" /\ q.name = proc[p].name
      /\ q.trigger = proc[p].trigger /\ q.target = proc[p].target
  BY Finds DEF ProcRow, Steps
<1> HIDE DEF q
<1>3. TypesStand /\ RowsStand
  BY <1>1, Finds DEF TypesStand, RowsStand
<1>4. Continues(p, q)
  BY <1>1, <1>2 DEF Continues
<1>5. Own(p)'
  BY <1>1, <1>2, OwnStays
<1> QED
  BY <1>1, <1>2, <1>3, <1>4, <1>5, SameDisk

(* Files go: nobody's but those of p.                                      *)
LEMMA FilesGo ==
  ASSUME FileInv, NEW p \in Procs, NEW q \in ProcRow,
         proc' = [proc EXCEPT ![p] = q], Continues(p, q), OthersStand(p),
         UNCHANGED <<rows, made, lock, thrown>>, DOMAIN disk' = Names,
         disk' = [n \in Names |-> disk'[n]],
         \A n \in Names : disk'[n] = disk[n] \/ disk'[n] = NoFile,
         Own(p)'
  PROVE  FileInv'
<1>1. TypesStand
  BY Finds DEF TypesStand, Disks
<1>2. RowsStand /\ FilesStand
  BY DEF RowsStand, FilesStand, NoFile
<1> QED
  BY <1>1, <1>2, OneStep

LEMMA UnlinkKeeps ==
  ASSUME FileInv, NEW p \in Procs, Unlink(p) PROVE FileInv'
<1> DEFINE q == [proc[p] EXCEPT !.pc = "end"]
           n == proc[p].name
<1>1. /\ proc' = [proc EXCEPT ![p] = q] /\ disk' = [disk EXCEPT ![n] = NoFile]
      /\ UNCHANGED <<rows, made, lock, thrown>> /\ Busy(p)
  BY DEF Unlink, Go, At, Busy
<1>2. /\ q \in ProcRow /\ q.pc = "end" /\ q.name = n
      /\ q.trigger = proc[p].trigger /\ q.target = proc[p].target
  BY Finds DEF ProcRow, Steps
<1>3. \A m \in Names : disk'[m] = IF m = n THEN NoFile ELSE disk[m]
  BY <1>1, Finds DEF Disks
<1>4. DOMAIN disk' = Names /\ disk' = [m \in Names |-> disk'[m]]
  BY <1>1, Finds DEF Disks
<1>5. OthersStand(p) /\ Continues(p, q)
  BY <1>1, <1>2, <1>3, Finds DEF OthersStand, Continues
<1>6. proc'[p] = q
  BY <1>1 DEF FileInv, BackupsTypeOK
<1> HIDE DEF q
<1>7. Own(p)'
  BY <1>1, <1>2, <1>3, <1>6, Finds DEF Own, Busy, NoFile
<1> QED
  BY <1>1, <1>2, <1>3, <1>4, <1>5, <1>7, FilesGo

(* Pruning takes only old files, which nobody works on.                    *)
LEMMA SweepKeeps ==
  ASSUME FileInv, NEW p \in Procs, Sweep(p) PROVE FileInv'
<1> DEFINE q == [proc[p] EXCEPT !.swept = Expired, !.pc = "forget"]
<1>1. /\ proc' = [proc EXCEPT ![p] = q] /\ proc[p].pc = "prune" /\ Busy(p)
      /\ disk' = [n \in Names |-> IF n \in Expired THEN NoFile ELSE disk[n]]
      /\ UNCHANGED <<rows, made, lock, thrown>>
  BY DEF Sweep, At, Busy
<1>2. /\ q \in ProcRow /\ q.pc = "forget" /\ q.name = proc[p].name
      /\ q.trigger = proc[p].trigger /\ q.target = proc[p].target
  BY Finds DEF ProcRow, Steps, Expired
<1>3. \A o \in Procs : Busy(o) => disk'[proc[o].name] = disk[proc[o].name]
  <2>1. ASSUME NEW o \in Procs, Busy(o) PROVE proc[o].name \in Names \ Expired
    BY <2>1, Finds DEF Own, Expired
  <2> QED
    BY <1>1, <2>1
<1>4. OthersStand(p) /\ Continues(p, q)
  BY <1>1, <1>2, <1>3 DEF OthersStand, Continues
<1>5. proc'[p] = q
  BY <1>1 DEF FileInv, BackupsTypeOK
<1> HIDE DEF q
<1>6. Own(p)'
  BY <1>1, <1>2, <1>3, <1>5, Finds DEF Own, Busy
<1>7. DOMAIN disk' = Names /\ disk' = [m \in Names |-> disk'[m]]
  BY <1>1
<1>8. \A n \in Names : disk'[n] = disk[n] \/ disk'[n] = NoFile
  BY <1>1
<1> QED
  BY <1>1, <1>2, <1>4, <1>6, <1>7, <1>8, FilesGo

LEMMA ForgetKeeps ==
  ASSUME FileInv, NEW p \in Procs, Forget(p) PROVE FileInv'
<1> DEFINE q == [proc[p] EXCEPT !.swept = {},
                  !.pc = IF proc[p].target = 0 THEN "end" ELSE "load"]
<1>1. /\ proc' = [proc EXCEPT ![p] = q] /\ proc[p].pc = "forget" /\ Busy(p)
      /\ rows' = [n \in Names |-> IF n \in proc[p].swept THEN NoRow ELSE rows[n]]
      /\ disk' = disk /\ UNCHANGED <<made, lock, thrown>>
  BY DEF Forget, At, Busy
<1>2. /\ q \in ProcRow /\ q.pc = (IF proc[p].target = 0 THEN "end" ELSE "load")
      /\ q.name = proc[p].name
      /\ q.trigger = proc[p].trigger /\ q.target = proc[p].target
  BY Finds DEF ProcRow, Steps
<1> HIDE DEF q
<1>3. rows' \in Contents /\ RowsStand
  BY <1>1, Finds DEF RowsStand, Contents, Rows, NoRow, None
<1>4. TypesStand
  BY <1>1, <1>3, Finds DEF TypesStand
<1>5. Continues(p, q)
  BY <1>1, <1>2 DEF Continues
<1>6. Own(p)'
  BY <1>1, <1>2, OwnStays
<1> QED
  BY <1>1, <1>2, <1>3, <1>4, <1>5, <1>6, SameDisk

(* The page and the job come to their end; a restore loads its dump.       *)
(* The whole of a table, or a part of it.                                  *)
Part(c, d) ==
  c = [n \in Names |-> c[n]] /\ \A n \in Names : c[n] = d[n] \/ c[n] = NoRow

LEMMA EndKeeps ==
  ASSUME FileInv, NEW p \in Procs, proc[p].pc \in {"end", "load"},
         \/ proc' = [proc EXCEPT ![p] = Idle]
         \/ Go(p, "end"),
         BackupsAssumption,
         disk' = disk, made' = made, lock' \subseteq lock, thrown' \in BOOLEAN,
         rows' = rows \/ \E k \in Names : disk[k].there /\ Part(rows', disk[k].dump)
  PROVE  FileInv'
<1>1. Busy(p)
  BY DEF Busy
<1>2. rows' \in Contents
  <2>1. ASSUME NEW k \in Names, disk[k].there, Part(rows', disk[k].dump)
        PROVE  rows' \in Contents
    <3>1. disk[k] \in Files
      BY <2>1, Finds DEF Disks, NoFile
    <3>1a. disk[k].dump \in Contents
      BY <3>1 DEF Files
    <3>2. \A n \in Names : rows'[n] \in Rows
      BY <2>1, <3>1a DEF Part, Contents, Rows
    <3> QED
      BY <2>1, <3>2 DEF Part, Contents
  <2> QED
    BY <2>1, Finds
<1>3. TypesStand
  BY <1>2, Finds DEF TypesStand
<1>4. RowsStand
  BY DEF RowsStand, Part, NoRow, None
<1>5. CASE proc' = [proc EXCEPT ![p] = Idle]
  <2>1. Idle \in ProcRow /\ Idle.pc = "idle"
    BY DEF Idle, ProcRow, Steps, BackupsAssumption
  <2>2. Continues(p, Idle) /\ Own(p)'
    BY <1>5, <2>1 DEF Continues, Own, Busy, FileInv, BackupsTypeOK
  <2> QED
    BY <1>3, <1>4, <1>5, <2>1, <2>2, SameDisk
<1>6. CASE Go(p, "end")
  <2> DEFINE q == [proc[p] EXCEPT !.pc = "end"]
  <2>1. proc' = [proc EXCEPT ![p] = q]
    BY <1>6 DEF Go
  <2>2. /\ q \in ProcRow /\ q.pc = "end" /\ q.name = proc[p].name
        /\ q.trigger = proc[p].trigger /\ q.target = proc[p].target
    BY Finds DEF ProcRow, Steps
  <2> HIDE DEF q
  <2>3. Continues(p, q) /\ Own(p)'
    BY <1>1, <2>1, <2>2, OwnStays DEF Continues
  <2> QED
    BY <1>3, <1>4, <2>1, <2>2, <2>3, SameDisk
<1> QED
  BY <1>5, <1>6

(* A new name, in nobody's use and in no dump as a success.                *)
LEMMA BeginKeeps ==
  ASSUME FileInv, NEW p \in Procs, proc[p].pc = "idle", NEW trigger \in Triggers,
         NEW target \in 0 .. Backups, target # 0 => trigger = "pre_restore",
         Begin(p, trigger, target), BackupsAssumption,
         lock' \in SUBSET Connections, thrown' \in BOOLEAN
  PROVE  FileInv'
<1> DEFINE n == made + 1
           q == [pc |-> "dump", name |-> n, trigger |-> trigger, target |-> target,
                 swept |-> {}]
           r == [status |-> "pending", trigger |-> trigger]
<1>1. /\ made \in Nat /\ n \in Names /\ made' = n /\ rows' = [rows EXCEPT ![n] = r]
      /\ proc' = [proc EXCEPT ![p] = q] /\ disk' = disk
  BY Finds DEF Begin, SetRow, Names, BackupsAssumption
<1>2. r \in Rows /\ r.status = "pending"
  BY DEF Rows
<1>3. /\ q \in ProcRow /\ q.name = n /\ q.pc = "dump"
      /\ q.trigger = trigger /\ q.target = target
  BY <1>1 DEF ProcRow, Steps, Names
<1>4. \A o \in Procs : proc'[o] = IF o = p THEN q ELSE proc[o]
  BY <1>1 DEF FileInv, BackupsTypeOK
<1> HIDE DEF q, r
<1>5. BackupsTypeOK'
  BY <1>1, <1>2, <1>3, Finds DEF FileInv, BackupsTypeOK, ProcRow, Disks, Contents, Names
<1>6. Named'
  <2>1. \A o \in Procs : proc'[o].pc # "idle" => proc'[o].name \in 1 .. n
    BY <1>1, <1>3, <1>4 DEF FileInv, Named, Busy
  <2>2. \A o \in Procs \ {p} : proc'[o].pc # "idle" => proc'[o].name # n
    BY <1>1, <1>4 DEF FileInv, Named, Busy
  <2>3. \A m \in Names : disk'[m].there => m <= n
    BY <1>1 DEF FileInv, Named, Names
  <2> QED
    BY <1>1, <1>3, <1>4, <2>1, <2>2, <2>3 DEF FileInv, Named, Busy
<1>7. ~disk[n].there
  BY <1>1 DEF FileInv, Named
<1>8. Written'
  BY <1>1, <1>3, <1>4, <1>7 DEF FileInv, Written, Own, Busy
<1>9. AllVouched'
  <2>1. \A m \in Names : InTheMaking(m)' => InTheMaking(m) \/ m > made
    BY <1>1, <1>3, <1>4 DEF InTheMaking
  <2>2. Grows
    BY <1>1, <2>1 DEF Grows, FilesStand
  <2>3. \A m \in Names : rows'[m] = IF m = n THEN r ELSE rows[m]
    BY <1>1, Finds DEF Contents
  <2>4. RowsStand
    BY <1>2, <2>3 DEF RowsStand
  <2> QED
    BY <2>2, <2>4, VouchedStays DEF FileInv
<1> QED
  BY <1>5, <1>6, <1>8, <1>9 DEF FileInv

LEMMA CrashKeeps ==
  ASSUME FileInv, BackupsAssumption, NEW w \in Workers, Crash(w) PROVE FileInv'
<1>1. /\ proc' = [proc EXCEPT ![<<w, "job">>] = Idle, ![<<w, "page">>] = Idle]
      /\ UNCHANGED <<rows, disk, made, thrown>> /\ lock' \subseteq lock
  BY DEF Crash
<1>2. Idle \in ProcRow
  BY DEF Idle, ProcRow, Steps, BackupsAssumption
<1>3. \A o \in Procs : proc'[o] = proc[o] \/ proc'[o] = Idle
  BY <1>1 DEF FileInv, BackupsTypeOK
<1>4. BackupsTypeOK'
  BY <1>1, <1>2 DEF FileInv, BackupsTypeOK, ProcRow
<1>5. \A o \in Procs : proc'[o].pc # "idle" => proc'[o] = proc[o]
  BY <1>3 DEF Idle
<1>6. Named'
  BY <1>1, <1>5 DEF FileInv, Named, Busy
<1>7. Written'
  <2> SUFFICES ASSUME NEW o \in Procs, proc'[o].pc # "idle" PROVE Own(o)'
    BY DEF Written, Own, Busy
  <2>1. proc'[o] = proc[o] /\ Own(o)
    BY <1>5 DEF FileInv, Written
  <2> QED
    BY <1>1, <2>1 DEF Own, Busy
<1>8. \A n \in Names : Finished(n) => Finished(n)'
  <2>1. \A n \in Names : InTheMaking(n)' => InTheMaking(n)
    BY <1>5 DEF InTheMaking
  <2> QED
    BY <1>1, <2>1 DEF Finished
<1>9. AllVouched'
  BY <1>1, <1>8 DEF FileInv, AllVouched, Vouched
<1> QED
  BY <1>4, <1>6, <1>7, <1>9 DEF FileInv

LEMMA AgeKeeps ==
  ASSUME FileInv, NEW n \in Names, Age(n) PROVE FileInv'
<1> DEFINE f == [disk[n] EXCEPT !.old = TRUE]
<1>1. /\ disk[n].there /\ disk' = [disk EXCEPT ![n] = f]
      /\ UNCHANGED <<rows, made, lock, thrown, proc>>
  BY DEF Age
<1>2. disk[n] \in Files
  BY <1>1 DEF FileInv, BackupsTypeOK, NoFile
<1>3. /\ f \in Files /\ f.there /\ f.whole = disk[n].whole /\ f.dump = disk[n].dump
  BY <1>2 DEF Files
<1> HIDE DEF f
<1>4. \A m \in Names : disk'[m] = IF m = n THEN f ELSE disk[m]
  BY <1>1 DEF FileInv, BackupsTypeOK
<1>5. BackupsTypeOK'
  BY <1>1, <1>3 DEF FileInv, BackupsTypeOK
<1>6. \A p \in Procs : Busy(p) => disk'[proc[p].name] = disk[proc[p].name]
  BY <1>4, Finds DEF Age, InUse, Busy, Idle
<1>7. Named'
  BY <1>1, <1>4 DEF FileInv, Named, Busy
<1>8. Written'
  BY <1>1, <1>6 DEF FileInv, Written, Own, Busy
<1>9. \A m \in Names : Finished(m) => Finished(m)'
  BY <1>1, <1>3, <1>4 DEF Finished, InTheMaking
<1>10. AllVouched'
  BY <1>1, <1>3, <1>4, <1>9 DEF FileInv, AllVouched, Vouched
<1> QED
  BY <1>5, <1>7, <1>8, <1>10 DEF FileInv

-----------------------------------------------------------------------------
LEMMA BeginnersKeep ==
  ASSUME FileInv, BackupsAssumption, NEW w \in Workers,
         Tick(w) \/ CreateNow(w) \/ \E n \in Names : Restore(w, n)
  PROVE  FileInv'
<1>1. <<w, "job">> \in Procs /\ <<w, "page">> \in Procs
  BY DEF Procs
<1>2. 0 \in 0 .. Backups /\ Names \subseteq 0 .. Backups /\ 0 \notin Names
  BY DEF Names, BackupsAssumption
<1>3. lock \in SUBSET Connections /\ thrown \in BOOLEAN
  BY <1>1, Finds
<1>4. CASE Tick(w)
  <2>1. /\ Begin(<<w, "job">>, "scheduled", 0) /\ proc[<<w, "job">>].pc = "idle"
        /\ thrown' = thrown
    BY <1>4 DEF Tick, At
  <2>2. lock' \in SUBSET Connections
    BY <1>4 DEF Tick, Connections
  <2>3. thrown' \in BOOLEAN
    BY <1>3, <2>1, Zenon
  <2> QED
    BY <1>1, <1>2, <2>1, <2>2, <2>3, BeginKeeps DEF Triggers
<1>5. CASE CreateNow(w)
  <2>1. /\ Begin(<<w, "page">>, "manual", 0) /\ proc[<<w, "page">>].pc = "idle"
        /\ lock' = lock /\ thrown' = thrown
    BY <1>5 DEF CreateNow, At
  <2>2. lock' \in SUBSET Connections /\ thrown' \in BOOLEAN
    BY <1>3, <2>1, Zenon
  <2> QED
    BY <1>1, <1>2, <2>1, <2>2, BeginKeeps DEF Triggers
<1>6. ASSUME NEW n \in Names, Restore(w, n) PROVE FileInv'
  <2>1. /\ Begin(<<w, "page">>, "pre_restore", n) /\ proc[<<w, "page">>].pc = "idle"
        /\ lock' = lock /\ thrown' = thrown
    BY <1>6 DEF Restore, At
  <2>2. lock' \in SUBSET Connections /\ thrown' \in BOOLEAN
    BY <1>3, <2>1, Zenon
  <2> QED
    BY <1>1, <1>2, <2>1, <2>2, BeginKeeps DEF Triggers
<1> QED
  BY <1>4, <1>5, <1>6

LEMMA EndersKeep ==
  ASSUME FileInv, BackupsAssumption, NEW w \in Workers,
         JobEnds(w) \/ PageEnds(w) \/ Load(w) \/ LoadFails(w)
  PROVE  FileInv'
<1>1. <<w, "job">> \in Procs /\ <<w, "page">> \in Procs
  BY DEF Procs
<1>2. thrown \in BOOLEAN
  BY <1>1, Finds
<1>3. CASE JobEnds(w)
  <2>1. /\ proc[<<w, "job">>].pc = "end" /\ lock' \subseteq lock
        /\ proc' = [proc EXCEPT ![<<w, "job">>] = Idle]
        /\ UNCHANGED <<rows, disk, made, thrown>>
    BY <1>3 DEF JobEnds, At
  <2>2. thrown' \in BOOLEAN
    BY <1>2, <2>1, Zenon
  <2> QED
    BY <1>1, <2>1, <2>2, EndKeeps
<1>4. CASE PageEnds(w)
  <2>1. /\ proc[<<w, "page">>].pc = "end"
        /\ proc' = [proc EXCEPT ![<<w, "page">>] = Idle]
        /\ UNCHANGED <<rows, disk, made, lock, thrown>>
    BY <1>4 DEF PageEnds, At
  <2>2. thrown' \in BOOLEAN
    BY <1>2, <2>1, Zenon
  <2> QED
    BY <1>1, <2>1, <2>2, EndKeeps
<1>5. CASE Load(w)
  <2> DEFINE k == proc[<<w, "page">>].target
  <2>1. /\ proc[<<w, "page">>].pc = "load" /\ disk[k].there
        /\ Part(rows', disk[k].dump)
        /\ Go(<<w, "page">>, "end") /\ lock' \subseteq lock /\ thrown' = TRUE
        /\ UNCHANGED <<disk, made>>
    BY <1>5 DEF Load, At, Dispose, Part
  <2>2. k \in Names
    BY <1>1, <2>1, Finds DEF Own, Busy, ProcRow, Names, BackupsAssumption
  <2> QED
    BY <1>1, <2>1, <2>2, EndKeeps
<1>6. CASE LoadFails(w)
  <2>1. /\ proc[<<w, "page">>].pc = "load" /\ Go(<<w, "page">>, "end")
        /\ lock' \subseteq lock /\ thrown' = TRUE /\ UNCHANGED <<rows, disk, made>>
    BY <1>6 DEF LoadFails, At, Dispose
  <2> QED
    BY <1>1, <2>1, EndKeeps
<1> QED
  BY <1>3, <1>4, <1>5, <1>6

LEMMA FileStep ==
  ASSUME FileInv, BackupsAssumption, [Next]_vars PROVE FileInv'
<1>1. ASSUME NEW p \in Procs,
             \/ Dump(p) \/ Dumped(p) \/ Fails(p) \/ Unlink(p) \/ Succeeds(p)
             \/ Breaks(p) \/ Sweep(p) \/ Forget(p)
      PROVE  FileInv'
  BY <1>1, DumpKeeps, DumpedKeeps, FailsKeeps, UnlinkKeeps, SucceedsKeeps,
     BreaksKeeps, SweepKeeps, ForgetKeeps
<1>2. ASSUME NEW w \in Workers,
             \/ Tick(w) \/ JobEnds(w) \/ CreateNow(w) \/ PageEnds(w) \/ Crash(w)
             \/ Load(w) \/ LoadFails(w) \/ \E n \in Names : Restore(w, n)
      PROVE  FileInv'
  BY <1>2, BeginnersKeep, EndersKeep, CrashKeeps
<1>3. ASSUME NEW n \in Names, Age(n) PROVE FileInv'
  BY <1>3, AgeKeeps
<1>4. CASE UNCHANGED vars
  BY <1>4 DEF vars, FileInv, BackupsTypeOK, Named, Busy, Written, Own, AllVouched,
     Vouched, Finished, InTheMaking
<1> QED
  BY <1>1, <1>2, <1>3, <1>4 DEF Next

-----------------------------------------------------------------------------
(* Until a restore throws connections away, a connection of the worker     *)
(* whose nightly job runs holds the lock.                                  *)
LockInv ==
  ~thrown => \A w \in Workers :
    proc[<<w, "job">>].pc # "idle" => \E c \in Pool : lock = {<<w, c>>}

LEMMA LockStep ==
  ASSUME BackupsTypeOK, LockInv, [Next]_vars PROVE LockInv'
<1>1. ASSUME NEW p \in Procs,
             \/ Dump(p) \/ Dumped(p) \/ Fails(p) \/ Unlink(p) \/ Succeeds(p)
             \/ Breaks(p) \/ Sweep(p) \/ Forget(p)
      PROVE  LockInv'
  <2>1. /\ lock' = lock /\ thrown' = thrown /\ proc[p].pc # "idle"
        /\ \A o \in Procs : o # p => proc'[o] = proc[o]
    BY <1>1 DEF Dump, Dumped, Fails, Unlink, Succeeds, Breaks, Sweep, Forget, At, Go,
       BackupsTypeOK
  <2> QED
    BY <2>1 DEF LockInv, Procs
<1>2. ASSUME NEW w \in Workers, Tick(w) PROVE LockInv'
  <2>1. PICK c \in Pool : lock \subseteq {<<w, c>>} /\ lock' = {<<w, c>>}
    BY <1>2 DEF Tick
  <2>2. /\ thrown' = thrown /\ proc[<<w, "job">>].pc = "idle"
        /\ \A v \in Workers : v # w => proc'[<<v, "job">>] = proc[<<v, "job">>]
    BY <1>2 DEF Tick, Begin, At, Procs, BackupsTypeOK
  <2> QED
    BY <2>1, <2>2 DEF LockInv
<1>3. ASSUME NEW w \in Workers, JobEnds(w) PROVE LockInv'
  <2>1. PICK c \in Pool : lock' = lock \ {<<w, c>>}
    BY <1>3 DEF JobEnds
  <2>2. /\ thrown' = thrown /\ proc[<<w, "job">>].pc # "idle"
        /\ proc'[<<w, "job">>].pc = "idle"
        /\ \A v \in Workers : v # w => proc'[<<v, "job">>] = proc[<<v, "job">>]
    BY <1>3 DEF JobEnds, At, Procs, BackupsTypeOK, Idle
  <2> QED
    BY <2>1, <2>2 DEF LockInv
<1>4. ASSUME NEW w \in Workers,
             CreateNow(w) \/ PageEnds(w) \/ \E n \in Names : Restore(w, n)
      PROVE  LockInv'
  <2>1. /\ lock' = lock /\ thrown' = thrown
        /\ \A v \in Workers : proc'[<<v, "job">>] = proc[<<v, "job">>]
    BY <1>4 DEF CreateNow, PageEnds, Restore, Begin, Procs, BackupsTypeOK
  <2> QED
    BY <2>1 DEF LockInv
<1>5. ASSUME NEW w \in Workers, Load(w) \/ LoadFails(w) PROVE LockInv'
  BY <1>5 DEF Load, LoadFails, Dispose, LockInv
<1>6. ASSUME NEW w \in Workers, Crash(w) PROVE LockInv'
  <2>1. /\ lock' = lock \ ({w} \X Pool) /\ thrown' = thrown
        /\ proc'[<<w, "job">>].pc = "idle"
        /\ \A v \in Workers : v # w => proc'[<<v, "job">>] = proc[<<v, "job">>]
    BY <1>6 DEF Crash, Procs, BackupsTypeOK, Idle
  <2> QED
    BY <2>1 DEF LockInv
<1>7. ASSUME NEW n \in Names, Age(n) PROVE LockInv'
  BY <1>7 DEF Age, LockInv
<1>8. CASE UNCHANGED vars
  BY <1>8 DEF vars, LockInv
<1> QED
  BY <1>1, <1>2, <1>3, <1>4, <1>5, <1>6, <1>7, <1>8 DEF Next

LEMMA AtMostOneJob == LockInv => OneNightlyDump
<1> SUFFICES ASSUME LockInv, ~thrown
             PROVE  Cardinality({w \in Workers : ~At(<<w, "job">>, "idle")}) <= 1
  BY DEF OneNightlyDump
<1> DEFINE W == {w \in Workers : ~At(<<w, "job">>, "idle")}
<1>1. ASSUME NEW v \in W, NEW w \in W PROVE v = w
  <2>1. PICK c \in Pool : lock = {<<v, c>>}
    BY DEF LockInv, At
  <2>2. PICK d \in Pool : lock = {<<w, d>>}
    BY DEF LockInv, At
  <2>3. <<v, c>> = <<w, d>>
    BY <2>1, <2>2, Zenon
  <2> QED
    BY <2>3
<1>2. CASE W = {}
  <2> HIDE DEF W
  <2>1. Cardinality(W) = 0
    BY <1>2, FS_EmptySet
  <2> QED
    BY <2>1 DEF W
<1>3. CASE W # {}
  <2>1. PICK w \in W : TRUE
    BY <1>3
  <2>2. W = {w}
    BY <1>1, <2>1
  <2> HIDE DEF W
  <2>3. Cardinality(W) = 1
    BY <2>2, FS_Singleton
  <2> QED
    BY <2>3 DEF W
<1> QED
  BY <1>2, <1>3

-----------------------------------------------------------------------------
(* Every variable of Backups keeps its type.                               *)
THEOREM TypeCorrect ==
  ASSUME BackupsAssumption
  PROVE  Spec => []BackupsTypeOK
<1>1. Init => FileInv
  BY InitFiles
<1>2. FileInv /\ [Next]_vars => FileInv'
  BY FileStep
<1>3. FileInv => BackupsTypeOK
  BY DEF FileInv
<1> QED
  BY <1>1, <1>2, <1>3, PTL DEF Spec

(* A row that says "success" has no half-finished file, whatever fails,    *)
(* dies, is pruned or restored, and two nightly dumps never run at once    *)
(* until a restore throws connections away (create_backup, restore_backup, *)
(* _scheduled_backup_job).                                                 *)
THEOREM SoundBackups ==
  ASSUME BackupsAssumption
  PROVE  Spec => []BackupsAreSound
<1>1. Init => FileInv /\ LockInv
  BY InitFiles DEF Init, LockInv, Idle, Procs
<1>2. FileInv /\ LockInv /\ [Next]_vars => FileInv' /\ LockInv'
  BY FileStep, LockStep DEF FileInv
<1>3. FileInv /\ LockInv => BackupsAreSound
  BY AtMostOneJob DEF FileInv, AllVouched, Vouched, Finished, BackupsAreSound,
     SuccessIsWhole
<1> QED
  BY <1>1, <1>2, <1>3, PTL DEF Spec

(* The database is replaced only when a complete copy of it, made by the   *)
(* same restore, is on disk and is kept (restore_backup).                  *)
THEOREM CopyBeforeLoad ==
  ASSUME BackupsAssumption
  PROVE  Spec => SafeCopyFirst
<1>1. Init => FileInv
  BY InitFiles
<1>2. FileInv /\ [Next]_vars => FileInv'
  BY FileStep
<1>3. FileInv => [\A w \in Workers :
        Load(w) => LET copy == disk[proc[<<w, "page">>].name]
                   IN copy.there /\ copy.whole /\ copy.safe /\ ~copy.old]_vars
  <2> SUFFICES ASSUME FileInv, NEW w \in Workers, Load(w)
               PROVE  LET copy == disk[proc[<<w, "page">>].name]
                      IN copy.there /\ copy.whole /\ copy.safe /\ ~copy.old
    OBVIOUS
  <2>1. Own(<<w, "page">>)
    BY DEF FileInv, Written, Procs
  <2> QED
    BY <2>1 DEF Own, Busy, Load, At
<1> QED
  BY <1>1, <1>2, <1>3, PTL DEF Spec, SafeCopyFirst
=============================================================================
