------------------------------- MODULE Lists -------------------------------
(* The lists of an organization's rows (guests, reservations, invoices,    *)
(* leases, properties, requests, payments, audit events): their pages,     *)
(* filters, exports and the searches, in admin/services.py and             *)
(* admin/routes.py, api/routes.py and the *_paginated functions of the     *)
(* services.                                                               *)
(*                                                                         *)
(* A list is read page by page with OFFSET and LIMIT, each page by a       *)
(* request of its own, while rows are added and edited.  A page counts and *)
(* reads in one step; an export does so in two.                            *)
(*                                                                         *)
(* Left out: what a row holds apart from a date, a status and the words it *)
(* is found by.                                                            *)
EXTENDS Integers, FiniteSets, SequencesExt

CONSTANTS
  MaxRows,    \* bound: rows that are ever there
  Rows,       \* bound: what rows may be like
  Users,
  PageSize,   \* rows of a page
  Cap,        \* rows an export may have (10000)
  Limit       \* results a search shows (20)

VARIABLES
  row,      \* the rows, by id: ids are given in ascending order
  reader,   \* someone who turns the pages of a list
  export,   \* an export that has counted its rows; not while pages are turned
  saved     \* the saved filter of each user

vars == <<row, reader, export, saved>>

Statuses == {"open", "done"}
Orders   == {"newest", "oldest", "latest", "earliest"}
Filters  == Statuses \cup {"any"}

(* kind: the type under which the search lists it; found: by its own       *)
(* words; tags: how many of its tags match.                                *)
RowKinds == {"guest", "reservation", "invoice"}
Row == [day : Nat, status : Statuses, kind : RowKinds,
        found : BOOLEAN, tags : 0 .. 1]
ListsAssumption ==
  /\ MaxRows \in Nat /\ Rows \subseteq Row
  /\ PageSize \in Nat \ {0} /\ Cap \in Nat /\ Limit \in Nat

Ids == 1 .. Len(row)

(* quiet: no row was edited, still: nor added since the first page.        *)
View   == [order : Orders, filter : Filters]
NoView == [order |-> "none"]
NoExport == [count |-> -1]

Init == /\ row = <<>> /\ reader = NoView /\ export = NoExport
        /\ saved = [u \in Users |-> "none"]

-----------------------------------------------------------------------------
Matching(v) == {i \in Ids : v.filter = "any" \/ row[i].status = v.filter}

(* By date, and rows of one date by id, newest first; or by id alone.      *)
Precedes(order, i, j) ==
  CASE order = "newest" -> i > j
    [] order = "oldest" -> i < j
    [] order = "latest" ->
         \/ row[i].day > row[j].day
         \/ row[i].day = row[j].day /\ i > j
    [] order = "earliest" ->
         \/ row[i].day < row[j].day
         \/ row[i].day = row[j].day /\ i > j

(* ORDER BY: each row has the place after those that precede it.           *)
Before(order, S, i) == {j \in S : Precedes(order, j, i)}
InOrder(order, S) ==
  [k \in 1 .. Cardinality(S) |->
     CHOOSE i \in S : Cardinality(Before(order, S, i)) = k - 1]

(* list_admin_guests, list_admin_reservations, list_admin_invoices.        *)
Listed(v) == InOrder(v.order, Matching(v))

Least(a, b) == IF a < b THEN a ELSE b

(* Seeded fault: the offset is that of the next page's last row.           *)
PageOffByOne(v, page) ==
  SubSeq(Listed(v), (page - 1) * PageSize + 1 + (page - 1),
         Least(page * PageSize + (page - 1), Len(Listed(v))))

(* OFFSET (page - 1) * per_page LIMIT per_page.                            *)
Page(v, page) ==
  SubSeq(Listed(v), (page - 1) * PageSize + 1, Least(page * PageSize, Len(Listed(v))))

HasNext(v, page) == page * PageSize < Cardinality(Matching(v))

-----------------------------------------------------------------------------
(* The rows change under the reader.                                       *)
Disturbed(edited) ==
  reader' = IF reader = NoView THEN NoView
            ELSE [reader EXCEPT !.still = FALSE, !.quiet = @ /\ ~edited]

Add ==
  /\ Len(row) < MaxRows
  /\ \E r \in Rows : row' = Append(row, r)
  /\ Disturbed(FALSE) /\ UNCHANGED <<export, saved>>

Edit ==
  /\ \E i \in Ids, r \in Rows :
       /\ r.kind = row[i].kind /\ r # row[i] /\ row' = [row EXCEPT ![i] = r]
  /\ Disturbed(TRUE) /\ UNCHANGED <<export, saved>>

(* The first page of a list, as asked for or as a saved filter has it.     *)
OpenList(v) ==
  /\ export = NoExport
  /\ reader' = [order |-> v.order, filter |-> v.filter, page |-> 1,
                first |-> Matching(v), seen |-> Page(v, 1),
                still |-> TRUE, quiet |-> TRUE, end |-> ~HasNext(v, 1)]
  /\ UNCHANGED <<row, export, saved>>

TurnPage ==
  /\ reader # NoView /\ ~reader.end
  /\ LET n == reader.page + 1 IN
       reader' = [reader EXCEPT !.page = n, !.seen = @ \o Page(reader, n),
                                !.end = ~HasNext(reader, n)]
  /\ UNCHANGED <<row, export, saved>>

CloseList ==
  /\ reader # NoView /\ reader' = NoView /\ UNCHANGED <<row, export, saved>>

(* create_saved_filter, delete_saved_filter: those of the user's own.      *)
SaveFilter(u, f) ==
  /\ saved' = [saved EXCEPT ![u] = f] /\ UNCHANGED <<row, reader, export>>

DropFilter(u) ==
  /\ saved[u] # "none" /\ saved' = [saved EXCEPT ![u] = "none"]
  /\ UNCHANGED <<row, reader, export>>

OpenSaved(u) ==
  saved[u] # "none" /\ OpenList([order |-> "newest", filter |-> saved[u]])

(* Seeded fault: the count ignores the filter.                             *)
CountAllRows(v) ==
  /\ export = NoExport /\ reader = NoView
  /\ export' = [order |-> v.order, filter |-> v.filter,
                count |-> Len(row), rows |-> Matching(v)]
  /\ UNCHANGED <<row, reader, saved>>

(* resource_export: the count, then at most Cap rows; more are "queued",   *)
(* which means that there is no file.                                      *)
CountRows(v) ==
  /\ export = NoExport /\ reader = NoView
  /\ export' = [order |-> v.order, filter |-> v.filter,
                count |-> Cardinality(Matching(v)), rows |-> Matching(v)]
  /\ UNCHANGED <<row, reader, saved>>

FileOf(e) == SubSeq(Listed(e), 1, Least(Cap, Len(Listed(e))))

WriteFile ==
  /\ export # NoExport /\ export' = NoExport /\ UNCHANGED <<row, reader, saved>>

AdminLists ==
  \/ \E o \in Orders, f \in Filters : OpenList([order |-> o, filter |-> f])
  \/ TurnPage \/ CloseList

(* audit_events_api: pages by date, and events of one time by id.          *)
AuditPage ==
  \/ \E f \in Filters : OpenList([order |-> "latest", filter |-> f])
  \/ TurnPage

ApiLists == \E f \in Filters : OpenList([order |-> "oldest", filter |-> f])
FilterPages ==
  \E u \in Users : \/ DropFilter(u) \/ OpenSaved(u)
                   \/ \E f \in Filters : SaveFilter(u, f)
ExportPage ==
  \/ \E o \in Orders, f \in Filters : CountRows([order |-> o, filter |-> f])
  \/ WriteFile

Next ==
  \/ Add \/ Edit
  \/ AdminLists \/ AuditPage \/ ApiLists \/ FilterPages \/ ExportPage

Spec == Init /\ [][Next]_vars

-----------------------------------------------------------------------------
(* The searches, newest first, at most Limit of each query and of all.     *)
Newest(S) == InOrder("newest", S)
Cut(s) == SubSeq(s, 1, Least(Limit, Len(s)))
Of(kind) == {i \in Ids : row[i].kind = kind}
Own(kind) == Cut(Newest({i \in Of(kind) : row[i].found}))
Tagged(kind) == Cut(Newest({i \in Of(kind) : row[i].tags > 0}))
(* Found by a tag and not listed yet.                                      *)
Further(kind) == Newest(ToSet(Tagged(kind)) \ ToSet(Own(kind)))

(* search_all_resources: guests are also found by a tag.                   *)
Search ==
  Cut(Own("guest") \o Further("guest") \o Own("reservation") \o Own("invoice"))

(* api_search: reservations too, and rows found by a tag come later.       *)
ApiSearch ==
  Cut(Own("guest") \o Own("reservation") \o Further("guest")
      \o Further("reservation") \o Own("invoice"))

Hits(tagged) ==
  {i \in Ids : row[i].found \/ (row[i].kind \in tagged /\ row[i].tags > 0)}

-----------------------------------------------------------------------------
ListsTypeOK ==
  /\ row \in Seq(Rows) /\ Len(row) <= MaxRows
  /\ saved \in [Users -> Filters \cup {"none"}]
  /\ reader # NoView =>
       /\ reader.order \in Orders /\ reader.filter \in Filters
       /\ reader.first \cup ToSet(reader.seen) \subseteq Ids
  /\ export # NoExport => export.count = Cardinality(export.rows)

(* Who turns the pages to the end has seen every row that was in the list  *)
(* at the beginning, unless one was edited, however many were added        *)
(* meanwhile, in each of the orders; and has seen none of them twice if    *)
(* none was added (the queries with offset and limit).                     *)
PagesAreWhole ==
  reader # NoView /\ reader.end =>
    /\ reader.quiet => reader.first \subseteq ToSet(reader.seen)
    /\ reader.still => IsInjective(reader.seen)

(* A file that is written has all the rows that were counted, unless rows  *)
(* came or changed in between (resource_export).                           *)
ExportIsWhole ==
  export # NoExport /\ export.count <= Cap /\ export.rows = Matching(export) =>
    ToSet(FileOf(export)) = export.rows

(* A search that shows fewer than Limit results shows all there are, each  *)
(* of them once: on the page and through the API.  (Each row has at most   *)
(* one tag that matches; one with several takes the places of others.)     *)
ShowsAll(results, hits) ==
  /\ IsInjective(results) /\ ToSet(results) \subseteq hits
  /\ Len(results) < Limit => ToSet(results) = hits
SearchShowsAll ==
  /\ ShowsAll(Search, Hits({"guest"}))
  /\ ShowsAll(ApiSearch, Hits({"guest", "reservation"}))
=============================================================================
