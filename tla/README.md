# Pin PMS in TLA+

Models, model checking and proofs for the property-management system in this
repository: a Flask application (`src/app/`) over SQLAlchemy and PostgreSQL,
served by gunicorn workers and accompanied by APScheduler threads that run the
periodic jobs.

- `tlc -workers 2 -config X.cfg M` checks module `M` under `X.cfg`; the runs are
  listed in `PROJECT.json` with the properties each one checks.
- `tlapm M.tla` checks the proofs of a `...Proofs` module.

## 1. Inventory

### How the parts run

A request is served by one worker from start to end. What it reads and writes
is one or more database transactions at PostgreSQL's default READ COMMITTED
level: it sees whatever others have committed at each statement, and locks only
the rows it has updated or has loaded `FOR UPDATE` (which the code does in two
places, `reservations/services.py:1434` and `1540`). No table carries a version
column. SQLAlchemy writes the columns that differ from the row it loaded.

`start.sh` starts one gunicorn worker; the README's production command starts
three. With one worker requests run one after another, but the scheduler threads
still run beside them. Every property of the models is therefore checked with the
number of workers it needs, and the runs say which.

The parts meet in the database: a handler of one component calls the services
of another in its own transaction (payments → billing, reservations → access
codes), commits, and then reports to the outside (e-mail, outgoing webhooks,
the lock provider). Providers call back through `webhooks/routes.py`.

### Components

| component | state | operations | what is hard | what makes it correct |
|---|---|---|---|---|
| payments (`payments/`) | payments, refund rows, Idempotency-Keys | checkout, provider events, expiry job, refund, retry of a refund | events repeated, late and out of order; two refund events at once; a crash between the provider's answer and the commit | money taken is booked once; a received payment has a paid invoice; refunds never exceed the payment; one refund per key |
| payment providers (`payments/providers/`) | external | events, answers to refund calls | answers that are lost, refunds that stay pending | ids that match the rows |
| invoices (`billing/`) | invoice status, `paid_at` | create, mark paid, cancel, overdue job | four writers of one status without a lock | with one worker `paid` and `cancelled` are final, but for what the overdue job has loaded |
| leases, templates (`billing/`) | lease status, signing token, cycle invoices, default template | send for signing, sign, activate, end, cancel, invoice by hand, billing job; create, edit, choose, delete a template | check-then-create without a unique constraint; a token that outlives the lease; a bulk UPDATE beside rows already loaded | one invoice of the job per lease and period; only a live lease is signed; one default template |
| reservations (`reservations/`) | reservation rows | create, update, move, resize, cancel, mark paid | overlap check and commit are apart; stale rows are written back | no night of a unit belongs to two stays |
| access codes, check-in (`portal/`) | access codes, check-in links, registrations | issue, revoke, expiry job, complete check-in | two systems (database, lock) with no common transaction; failures in a batch | a revoked code is dead if the provider can be asked; an expired one is revoked; a check-in rests on a code |
| lock integration (`integrations/pindora_lock/`) | external | provision, revoke | the call's answer can be lost | - |
| idempotency (`idempotency/`) | keys with stored answers | `get_or_create`, `record_response`, expiry, prune; the bulk form, which goes on under its key | the key is committed by the view's own commit; repeats at once; failures before and after it | one effect while the key lives; a replayed answer is true |
| inbound webhooks (`webhooks/`) | event rows and their keys | receive, handle, stale-event job | repeated events; a handler past its deadline; job and request on one event | what is on record as processed was handled; an accepted event comes to an end |
| outbound webhooks (`webhooks/`) | subscriptions, deliveries, the pool's queue | subscribe, deactivate, publish, test event, retry job | a count of failures read before a POST and written after it; a queue in memory | a delivery is given up only with its subscription; the limit disables; what arrived is not sent again; a disabled subscription comes to rest |
| e-mail queue (`email/`) | queue rows | enqueue, send job, retry and cancel buttons | send without a lock; a stop between `sending` and the result | a sent mail is not sent again; every mail is sent, failed or cancelled in the end |
| calendar import (`integrations/ical/`) | feeds, imported events | fetch, delete and insert, publish, conflicts | a failure between the fetch and the commit; the job and the button on one feed; events without an end | fetches come and go whole, and mix only if two overlap; a conflict is a shared night |
| owners, payouts (`owners/`) | payout rows | generate, queue the mail, mark sent | three transactions; generating again resets the status; the ends of months and assignments; rounding | every night is paid for once; gross less fee is net |
| auth (`auth/`), guest login (`portal/`) | login attempts, reset links, magic links, mailed codes, backup codes | look up, use, clean up, set up | looking a token up and marking it are apart; the audit row can take the transaction with it; logins that overlap | guesses are limited; a token works until it is spent, and once |
| backups (`backups/`) | dump files, backup rows, an advisory lock | create, prune, restore, nightly job | steps outside any transaction; a restore replaces the table of the backups itself; the lock belongs to a connection of a pool | a success is a whole dump; a restore is preceded by a copy of what it replaces; one nightly dump |
| maintenance (`maintenance/`) | requests | create, edit by form and by the API, assign, close | forms that show an old state; edits of single fields | the unit belongs to the property |
| booking wizard (`admin/`) | the session cookie | four pages, booking | two windows of one browser: the last answer wins | what is booked fits together and is free |
| calendar views (`properties/`, `reservations/`, `admin/`, `reports/`) | - | unit states, matrix, quick look-up, dashboard, occupancy | comparisons of dates written in five places | they tell one calendar |
| reports (`reports/`, `admin/`) | invoices, expenses | cash flow, breakdowns, aging, forecast | five queries and two filters over one period; the bounds of months; an invoice's property by its lease or its stay | the sums agree, the profit's never more |
| lists, searches, exports (`admin/`, `api/`) | rows, saved filters | turn pages, search, export | rows added between two pages; counting and reading apart | nobody misses a row |
| properties, units, images (`properties/`, `storage/`) | rows and files | upload, reorder, delete | files are written before and removed before the row | what is shown is there |
| users, guests, tags, comments, notifications, GDPR | rows, two sequences | create, move, label, mention, erase | a guest with a user's number; an erasure in two commits | labels stay within an organization |
| settings (`settings/`) | values as text | set, edit by form, mask, reveal, seed | a value goes through text, type, form and mask and comes back | what is sent as it was shown changes nothing, but for the quotes of a secret JSON string |
| audit, status, API keys, HTML, JavaScript, configuration | single rows | create, list, delete | little: one row, one statement | - |

`PROJECT.json` lists every component with its files and its status, and every
hazard of the code at its line, with the properties that would catch it.

## 2. Modules

| module | models | proofs |
|---|---|---|
| `InvoiceLifecycle` | abstract: the successors of each invoice status, and the one exception | |
| `Payments` | `payments/services.py`, the status changes of `billing/services.py`, what the provider may send | `PaymentsProofs` |
| `MCPayments` | instances of `Payments` for TLC | |
| `UnitCalendar` | abstract: which stay owns which night of a unit | |
| `Stays` | `reservations/services.py` with the access codes and the check-in of `portal/services.py` | `StaysProofs` |
| `MCStays` | `Stays` with the symmetry of its workers and of its reservations | |
| `OutboundWebhooks` | `webhooks/publisher.py`, `dispatch`, `retry_pending_deliveries` and the subscriptions of `webhooks/services.py` | `OutboundWebhooksProofs` |
| `EmailQueue` | `email/scheduler.py`, `send_template`, the buttons of the administration pages | |
| `MCQueues` | the two queues side by side | `EmailQueueProofs` |
| `Leases` | leases, signing and the billing job of `billing/services.py` | |
| `LeaseTemplates` | the lease templates of `billing/services.py` | |
| `Payouts` | `owners/services.py`, its job and its commands | |
| `CalendarImport` | `integrations/ical/` | |
| `Maintenance` | `maintenance/services.py` with its pages and routes | |
| `Wizard` | the booking wizard of `admin/routes.py` and `reservations/services.py` | |
| `MCContracts` | the six modules above side by side | `ContractsProofs` |
| `Idempotency` | `idempotency/` and the bulk form of `admin/routes.py` | |
| `InboundWebhooks` | `webhooks/routes.py`, the events of `webhooks/services.py`, `webhooks/scheduler.py` | |
| `Lockout` | `authenticate_user` | |
| `SignIn` | links and codes of `auth/` and `portal/`, `cleanup-expired-tokens` | |
| `MCRepeats` | the four modules above side by side | `RepeatsProofs` |
| `Backups` | `backups/services.py`, `scheduler.py`, `routes.py` and its commands | `BackupsProofs` |
| `CalendarViews` | every view of the calendar, against the nights that are booked | |
| `Reports` | `reports/services.py`, the dashboard's sums | |
| `Lists` | lists, searches, filters and exports | |
| `Gallery` | properties, units and pictures with their files | |
| `People` | users, guests, tags, comments, notifications, erasure | |
| `Settings` | `settings/services.py` with its forms and command | |
| `MCPlatform` | the seven modules above side by side | `PlatformProofs` |

`Payments` composes payments, invoices and the provider; `Stays` composes
reservations, access codes, check-in links and the lock provider. The two meet
in the code only through the invoice a stay may be billed on, which neither
reads the other's status for, so they are separate modules. The outgoing queues
take messages from every other part and answer none. The modules that a MC module
puts side by side share no state in the code either, or only rows that the one
appends and the other reads (a report reads invoices, whose writers are in
`Payments`; `Reports` has its own, simpler writers). A behaviour of all of them
is therefore a behaviour of each, and the MC module checks them in one run, in which
a variable `part` that never changes says which of them moves. The proofs are about the
same composition: a step of the whole is a step of one part and leaves the others
(`StepOfAPart`), so the inductive invariants of the parts hold together (`AllInv`).

They follow one pattern. `req[t]` (`clerk`, `dlv`, `proc` where a module has a
better word) is what worker or scheduler thread `t` is doing;
a request is split into one action per point at which another transaction can
commit in between: what it has read and validated, the locks it has taken,
the provider's answer, its commit. `Crash(t)` ends it anywhere and loses what was
not committed. Each definition that is named in a mutant of `PROJECT.json` is
preceded by a variant marked "Seeded fault": the definition as a plausible bug would
have it. No specification uses them; they serve to check that the property
would notice.

### Payments

| state | code |
|---|---|
| `invoice`, `paidAt` | `Invoice.status`, `Invoice.paid_at` |
| `payment` | `Payment.status`, `"none"` before the row exists |
| `refund`, `refundSeq` | rows of `payment_refunds` with amount, key and provider id |
| `captured`, `events` | the provider: money it has taken, events it may deliver, any number of times |
| `req` | requests and jobs in progress |

The actions are the operations of `create_checkout_session`,
`handle_webhook_event` (settle, fail, refund event), `expire_old_pending_payments`,
`refund_payment`, `retry_refund`, `create_invoice`, `mark_invoice_paid`,
`cancel_invoice`, `mark_overdue_invoices`, and the provider's own. `map` gives the
lines. Amounts are whole cents up to `MaxAmount`.

### Stays

| state | code |
|---|---|
| `resv` | reservation rows: status, unit, start, end, payment status |
| `code` | `access_codes` rows, by the code they stand for; `"issued"` and `"lost"` are codes at the provider without a committed row |
| `live` | the provider: codes that open a door now |
| `checkin` | the check-in link of a reservation |
| `today` | the date, in the time of the revocation job |
| `req` | requests and jobs in progress |

`CreateRead`/`CreateCommit`, `Update`, `Move`, `Resize`, `Cancel` and `MarkPaid` read
and validate; `Save` is the commit of the last five, and writes only the changed
columns. `IssueCall`/`IssueCommit` issue a code after a creation or inside a
check-in, `RevokeRead`, `Revoke`, `RevokeFails`, `RevokeCommit` revoke the codes of
a stay, `ExpireRead` starts the same loop in the job. The loop asks the provider only about
a code that is `named`, that is, whose id the provider returned with it, and records the
others as revoked all the same. An exception in the loop rolls back what an edit or the job
has recorded; a cancellation catches it, and its next commit takes the codes along that
were done. A code is looked up by its Idempotency-Key alone (`KeyTaken`), over all
reservations: `Keys` has the ids of the reservations for the keys of creations, and
`PageKeys` for those that clients send with the check-in page. A row that
`move_reservation` or `resize_reservation` holds `FOR UPDATE` cannot be saved or
moved by others meanwhile.

The lock provider is modelled by its contract, since `PindoraLockClient` raises
until the vendor's interface is settled: a call is done, with or without an id, fails, or
is done and its answer lost. A code that was made but not recorded stays live for ever; no row
could be used to revoke it.

### OutboundWebhooks

| state | code |
|---|---|
| `sub` | `webhook_subscriptions`: `is_active`, `failure_count` |
| `event` | which business events have been published |
| `delivery` | `webhook_deliveries`: `"waiting"` has `next_retry_at`, `"delivered"` has `delivered_at`, `"dropped"` has neither |
| `queue` | what the publisher's thread pool has not begun |
| `req` | the round of POSTs of a worker, a pool thread or the retry job |

`Publish` is the look-up of `publish`, `SendTest` the administrator's test event,
`Take` the pool, `ReadDue` the query of `retry_pending_deliveries`. `Post` is what
`dispatch` and the retry loop do up to the call of the receiver, `Skip` what they
do with a subscription that has been disabled, `Accepted` and `Refused` the commit
afterwards: the columns that differ from what was read before the POST, so a count
that others have raised meanwhile is overwritten. `Finish` hands the subscribers
beyond the first three (`SyncMax`) to the pool. A receiver whose acceptance is
lost has refused, as far as the sender can know.

### EmailQueue

| state | code |
|---|---|
| `mail` | `outgoing_emails`: status, `attempt_count`, whether `sent_at` is set |
| `cut` | history: mails whose sending the end of a process cut short |
| `req` | the batch of a sender, the pressed button of an administrator |

`ReadBatch` is the query of `process_email_queue`; `Begin` the first commit of
`_deliver_row`, `Record` its last, with the provider's answer between them; `Retry`
and `Cancel` check the status, `Press` commits. The provider's call and the last
commit are one step: a crash between them is the crash before the answer.

### Leases, LeaseTemplates

| state | code |
|---|---|
| `lease` | `leases`: status, cycle, whether `signed_at` and `signed_token_hash` are set |
| `cycled`, `manual` | invoices of a lease with a billing period, and without |
| `today`, `req` | the date; requests and the runs of the billing job |
| `template` | `lease_templates`: which exist, and `is_default` |

`Create`, `Update`, `Activate`, `End`, `Cancel`, `SendForSigning` and `Sign` read and
validate, `Commit` writes the columns that differ. The job is `ReadActive`, then for each
lease `Pass` or `Bill` (the look-up of an invoice of the period) and `Invoice` (its
creation, which may fail). `LeaseTemplates` splits a request at the UPDATE that takes the
mark from the others and at the commit: the UPDATE waits for rows another request has
written.

### Payouts, CalendarImport

`Payouts` has one stay, one assignment and a row for each month. `Figures` is the
arithmetic of `generate_monthly_payout` in whole cents and whole fractions, with its
rounding; `Generate` commits a draft, queues the mail, `MarkSent` ends the run.
`CalendarImport` has the rows of the other site's calendar and one synchronisation for the
job and one for the page: fetch and parse, then delete and insert. `BeginDelete` is the
snapshot of the DELETE under READ COMMITTED and `Delete` the moment it has the locks; in
between it waits for another that holds rows of its snapshot. Rows the other has deleted
are gone when it goes on, rows the other has inserted it does not see (`AfterCommit`), so
two that overlap leave the rows of both. `done` is history: for each synchronisation what it
committed last and which others committed while it was replacing. `Conflicts` is `detect_conflicts`.

### Maintenance, Wizard

`Maintenance` keeps the row and what each open form shows of it; an edit by the form
sends all of it, one through the API single fields, and both go through the
normalisation of `update_maintenance_request`. `Wizard` keeps the cookie and the answers
that are under way to two windows: a page is computed from the cookie its request was sent
with, and its answer replaces whatever the cookie is by then.

### Idempotency, InboundWebhooks

| state | code |
|---|---|
| `row` | the committed row of `idempotency_keys`: without or with an answer, expired or not |
| `writer` | the request whose insert of the key is not committed; the unique index makes others wait |
| `effects`, `cancelled` | what the view or the bulk form has done |
| `key`, `event` | the key of an event, and its row in `webhook_events` |
| `dlv`, `scan` | deliveries in their handler; the event as the job has read it |
| `handled` | history: the handler has succeeded |

A view may break before its commit, which takes the key away, or after it, which leaves a
key without an answer. A handler succeeds, raises, or succeeds after its deadline.

### Lockout, SignIn

`Lockout` counts the failures on record by their age; a login reads the count, looks at
the password, commits, and after a success deletes the failures in another commit.
`SignIn` has reset links, magic links, mailed codes and backup codes in one sequence
`token`. `Find` looks one up and `Commit` marks it; `CommitUnrecorded` is the commit whose
audit row fails and takes the transaction along; `Enter` opens the session; `Cleanup` is
the command that deletes old rows in between.

### Backups

| state | code |
|---|---|
| `rows` | the table of the backups, which is part of the database a dump holds |
| `disk` | the files: the table as the dump holds it, whether it is whole, past its retention, a safe copy |
| `lock` | the advisory lock and the connection of a worker's pool that has it |
| `thrown` | history: a restore has closed a worker's connections |
| `proc` | the nightly job and the page of each worker |

`Begin` commits the row, `Dump` and `Dumped` are pg_dump, `Succeeds`, `Fails` and
`Unlink` the ends of a backup, `Sweep` and `Forget` the pruning, `Load` the restore, which
puts the dump's table in place of the present one. `Restore` takes any file that is there,
as the command does (the page offers only successes); of a dump that was cut short `Load`
may commit any part. `Tick` takes the lock on any connection
that may have it and `JobEnds` gives it back on any, as the pool decides. `Crash` ends the
worker anywhere.

### CalendarViews, Reports, Lists

These are operators first: each view, report and search is translated with the
comparisons of its own source, over stays, invoices or rows that an ordinary worker
changes step by step. The invariants compare them with each other and with a reference
(`BookedNight`, the sums over a set), in every reachable state and for every window of
days. `Lists` also has the reader who turns pages with OFFSET and LIMIT while rows are
added, and the export that counts first and reads later. An ORDER BY is the relation
`Before` of two rows; `InOrder` puts each row where as many rows come before it. In `Reports` an invoice has the
property of its lease and that of its reservation, each of which may be missing, and an
expense may have none. `Profit` is a set, since `income_map` keeps of several groups of one
property whichever the query returns last.

### Gallery, People, Settings

`Gallery` has two uploads at once; it stores, saves and unlinks a picture and its thumbnail step by step, and stops
anywhere. `People` has the two sequences, and the guest that is inserted beside a user with
the user's number. `Settings` keeps the stored text, the form as it was shown and what
came of sending it back; a JSON string is a value of its own (`Quoted`), which a secret's
form shows without its quotes.

## 3. Runs

Bounds are CONSTANTS of the modules, given in the cfg. TLC takes from a few seconds
to about three minutes for each.

| run | bounds | shows |
|---|---|---|
| `PaymentsConcurrent` | 1 invoice, 1 payment of 2 cents, 2 refund rows, 1 key, 2 workers, 1 scheduler | safety of payments under every interleaving and crash |
| `PaymentsSerial` | 2 payments of 1 invoice, 1 worker | what validation guarantees when requests do not overlap: one settlement, refunds within the payment |
| `PaymentsLiveness` | 2 payments of 1 invoice, 1 worker, 1 scheduler | money taken is booked in the end; one worker beside the scheduled jobs implements `InvoiceLifecycle` |
| `StaysSerial` | 2 reservations, 2 units, days 0-3, 1 worker, no locks | no night is booked twice; implements `UnitCalendar` |
| `StaysCodes` | 1 reservation, 1 unit with a lock, days 0-2, 2 codes, 1 worker, 1 job thread | codes under failures of the provider, answers without an id and crashes, with liveness of the revocation |
| `StaysConcurrent` | 2 reservations in 1 unit with a lock, 1 key clients may send, 1 code, 2 workers | a check-in rests on a code, also when two requests with one key race; only a stale cancellation takes a payment mark back |
| `Queues` | 2 subscriptions, 2 events, 2 failures allowed, 1 subscriber served in the request, 1 worker, 1 pool thread, 1 retry job; 2 mails, 2 attempts, 1 sender, 1 administrator | the outgoing queues under refusals, lost answers and crashes, with liveness of both |
| `Contracts` | 2 leases, monthly and one-time, days 0-2 with two-day months, 1 invoice by hand, 1 worker, 1 billing job; 3 templates; 2 months of 2 days, prices 3 and 5, halves; 2 synchronisations, 2 events; 2 units, 2 properties, 1 form; wizard: 2 windows, 2 bookings, 1 guest | no period is billed twice by one job; one default template; payouts add up over the months; fetches come and go whole and mix only where two overlap, and conflicts are shared nights; units fit their property |
| `Platform` | backups: 2 workers with 2 connections each, 2 backups; views: 2 units, one blocked, days 0-3, 2 stays; reports: months of 3 and 2 days, 2 invoices that belong to a property by a lease, a stay or not at all, 1 expense; lists: 3 rows, pages of 1; gallery: 2 pictures, 2 workers; people: 2 users, 1 guest, 2 organizations; settings: 1 key, all types, 2 windows | backups through crashes and restores; every view tells one calendar; the reports balance; lists miss nothing; records stay whole |
| `Repeats` | 3 requests with 2 bodies, a bulk form of 2; 2 deliveries, 2 payloads, 3 failures; lockout: 2 workers, 2 attempts, a window of 2 ticks; sign-in: 1 guest, 1 superadmin, 1 worker, 2 backup codes a set, 2 sets, 1 link, 1 lost transaction | keys, events, lockout and tokens under repeats, with liveness of an accepted event |
| `RefundRetry`, `DoubleBooking` | the smallest that show it | two disagreements between code and documentation, see findings |

Why the bounds are enough: two workers are needed and enough for a pair of
racing requests, each of which is a read followed by a write; the scheduler adds a
third actor. Two refunds of a payment of two cents are the least that can exceed
it, be partial, and be pending together. Two stays in two units over
three nights give every relation of two intervals (apart, touching, overlapping,
nested, equal), on the same and on different units. One stay with two codes has the
code of its creation and one of its check-in, and a batch of the job that fails in
the middle. `StaysSerial` has no locks and `StaysCodes` only one reservation because
codes and the calendar touch each other only through the reservation's own row.
Two subscriptions, of which one is served in the request and one by the pool, and
two events give every pair of POSTs that share a subscription's count; with a limit of
two failures a count is lost, reset, and reached.

In `Contracts`, three days with months of two give a period that is billed on its
first day, one that is skipped, and one that follows; a lease that is edited while the job
holds a batch of two is the case the look-up is for. Two months of two days let a stay
cross the end of a month and begin before the assignment does; prices that are odd and
fractions of a half make every rounding happen. Two windows and two bookings are the
least in which an answer that comes late mixes two choices. In `Platform`, two backups are
a backup and the safe copy of its restore, so that the table is taken back to before the
copy; three days let a stay cross two nights, end where another begins, and lie across a
window of one day. Pages of one row over three make every row a boundary. In `Repeats` the
third request meets a key that another has inserted and a third has lost, and the
lockout window of two ticks lets a failure leave the count while two logins are under way.
Three failures stand for the five after which an event is given up: the
first, one between, and the last.

Two invoices, one of a lease and one of a stay, are the least that make two groups of one
property. In `StaysConcurrent` the code of one guest may be found by the key of the other, or
before its row is committed; that two codes are made for one key needs a second code and is
left to the theorem. In `PaymentsLiveness` the scheduler is a run of the overdue job or of
the one that lets payments expire.

The proofs cover every other number of the parts they are about, of jobs and threads too.

`CHECK_DEADLOCK FALSE`: the system does come to rest, when the bounded ids are used
up, nothing is in progress and nothing is left to deliver.

### Fairness

- `Payments!FairSpec`: a provider repeats an event until it is answered with
  success, so the delivery of an event that stays undelivered is not put off for ever,
  and a worker that is serving a request goes on with it unless it crashes; crashes do not go
  on for ever. Nothing is assumed of clients, administrators or jobs.
- `Stays!FairSpec`: the job runs every 15 minutes (`portal/scheduler.py`), so its
  steps are weakly fair, and from some time on none of its calls fails.
  That every outage ends must be assumed in this form: one failed call rolls back
  the whole batch, so a provider that is up infinitely often is not enough. This
  is a property of the code, listed as a hazard.
- `OutboundWebhooks!Fairness`: the retry job is switched on
  (`WEBHOOK_DELIVERY_SCHEDULER_ENABLED`), goes on with its batch, and reads a
  waiting delivery again and again until it is no longer due; nothing is assumed of
  workers, of the pool or of the receivers. `EmailQueue!Fairness` says the same of
  the sender. In both the job is not cut short for ever.
- `InboundWebhooks!Fairness`: time passes and the job that looks for stale events runs
  every few minutes (`webhooks/scheduler.py`), so both are weakly fair; the job handles an
  event it reads again and again (strongly fair), that is, it does not die each time.
  Nothing is assumed of providers, of the handler's success or of the routes.

### Findings

`PROJECT.json` "findings" quotes the line of each. Two have a run that ends in a trace:

- `RefundRetry`: retrying failed refunds exceeds the payment.
- `DoubleBooking`: two workers book the same nights (one worker cannot: `StaysSerial`).

Others were met in the same way and have their property in a module, where naming it in a
cfg shows the trace:

- `Payments!PaidIsFinal` with one worker and a scheduler: an invoice that is paid after the
  overdue job has loaded it becomes overdue. One worker is enough, as the job is on by default
  and has a thread of its own; `InvoiceLifecycle` therefore allows this step and no other.
  With two workers a cancellation that read the invoice before a payment overwrites `paid`.
- `Payments!SettledInvoiceWasPaid` with `ExternalRefunds = TRUE`: a refund event before the
  payment event leaves the invoice unpaid. `Payments!PendingRefundsComplete`: a second pending
  Stripe refund is never completed, as the event carries the charge and not the refund.
- `Stays!PaidStaysPaid` with two workers: a cancellation overwrites a payment it did not
  see. `StaysConcurrent` shows that nothing else does.
- `Stays!CheckedInHasCode` with two reservations and a key in `PageKeys`: a check-in with an
  Idempotency-Key that another stay's code has is completed on that code. `StaysConcurrent`
  shows that it always rests on some code.
- `Stays!RevokedCodesAreDead` with `"nameless"` in `LockResults`: a code the provider returned
  without an id is on record as revoked and opens the door. `StaysCodes` shows that codes
  with an id do not.
- `Stays!NoCodeAfterCancellation`: the link of a cancelled reservation still yields a code.
- `Reports!ProfitIsNet` with two invoices: the profit of a property with income from leases
  and from stays leaves one of the two out. `Platform` shows that it is right where there is
  one kind, and never too high.
- `Backups!SafeCopiesAreKept`: a restore takes away the row that protected its own safe copy,
  and the next backup prunes the file, although safe copies are to be kept regardless of age.
- `Leases!ClosedIsFinal`: a signing link that is still out activates a lease that was ended
  or cancelled; `Leases!OneInvoicePerPeriod` with two billers: two processes bill a period
  twice; `LeaseTemplates!AtMostOneDefault` with two workers.
- `CalendarViews!OfferedDaysAreFree`: the quick look-up offers a unit on the day a guest
  leaves and another arrives; `People!ErasureIsItsOwn`: erasing a user overwrites a guest
  who had the number before.

The rest is read off the code; the models have the step and do not promise otherwise: the
revocation job raises `AttributeError` after its commit; the retry schedule of outgoing
webhooks differs from `docs/api/webhooks.md`; a mail that is cancelled after the
sender has read its batch is sent all the same; an audit row that cannot be written takes
the caller's uncommitted changes with it; an inbound event whose handler raised over HTTP
is not among those the stale-event job finds; choosing the default template again leaves
none; the advisory lock may be released on a connection that does not hold it; the
occupancy trend subtracts departures it has not counted; a large export is announced and
never made; generating a payout again resets a paid one to a draft; a bulk cancellation
that meets a foreign id answers 403 after it has cancelled the ones before; two
synchronisations of one feed at once leave the rows of both; a secret JSON string that is
sent back as it was shown becomes a number or a boolean; two uploads at once take one
place in the gallery; a dump that cannot be read to its end is restored in part.

## 4. Proofs

TLC checks the instances above; the theorems below hold for all values of the
constants that satisfy the assumption named with each module.

`PaymentsProofs` (from `PaymentsAssumption`):

- `TypeCorrect`: `TypeOK` is not inductive by itself, as a request remembers the id
  of a refund row across its steps. `RowInv` adds that the row is still there and
  means the same payment; every other theorem rests on it.
- `SettledOnPaidInvoices`: with `ExternalRefunds = FALSE`. A payment only counts
  as received after a settle step that wrote the invoice in the same transaction, or
  after a refund event; `PaidInv` says that whatever bears the trace of a settlement (a
  status, a refund row, a refund event, a request about a refund) is of a payment whose
  invoice was marked paid. `TraceStep`: a payment leaves its first trace by being settled.
- `IdempotentRefunds`: two committed rows never share a key, because a row is
  only committed where no other committed row has it, and a row that is still open
  belongs to exactly one request.
- `RefundStatusEarned`: the status a crediting request is about to write was computed from
  rows that have succeeded, and a row never leaves `"succeeded"`, so the sum can
  only have grown.
- `OneWorkerLifecycle` (with `OneWorker`, beside any number of job threads), for any number
  of invoices and payments and any crashes. `FreshInv` says that what a request has read of
  an invoice still holds when it commits, but for an invoice that a job had loaded and
  then made overdue; so every step is a step of `InvoiceLifecycle`, whose `loaded` is what
  the jobs have read and not written.
- `SerialSettlement` (one worker, no jobs, no refunds made elsewhere): an invoice that was
  paid stays paid, and by `TraceStep` only one payment of it is ever settled
  (`SettledOnce`). The overdue job could take an invoice out of `paid` in between, hence
  "no jobs".
- `SerialRefunds` (with `OneThread` and without the retry button): `ReservedInv` says that the
  amount a request is about to refund is still outstanding. With the button it does not
  hold: see the findings.

`StaysProofs` (from `StaysAssumption`), for any number of workers and job threads:

- `TypeCorrect`: the strengthening `StayInv` says that the reservation a request is
  about exists, that a code on its way to the table belongs to one request, and
  that codes being revoked are in the table.
- `RevokedAreDead` (of codes with an id), `CheckInsRestOnCodes`: `CodeInv` adds what a request
  has achieved at the provider (the named codes it has revoked are not live) and what it has
  seen (a code of the stay, or with the key of the request, is committed). `CodeStep` collects what every step does with the codes, so
  that the invariant is proved once and `CodeStep` once per action.
- `OnlyAStaleCancelUnpays`: an edit, a move or a mark of payment never writes the payment
  column back from an old row, because `Save` writes only what differs (`Written`), and a
  request that saves something remembers the row it had read.

With `OneWorker` and any number of job threads:

- `OneWorkerBooksOnce`, `OneWorkerImplementsCalendar`: `SerialInv`
  says that what a request has validated still holds, since only a worker writes
  reservations, and that each row fits beside the others. Every step either
  leaves the rows alone (`ReadStep`) or writes one row that fits (`CommitStep`), which is
  `Take` or `GiveBack` of `UnitCalendar`.

`OutboundWebhooksProofs` (from `WebhooksAssumption`):

- `TypeCorrect`, `DroppedOnlyWhenDisabled`, `DisabledAtLimit`, for any number of
  threads of each kind: `CountInv` adds that a POST has begun with failures left
  and that only subscriptions that exist are posted to. Hence the count it commits
  is at most the limit, whatever others have committed meanwhile, and the
  type of `failure_count` is a bound on it.
- `AcceptedOnce` (with `OneJob`): `ClaimInv` says that a delivery is claimed for its
  first attempt by one thread or one entry of the queue, and has no row until the claim is
  given up, and that what the job has claimed has not arrived. A step gives claims up
  (`GiveUp`), takes new ones (`TakeUp`) or moves them to the queue.

`EmailQueueProofs` (about the queues as `MCQueues` composes them, with `OneProcess`):

- `SentOnce`: what the sender has taken and what a "retry" is pressed for never
  meet, since the first is pending, sending or cancelled and the second failed; neither
  has `sent_at`.

`ContractsProofs` (about `MCContracts`, from the assumptions of its six parts). Each part
has an inductive invariant of its own, proved for its own actions:

- leases (`TypeCorrect`, and `BilledOnce` with `OneBiller`): `LeaseInv` adds to the types
  that a request works on a lease that exists, and the job on a batch of such, as no lease
  is ever deleted; `BillInv` that an invoice the job is about to create does not exist yet.
  Web workers are any number and do not matter, since none of them makes invoices with a
  period. `OneBiller` is needed: see the findings.
- templates (`OneDefaultTemplate`, with `OneWorker`): a request that is about to mark its
  row has, in its transaction, taken the mark from every other row there is (`Covers`).
  With two workers the row that is created meanwhile is not covered: see the findings.
- payouts (`OwnersArePaidOnce`): `PayInv` is about a single row; the rest is arithmetic.
  The nights of the months partition those the assignment covers (`PaidBefore` is
  summed month by month), rounding is off by half a cent at most (`RoundedBounds`), and the
  three figures of a row, rounded apart, by a cent.
- imported calendars (`FeedsAreCopied`), for any number of synchronisations, overlapping or
  not: `IcalInv` says that the rows of one synchronisation are what it committed last, and
  that one that is replacing has in its snapshot every row but those of the
  synchronisations that have committed since; hence fetches come and go whole, and two stand
  beside each other only if one committed while the other replaced.
- maintenance and wizard (`UnitsAlwaysFit`): the invariants are inductive as they are,
  because the last look at the row or the calendar and the write are one transaction of
  one step; forms and cookies may hold anything of their type.
- `ContractsAreTyped`, for all six.

`RepeatsProofs` (about `MCRepeats`, from the assumptions of its four parts):

- `OneEffectPerKey`: for any number of requests, any failures and any life of the key.
  `KeysAreSound` is not inductive: `KeyInv` adds that a view that has not committed holds the
  insert of the key and that there is one insert at a time, over no live row (`Claims`),
  and that the effect and the row are there together (`Together`). For the bulk form it
  says that what a request has taken off its list has been cancelled.
- `ProcessedEventsWereHandled`, for any number of deliveries and the job: until the handler
  has succeeded, an error that a delivery or the job has read is still on the row when
  it writes, so that nobody can write an event without one (`InboxInv`); the delivery that
  inserts the event is alone until it commits.
- `GuessesStayLimited`, for any number of workers: a worker that looks at a password is
  counted in advance (`Guessing` in `LockInv`), and it began to look when the failures
  on record, among which are all the wrong guesses of the window, were within the limit.
- `LoginsAreLimited` (with `OneClerk`, a single worker beside the clean-up command):
  `SignInv` says of each token that it was taken once more than it was lost exactly if it is
  marked, that a backup code is there exactly if it is of the newest set and not spent, and
  that what a worker has found is still so when it commits (`FindIsSound`).
- `RepeatsAreTyped` needs neither.

`BackupsProofs` (from `BackupsAssumption`), for any number of workers, connections and
backups, and any crashes:

- `TypeCorrect`, `SoundBackups`, `CopyBeforeLoad`: a row that a dump holds may come back
  long after it was written, so that what is promised of the table must hold of the table
  in every dump on disk too. `Vouched` says so: a success in any of them is of a file that is
  finished, or gone, and on which no pg_dump is at work. `Named` says that a running backup
  has its name for itself, `Written` how far its file has come and that it is not old, so
  that pruning leaves it alone; with these, the copy a restore has made is on disk when the
  dump is loaded. `LockInv` is about the nightly job alone: until a restore closes
  connections, a connection of the worker whose job runs holds the lock. A job that ends
  on another connection keeps the lock, which is safe.

`PlatformProofs` (about `MCPlatform`, from the assumptions of its seven parts; it extends
`BackupsProofs`):

- `OneCalendarIsTold`: `ViewInv` has the types, that the stays are finitely many, and that
  confirmed stays of a unit lie apart. The views that count rows agree with those that
  count units because of the last: a unit has one stay a night (`OneStayAUnit`), so the
  stays of a night and their units are equally many (`StaysCountUnits`).
- `NoRowIsMissed`: `Before` is a strict order, so that each row has a place of its own below
  the number of rows (`PlacesRise`) and a list has each row once, at its place
  (`ListIsOrdered`). `ListInv` says of a reader that the rows of its first page's list whose
  place is before the next page have been seen, and it is kept because a row that is
  added leaves the others at their places or further on (`RowsGrow`) and a page is
  appended, or what was added since is beyond the end; while nothing changes, what has been
  seen is how the list begins (`SeenInOrder`).
- `RecordsStayWhole`, for any number of workers: `GalInv` says how far the files of an
  upload have come and that nobody else has its name; the records of `People` have an
  invariant that is inductive with its types; `SetInv` says that what a form holds, once read
  back, decodes to what it showed, but for the JSON strings a secret's form shows bare.
- `BooksAlwaysBalance`: what is summed is a fold over a set (`MapThenSumSet`). `Sums` states
  its recursion; it has one solution (`SumsAreOne`), does not depend on which
  element it takes first (`AnyFirst`), and splits over two sets (`SumsSplit`) and over the
  classes of a column (`SumsByClass`): by month, kind, place, method or bucket. With
  the bounds of the months (`DaysOfMonth`) this gives the reports (`FlowIs`,
  `ReportsBalanced`) and their pages (`PlacesAreOne`); a group of a property's invoices is a
  part of them (`GroupIsPart`), so that the profit is never more (`MapIs`). `MoneyInv` is needed for the rest:
  who is open has not paid, nothing is paid ahead of today (`DashboardIsRight`), and what is
  overdue was due before today (`AgingIsRight`). The forecast's formulas are paired with
  the days they count (`EveryWeek`, `MonthlyIs`, `ForecastIsRight`).
- `PlatformIsTyped` needs none of these; that a month has a last day takes that a finite
  set has a greatest member (`FiniteHasGreatest`).

Where the argument is an induction over numbers (`PaidBefore`, `FiniteHasGreatest`, the
sizes of lists) or over finite sets (the sums), it is stated with sets: a set of numbers that
are counterexamples has a least one (`LeastNatural`, from the library's well-foundedness of
`<`), and a set of finite sets a smallest (`SmallestSet`). The library's own induction
theorems take an operator as a parameter and cannot be used.

Left to TLC: the liveness properties and what needs ENABLED, which are out of the
prover's reach. Every invariant a run checks is stated by a theorem.

## 5. Plan

Done, in this order: `Payments`, `Stays`; the outgoing queues; `Idempotency`,
`InboundWebhooks`; `Leases`, `LeaseTemplates`; `Payouts`, `CalendarImport`, `Maintenance`,
`Wizard`; `Backups`; `Lockout`, `SignIn`; the views, reports, lists, galleries, people and
settings; the proofs about every composition.

Left, in the order of what they would add:

1. `SignIn` with two workers, where a token may let two in: what the code promises then.
2. The join of `Stays` and `Payments` over the invoice of a stay, should the code begin to look
   at one from the other.

## 6. Not modelled

- Tenants and permissions: each query filters by organization; the models work
  inside one, but for `People`, which has two.
- API keys and rate limits: a look-up and counters of a library, in memory.
- The probes of the status page, geocoding: one call each, whose answer is shown.
- Codes of an authenticator app: computed from the time, no table holds them.
  Superadmins who act as another user: the session only.
- The export of a user's data, the JSON exports of settings and templates beside a backup,
  the archive of the uploads, the copy off site: they read and write files nothing reads back.
- Wording, formatting, VAT, PDF, HTML, JavaScript, CSV: no property is about them.
- The expiry of check-in links: it only removes behaviours, as a guest who never comes.
- Numbering of receipts and invoices: gaps are allowed and uniqueness is a constraint
  of the schema.
- Migrations, deployment, SDKs, build: not part of the running system.
