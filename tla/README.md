# TLA+ verification of the academy management application

The repository is a multi-tenant web application for language and tuition
academies: a NestJS API (`src/apps/api`, PostgreSQL through Prisma), a Next.js
client (`src/apps/web`) and shared packages. What is hard about it is

* **several HTTP requests, cron runs and external callbacks working on the same
  rows**: nothing but PostgreSQL orders them, and most services check what they
  read *before* the transaction that writes;
* **pages that show a row as it was** while somebody else moves it, and whose
  calls can be refused, lost or answered late;
* a few computations with edges a test would hardly meet: clock changes, shares
  of a month, classes that overlap.

This directory models them, checks the models with TLC and proves the central
ones with TLAPS.

Contents:

1. [The system: inventory](#1-the-system-inventory)
2. [How the code is modelled](#2-how-the-code-is-modelled)
3. [The modules and the code](#3-the-modules-and-the-code)
4. [The runs](#4-the-runs)
5. [What the runs found](#5-what-the-runs-found)
6. [The proofs](#6-the-proofs)
7. [Only model-checked, not modelled](#7-only-model-checked-not-modelled)
8. [Plan](#8-plan)

To run it (from this directory): `tlc -config MCLedgerSerial.cfg MCLedger`,
`tlapm LedgerProofs.tla`, and so on; section 4 has the table of configurations.

## 1. The system: inventory

Paths are relative to `src/apps/api/src`, or to `src/apps/web/src` for the web
application. "Row" means a database row.

| Component | State it keeps | Operations that change it | What is hard | Correct when | Module |
|---|---|---|---|---|---|
| **invoice numbering and hash chain** `invoices/invoice-hash.ts` | `tenants.invoiceCounter`, `lastInvoiceHash`; `invoices.number`, `hash`, `previousHash` | `createChainedInvoice`, inside the caller's transaction | concurrent issuers, rollback after the counter moved, two lock orders, unique billing period | numbers have no gap and no repetition, hashes form one chain | `InvoiceChain` |
| **invoices, manual payments** `invoices/invoices.service.ts`, `invoices.tasks.ts` | `invoices.paidAmount`, `status`, `dueDate`; `payments` | `create`, `update`, `createRectification`, `addPayment`, `removePayment`, overdue cron | totals computed from a row read before the transaction; status rewritten by several operations | totals match payments, never exceed the invoice; status matches the total; a rectified invoice stays cancelled | `Ledger` |
| **Stripe** `stripe/stripe.service.ts` | `payments` of method CARD | `createInvoiceCheckout`, webhook `checkout.session.completed` | webhooks repeated, delayed, simultaneous | each checkout is recorded once, never above what is owed | `Ledger` |
| **SEPA remittances** `billing/remittances.service.ts`, `billing.service.ts` | `sepa_remittances`, `sepa_remittance_items` | `sepaXml`, `collect`, `returnReceipt`, `void` | collect and void race; receipts point to payments that others delete | a receipt is at the bank once, and its payment is its own | `Ledger` |
| **monthly billing, group charges** `billing/billing.service.ts`, `billing.tasks.ts`, `group-charge.service.ts` | the month's invoices | `generateMonth` (button or daily cron), `charge` | a long loop of transactions over a list read once; the share of a month | everybody listed is billed, nobody twice, for the classes they can attend | `Enrollment`, `Shares` |
| **enrollments and enrollment fee** `enrollments/` | `enrollments.status`, matricula invoice | `create`, `update`, `chargeFee`, `remove`, `offerSpot` | two activations; delete and enrol again | one matricula and one invoice per month per enrollment | `Enrollment` |
| **public requests** `public/public.service.ts` | student, `enrollments` (PENDING/WAITLIST), `trial_classes` | `enroll`, `bookTrial` | places counted before the write | see enrollments | `Enrollment` |
| **trial classes** `trials/trials.service.ts` | `trial_classes.status` | `convert`, `cancel` | convert and cancel overlap | see enrollments | `Enrollment` |
| **auth** `auth/auth.service.ts`, web `lib/api.ts`, `lib/auth-context.tsx` | `auth_sessions` (current and previous token hash), `users` password and reset token; the browser's cookie, the tab's access token | `login`, `refresh`, `logout`, `changePassword`, `forgotPassword`, `resetPassword` | simultaneous refreshes (compare-and-swap plus 30 s of grace), a refresh across a password change, late and lost answers | tabs do not sign each other out, a closed session stays closed, a password change ends all | `AuthSessions` |
| **class schedule** `class-schedule/` | `schedule_slots`, generated `sessions` | `put`, `generate` (advisory lock) | replaces untouched classes while others edit them; wall times around a change of the clock | no duplicated class, history never deleted, local times kept | `Calendar`, `Clock` |
| **holidays** `holidays/` | `holidays`, `sessions.cancelledByHolidayId` | `create`, `remove`, `importNational` | overlapping holidays, generation in between | no class left on a holiday; what it cancelled comes back | `Calendar` |
| **sessions** `sessions/` | `sessions` | `create`, `update`, `remove` | keeps `cancelledByHolidayId` when edited by hand | a class that was held stays held | `Calendar` |
| **attendance and absence notices** `attendance/`, `absence-notices/`, `teacher-app/` | `attendances`, `absenceNotifiedAt` | `bulkUpsert`, `update`, `remove`, `saveAttendance`, notice | email between the read and the mark | one email per absence; attended classes are not deleted | `Calendar`, `Notices` |
| **payment reminders** `reminders/` | `invoices.reminderCount`, `lastReminderAt` | daily cron | crash between email and counter | at most three, seven days apart, and all of them | `Notices` |
| **messages, report cards, offers** `messages/`, `assessments/`, `enrollments/` | `messages`, `spotOfferedAt` | `send`, `sendGroup`, `offerSpot` | row written after the emails | a record of what was sent | `Notices` |
| **students, portal access, GDPR** `students/` | `students`, `guardians`, portal `users` | CRUD, import, grant and revoke, erasure | counts read before the transaction; a login shared by siblings | erasure keeps what fiscal law keeps, a login ends with its last child | `Accounts` |
| **teachers, team** `teachers/`, `team/` | `teachers`, `users` | create, remove, grant and revoke | a login granted while the profile goes | a teacher's login has a profile, the office's stays | `Accounts` |
| **settings** `settings/` | `tenants` | `update` | `taxId` is part of every hash | – | `InvoiceChain` |
| **guards and controllers** `auth/guards/`, `**/*.controller.ts` | – | – | a page and its API disagree about a role | no page asks for what its users may not have | `Routes` |
| groups, courses, **rooms** `rooms/rooms.service.ts` | their own rows | single-row edits; the list of clashes | classes that overlap, equal starts, a limit | every clash is listed, and no others | `Rows`, `Agenda` |
| assessments, portal, reports, today | marks; read-only views | upserts of independent rows | their pages | see web application | `Rows`, `Routes` |
| **web application** `app/`, `components/` | what a page shows; flags, forms, a choice and its preview | the user's actions and the answers to its calls | a row that moved, an impatient user, late and lost answers | controls agree with the API, previews with the choice, nothing stays disabled | `Pages`, `OfficePages`, `FamilyPages`, `Screens`, `Agenda` |
| users, configuration, bootstrap, documents, packages, scripts | – | wiring, text, demo data | – | – | – |

How they interact:

* **Through rows.** `createChainedInvoice` is called inside the transactions of
  six kinds of operation: invoice, rectification, monthly run, group charge,
  enrollment fee (when an enrollment is created or activated, by hand, and at a
  trial's conversion) and returned receipt. Payments are written by hand, by
  Stripe and by remittances, all into the same `paidAmount` and `status`.
  A class is written by the schedule, by holidays, by hand and by attendance.
* **Through foreign keys.** Deleting a payment sets the receipt that points to
  it to null, deleting an enrollment does so with its invoices, deleting a
  holiday with its classes, deleting a login with its guardians and its profile
  (`SetNull`); deleting a remittance deletes its receipts, a student its
  guardians (`Cascade`); a student with invoices cannot be deleted.
* **Through callbacks.** Stripe's webhooks arrive at any time, any number of
  times. The crons are in-process timers with no lock between replicas.
* **Through HTTP.** A page loads rows, offers controls for what it loaded, and
  calls the API, which decides by the role of the caller (`Routes`) and by the
  row as it is by then (`Rows`).

The complete list of hazards, each at its line and with the properties that
would catch it, is in `PROJECT.json`.

## 2. How the code is modelled

**Isolation.** Prisma's transactions run under PostgreSQL's READ COMMITTED. A
SELECT takes no lock and sees the last committed rows; UPDATE, DELETE and the
unique indexes wait for the row and then see its last committed version. Two
grains follow:

* *Statement by statement* where a lock is taken and its order matters
  (`InvoiceChain`; the enrollment's transaction in `Enrollment`; the
  transactions of `Accounts` that count what is left), and in the refresh of a
  session, whose statements are not in one transaction (`AuthSessions`).
* *Read step, commit step* everywhere else. A service method that reads,
  checks and then opens a transaction which **only writes** is two actions: the
  reading action fills a *slot* with the snapshot and everything computed from
  it; the committing action applies the absolute values that were computed.
  Any number of other requests can run in between. The transaction is one
  atomic step because it reads nothing that it does not write and its row
  locks serialize it with every other.

A method's consecutive reads are merged into one step when they are one Prisma
query (`include`), or when the second read's answer can only be used with the
first (`bookTrial`'s count and `isFull`); otherwise they are separate
(`convert`: trial, then enrollment; `generateMonth`: enrollments, then
invoices; `generate`: schedule and holidays, then classes; a card webhook and a
rectification: the invoice, then an earlier payment or rectification of it;
`grantPortalAccess`: student, login, guardian).

**Failure.** Every request can fail between its steps (`Fail`, `Rollback`,
`AbandonRun`, `Crash`): a crash, a lost connection, Prisma's transaction
timeout, a row that is gone (P2025), a unique key (P2002). Since nothing but
the database persists, a crash of the process is exactly the loss of the slots.
Emails can be refused, or accepted and the answer lost (`Notices`); HTTP
requests and answers can be lost or late (`AuthSessions`, `Screens`).

**Requests at once.** `Slots` (and `Requests`, `Runs`, `Workers`) are the calls
that can be in progress at the same time. With two slots TLC explores every
overlap of two requests; with one, requests are served one after the other.
`Overlapping` says, per module, which operations may overlap. Properties the
code keeps only without some overlap are checked without it, and section 5 says
which overlap breaks them and what the repository promises.

**Data.** Amounts are small integers (cents in the code: `Decimal(10,2)`; the
one place that rounds is modelled, in `Shares`). SHA-256 is taken as
collision-free: a hash *is* the tuple of what it covers. Dates are a day number,
but for `Clock`, which has instants and offsets in half hours; "no date" is a
model value. An invoice number is its counter (prefix and year are fixed text
around it). One academy is modelled, since every query carries its `tenantId`.
A page's row is the columns its controls depend on.

## 3. The modules and the code

| Module | What it is |
|---|---|
| `InvoiceLog` | abstract specification: an append-only, linked log |
| `InvoiceChain` | the transactions that issue invoices, statement by statement |
| `InvoiceChainProofs` | its theorems |
| `Ledger` | invoices, payments, card webhooks, remittances |
| `LedgerAudit` | the ledger's accounting properties that hold of serial service |
| `LedgerProofs` | theorems about `Ledger` for any number of overlapping requests, and about `LedgerAudit` when they do not overlap |
| `Enrollment` | public requests, trials, enrollments, matricula, monthly and group billing |
| `Shares` | what a month costs somebody who joins in it |
| `EnrollmentProofs` | theorems about `Enrollment` and `Shares` |
| `SessionRegister` | abstract specification: sessions open once and stay closed |
| `AuthSessions` | one account's sessions, the tabs and browsers that hold its tokens |
| `AuthSessionsProofs` | its theorems, the refinement of `SessionRegister` among them |
| `Calendar` | one group's schedule, classes, holidays and attendance |
| `Clock` | the academy's wall clock and the instants it stands for |
| `CalendarProofs` | theorems about `Calendar` and `Clock` |
| `Notices` | the emails to families, as jobs that read, send and record |
| `NoticesProofs` | its theorems |
| `Accounts` | the logins of the office, the teachers and the families |
| `AccountsProofs` | its theorems |
| `Routes` | every route of the API and the roles its guards let through |
| `Rows` | what the API's handlers do to the one row a page is about |
| `Pages` | the words of the tables that say what a page does |
| `OfficePages`, `FamilyPages` | those tables, a page or panel each |
| `Agenda` | classes that overlap: clashes in a room, columns of a day |
| `Screens` | one open page, its user, the API behind it and everybody else |
| `ScreensProofs` | its theorems |
| `MC…` | instances for TLC (symmetry sets, families, time zones, what may overlap) |

How they compose: `Enrollment` EXTENDS `Shares`, `Calendar` EXTENDS `Clock`,
`Screens` EXTENDS the page tables, which EXTEND `Routes` and `Rows`, and
`Agenda`. `InvoiceChain` and `AuthSessions` INSTANCE the abstract specification
they implement. `Enrollment` abstracts an issued invoice to what makes it unique,
`InvoiceChain` shows how each one gets its number, and `Ledger` what happens to
it afterwards; `Rows` abstracts `Ledger`, `Enrollment`, `Calendar` and
`Accounts` to the one row a page shows.

### InvoiceChain (implements InvoiceLog)

| Variable | In the code |
|---|---|
| `tenant` | `tenants.invoiceCounter`, `lastInvoiceHash`, `taxId` (committed) |
| `invoices`, `cancelled` | committed `invoices`, in commit order; those with status CANCELLED |
| `pc`, `args`, `locks`, `read` | each open transaction: its next statement, its input, its row locks, the tenant row its UPDATE returned |

A request is one of three *shapes* of transaction. `create` is
`UPDATE tenants … RETURNING; UPDATE tenants; INSERT invoices`
(`createChainedInvoice`, `invoice-hash.ts:62-119`) and stands for manual
invoices, monthly runs, charges and fees. `rectify` adds a last
`UPDATE invoices` of the original (`invoices.service.ts:72-88`). `return` has an
`UPDATE invoices` *first* (`remittances.service.ts:210-233`). Rectify and return
therefore lock the academy's row and an invoice's row in opposite orders; the
model has the wait (`TenantFree`, `RowFree`), the cycle (`WaitsFor`) and
PostgreSQL's victim (`DeadlockVictim`). `UpdateSettings` is the edit of
`taxId`, which waits for the same lock.

The refinement mapping `issued` shows the committed invoices' number, amount
and hashes; `ImplementsLog == Log!Spec` says that every step is one append of a
correctly linked entry, or nothing.

### Ledger and LedgerAudit

| Variable | In the code |
|---|---|
| `invoice[i]` | `status`, `amount`, `paidAmount`, `dueDate`, `rectifiesId` |
| `payments[i]` | the payments ever registered on `i`, in order; a deleted one leaves a hole so that identifiers stay unique. `source` holds the Stripe reference or the remittance it came from |
| `checkout[f]` | Stripe's side: a checkout session opened for an invoice and an amount |
| `remittance[r]`, `item[r][i]` | `sepa_remittances.status`; the receipt's `status`, `amount`, `paymentId` |
| `request[s]` | what a request in progress has read and computed |
| `now` | today |

| Actions | Code |
|---|---|
| `ReadAddPayment`, `CommitPayment` | `addPayment` |
| `ReadWebhook`, `LookUp`, `CommitPayment` | `handleWebhook`, `recordCardPayment` |
| `ReadRemovePayment`, `CommitRemovePayment` | `removePayment` (delete, SetNull, update) |
| `ReadUpdate`, `CommitUpdate` | `update` (cancel, due date) |
| `ReadRectify`, `LookUp`, `CommitRectify` | `createRectification` |
| `ReadSepaXml`, `CommitSepaXml` | `collectSepaItems`, `sepaXml` |
| `ReadCollect`, `CommitCollect` | `collect` |
| `ReadReturnReceipt`, `CommitReturnReceipt` | `returnReceipt`, with or without a fee invoice |
| `ReadVoid`, `CommitVoid` | `void` |
| `Issue`, `CreateCheckout`, `MarkOverdue` | `createChainedInvoice`, `createInvoiceCheckout`, overdue cron |
| `Fail`, `Tick` | a request that throws or dies; a day passes |

`ReadWebhook` can be taken for the same checkout any number of times: that is
Stripe's at-least-once delivery. `InvoicesService.remove` does nothing here,
because it refuses every invoice that has a hash and every invoice is created
with one. `LedgerAudit` is a module of its own because its sums are folds over
sequences; keeping them out of `Ledger` keeps that module within the reach of
the prover.

### Enrollment and Shares

| Variable | In the code |
|---|---|
| `known` | students that have a row |
| `enrollment[s]` | status of the student's enrollment in the group; `id` counts the rows the pair has had |
| `trial[s]` | `trial_classes.status` |
| `invoices[s]` | the student's invoices by what keeps them unique: enrollment, `billingPeriod` or concept; `by` is history (the group charge that issued it) |
| `request[q]`, `run[u]` | requests in progress; progress of a `generateMonth` or `charge` call |
| `overlapped` | history: the pairs of group charges that were in progress at the same time |

| Actions | Code |
|---|---|
| `ReadEnroll`, `CommitEnroll` | `PublicService.enroll` (PENDING, or WAITLIST when full) |
| `ReadBookTrial`, `CommitBookTrial` | `PublicService.bookTrial` |
| `ReadCancel`, `CommitCancel` | `TrialsService.cancel` |
| `ReadConvert`, `ReadExisting`, `LockEnrollment`, `CommitEnrollment` | `TrialsService.convert` |
| `ReadUpdate`, `LockEnrollment`, `CommitEnrollment` | `EnrollmentsService.update` with `chargeEnrollmentFee` |
| `CreateEnrollment`, `RemoveEnrollment` | `EnrollmentsService.create`, `remove` |
| `ReadChargeFee`, `CommitChargeFee` | `EnrollmentsService.chargeFee` |
| `ReadEnrollments`, `ReadInvoices`, `IssueNext`, `EndRun`, `AbandonRun` | `generateMonth` and `GroupChargeService.charge`: two reads, then one transaction per student |
| `Fail` | refused after the reads, thrown inside the transaction, or a crash |

The transaction that activates an enrollment is two steps: its UPDATE takes the
row lock (`Locked` makes others wait) and then looks for an earlier matricula;
its commit inserts the invoice, which the unique
`(enrollmentId, billingPeriod)` may refuse. A group charge has no billing period
and so no index that backs its own check.

`Shares` is the pure part of `generateMonth`: `discounted` and `proration`, with
`toDecimalPlaces(2)` as `Rounded`. `SharesAreFair` compares it with the exact
share, over every set of class days and every day of joining of a bounded month.

### AuthSessions (implements SessionRegister)

| Variable | In the code |
|---|---|
| `sessions` | the rows of `auth_sessions`: current and previous token hash, `rotatedAt`, `expiresAt`; `provedBy` is history (the password that opened it) |
| `password`, `link` | `users.passwordHash`; `passwordResetTokenHash` and its expiry |
| `cookie[b]`, `tab[t]` | the refresh cookie of a browser; what a tab shows and the access token it holds in memory (`lib/api.ts`, `lib/auth-context.tsx`) |
| `request[t]` | a tab's call: which statement the API is at, or its answer on the way |
| `network`, `home` | constant in a behaviour: how calls travel, and which tab is in which browser |
| `clock`, `signed`, `links`, `ended` | time in units of the grace period, identifiers, and why sessions ended |

| Actions | Code |
|---|---|
| `bootstrapSession`, `tryRefresh`, `Reload` | `AuthProvider`'s first refresh; `api` after a 401, one refresh at a time per tab; F5 |
| `SubmitLogin`, `SubmitLogout`, `SubmitChange`, `SubmitReset`, `forgotPassword` | the forms |
| `ReadRefresh`, `SwapToken`, `ReloadSession`, `Revoke` | `JwtRefreshStrategy`, and `refresh`: find, `updateMany` where the hash is still the current one, find again, delete |
| `VerifyPassword`, `DeleteExpired`, `startSession` | `login`, `startSession` |
| `changePassword`, `ReadLink`, `resetPassword`, `logout` | the methods of those names |
| `Receive`, `Lose`, `Tick` | an answer arrives and its cookie is stored; it does not; time passes |

The refinement maps the rows of `auth_sessions` to the register's open sessions.

### Calendar and Clock

| Variable | In the code |
|---|---|
| `schedule` | `schedule_slots`: the duration of the class of each weekday that has one |
| `holidays` | `holidays`: periods |
| `classes` | `sessions`: day, duration, status, `cancelledByHolidayId`, whether there is attendance; `untouched` is history (only `generate` and holidays have written it) |
| `request` | what a slot has read and is about to write |
| `now`, `created`, `declared`, `edits` | half days; bounds |

| Actions | Code |
|---|---|
| `put` | `ClassScheduleService.put` |
| `ReadSchedule`, `ReadExisting`, `generate` | `generate`: advisory lock, then `plan` (schedule and holidays, then classes) and the writes |
| `createHoliday`, `ReadNational`, `importNational` | `HolidaysService.create`, `importNational`, both through `createIn` |
| `ReadRemoval`, `remove` | `HolidaysService.remove`: reassign or restore, delete, SetNull |
| `CreateSession`, `UpdateSession`, `RemoveSession` | `SessionsService` |
| `bulkUpsert`, `RemoveAttendance`, `ReadRoster`, `saveAttendance` | `AttendanceService`, `TeacherAppService` |

`Clock` has `offsetMs`, `zonedToUtc` and `todayIn` of `zoned-time.ts` around one
change of the clock. `LocalTimeKept` joins it to the calendar: every class that
exists is on a day on which, in every zone, wall times survive the conversion
and the queries' ranges are the day. The second half is conditional on both
midnights being shown once: in a zone that changes its clock at midnight
(`zonedToUtc` of a skipped midnight) the range and `todayIn` differ by the
change. Spain's zones do not; the Azores, in the runs, do.

### Notices

| Variable | In the code |
|---|---|
| `invoice[s]` | `status`, `reminderCount`, `age` (days since `lastReminderAt`) |
| `attendance[s]` | the mark in one class, whether `absenceNotifiedAt` is set, and how many rows there have been |
| `place[s]`, `messages` | `enrollments.status`; the rows of `messages` |
| `job[w]` | a job: whom it still has to write to and what was accepted but not recorded |
| `desk`, `family` | constant: which jobs the behaviour is about, and the families' addresses |
| `ranToday`, `classAge`, `faults`, `pushes` | days and bounds |
| `inbox`, `heard`, `early` | history: what families received, the days since their last reminder, and the reminders that came too soon after another |

| Actions | Code |
|---|---|
| `sendOverdueReminders`, `RecordReminder` | `reminders.service.ts`, daily at nine |
| `Save`, `notify`, `RecordAbsence` | the three ways of marking, then `AbsenceNoticesService.notify` |
| `offerSpot`, `sendGroup`, `RecordOther` | `EnrollmentsService.offerSpot`, `ReportCardsService.sendGroup` |
| `SendMessage`, `SendChunk`, `Finish` | `MessagesService.send`, in chunks |
| `Accept`, `Refuse`, `Crash` | the email provider and the process |
| `InvoiceMoves`, `RemoveAttendance`, `PlaceMoves`, `Day` | meanwhile |

### Accounts

| Variable | In the code |
|---|---|
| `users` | `users`: unique email, role |
| `student`, `invoiced`, `links` | `students` (absent, enrolled, erased, gone), those with invoices, `guardians` with their `userId` |
| `teacher` | `teachers` and their `userId` |
| `request`, `numbered` | what a slot has read; identifiers |

| Actions | Code |
|---|---|
| `create`, `BeginImport`/`ImportRow`/`EndImport`, `ReadRemove`/`remove` | `StudentsService` |
| `ReadGrant`, `FindUser`, `NotYetLinked`, `CreateGuardianUser`, `grantPortalAccess` | `grantPortalAccess`: the student, the login of that email, its link to the student; then a login and the guardian; not one transaction |
| `ReadRevoke`, `CountLinks`, `revokePortalAccess` | `revokePortalAccess`: the link goes, what is left is counted, the login goes |
| `ReadErase`, `CountChildren`, `erase` | `GdprService.erase` |
| `CreateTeacher`, `…TeacherGrant`, `…TeacherRevoke`, `…TeacherRemoval` | `TeachersService` |
| `ReadStaff`/`CreateStaff`, `ReadStaffRemoval`/`RemoveStaff` | `TeamService` |

### The pages: Routes, Rows, Pages, OfficePages, FamilyPages, Screens

The client's pages are alike, so they are **data**: each page of
`OfficePages` and `FamilyPages` is a record that says whom its layout lets in,
the calls it opens with, when "Cargando" replaces its controls, which rows it is
about, and per handler (named as in the file) the call, the toast that asks
first, the flag that disables its button, the rows for which its control is
drawn, and what happens with the answer. `Pages` defines those words; the
notation reads like the component:
`CancelInvoice == Asks(Raises(On("PATCH/invoices/:id", "cancelInvoice"), "cancelling"))`.
43 pages and panels are there.

`Screens` gives the words one meaning:

| Variable | In the code |
|---|---|
| `name`, `user`, `kind` | the page that is open, by whom, about what |
| `row` | the row in the database |
| `shown`, `loading`, `busy`, `forms` | the component's state: the row it loaded, "Cargando", its flags, the forms that are open |
| `current` | history: nobody else has moved the row since it was read |
| `chosen`, `preview` | what the user has chosen, what the preview on view is of |
| `calls` | toasts up, calls and answers on their way |

A call is three steps: `Press`, `Serve` or `Refuse` (by `Rows`), one of the
`Answer…` actions; it can `Fail` on the way there or back. `Move` is everybody
else (another tab, another user, a cron, a webhook). `Choose` and `Look` ask for
previews. `Routes` is `RolesGuard` over the decorators of the 28 controllers.
`Rows` gives, for each handler a page uses, the rows it refuses and the rows it
may leave.

`Agenda` has the two sweeps over classes that overlap: `conflicts` of
`rooms.service.ts` and `layoutDay` of the calendar page. They are pure and are
compared with their definitions by quantifiers over all lists within the bounds.

## 4. The runs

| Run | Instance | Distinct states | Shows |
|---|---|---|---|
| `chain` | `MCInvoiceChain.cfg`: 3 requests, 2 amounts, 2 tax ids, 1 period | 413 thousand | numbering, linking, refinement of `InvoiceLog`, every transaction ends |
| `ledger_concurrent` | `MCLedgerConcurrent.cfg`: **2 slots**, 1 invoice, 1 checkout, 1 remittance, 2 payments, 2 days | 3.1 million | what survives overlapping requests; overdue is eventually flagged |
| `ledger_serial` | `MCLedgerSerial.cfg`: 1 slot, 2 invoices, 2 remittances, fee, rectification, 2 payments each | 3.2 million | the books are balanced when requests are served one at a time |
| `enrollment` | `MCEnrollment.cfg`: **2 slots**, **2 runs**, 1 student who can be enrolled twice | 6.0 million | no period is invoiced twice, no charge is repeated but by calls in progress together, runs bill everyone, months are shared fairly |
| `auth` | `MCAuthSessions.cfg`: 2 tabs, in one browser or in two, prompt and lossy networks | 1.2 million | tabs do not sign each other out, refinement of `SessionRegister`, the first page ends loading |
| `calendar` | `MCCalendar.cfg`: **2 slots**, 2 days, 2 durations, 4 classes, 2 holidays, 1 edit; 12 clock changes at any half hour | 4.0 million | no twins, nothing on a holiday, everything comes back, local times kept |
| `notices` | `MCNotices.cfg`: 1 worker, 2 students, 3 addresses, 2 faults, 3 pushes | 580 thousand | only faults repeat an email or bring a reminder too soon; every reminder is sent |
| `accounts` | `MCAccounts.cfg`: **2 slots**, 3 emails, 2 students, 1 teacher | 502 thousand | who keeps and who loses a login, who is kept for the tax office |
| `screens` | `MCScreens.cfg`: **43 pages**, 3 calls or toasts at once | 886 thousand | pages and API agree, previews are current, nothing stays disabled, overlaps are seen |
| `rectified_revived`, `card_twice`, `held_class` | minimal | – | section 5: TLC finds the violation |

### Properties

* `chain`: `Correlative`, `Linked`; `ImplementsLog`; `EveryTransactionEnds`.
  (`TypeOK`, `NoLostUpdate` and `TipIsLast` are proved: section 6.)
* `ledger_concurrent`: `TypeOK`; `PaidWithinAmount`; `StatusMatchesPaid`;
  `ReceiptHasItsPayment`; `CollectedLeavesNoneSent`; `OverdueIsFlagged`. The
  money ones hold although nothing locks the rows: every request writes a total
  it checked against an amount that no operation changes.
* `ledger_serial`: `LedgerBalanced` (`paidAmount` is the sum of the payments),
  `DirectDebitHasReceipt`.
* `enrollment`: `TypeOK` (an invoice's enrollment exists), `PeriodInvoicedOnce`,
  `RetriesChargeNobodyAgain`, `RunBillsEveryone` (a run that reports success has
  billed everybody it listed), `MonthIsShared`. Group charges overlap in this run,
  a double click among them, and do charge twice then (section 5): the property
  says that *only* two calls in progress at the same time can, so that a retry
  never does, not even of a call that died halfway, nor for a student who was
  dropped, deleted or enrolled again in between.
* `auth`: `RefusedOnlyWhenEnded`, `NoneOutlivesPassword`, `ImplementsRegister`,
  `LoadingEnds`.
* `calendar`: `NoTwins`, `FreeOnHolidays`, `ComesBack`, `LocalTimeKept`.
* `notices`: `OnlyFaultsRepeat`, `RemindersSpaced`, `AllReminded`. An email and
  a row cannot be one transaction: the first two say "but once per fault".
  `RemindersSpaced` is about what families *receive*: it counts the reminders that
  came less than `INTERVAL_DAYS` after the one before, whatever the invoice's row
  says of it (`lastReminderAt`), and a lost answer or a crash explains each.
* `accounts`: `TypeOK` (references and unique emails), `InvoicedIsKept`,
  `TeacherHasProfile`, `OfficeStays`, `LoginEndsWithItsChildren`.
* `screens`: `NothingForbidden`, `RefusedOnlyIfMoved`, `PreviewIsOfTheChoice`,
  `NothingStaysDisabled` (a flag is up only while a call that will lower it is
  under way: the safety half of "every button comes back", which needs no
  fairness), `OverlapsAreSeen`.

Three properties host computations: `LocalTimeKept`, `MonthIsShared` and
`OverlapsAreSeen` join a state of the run to a comparison of a pure algorithm
with its definition over bounded inputs, which TLC evaluates once.

Each property is broken by at least one plausible bug of the code, defined
beside the definition it replaces in the module ("Mutant: …") and listed in
`PROJECT.json`.

### Why the bounds are enough

* *Three requests* in `chain`: the deadlock needs an issued invoice and two
  transactions that take the two locks in opposite orders. Two amounts and two
  tax ids are what make one hash differ from another; one period makes the
  unique index refuse.
* *Two slots*: the stale snapshots here are pairwise, one request writes over
  what another read. In `ledger_concurrent` one invoice suffices because no
  operation relates two invoices except rectification, returned fees and a
  remittance of several, which `ledger_serial` has.
* *Two payments of 1 on an invoice of 2* separate unpaid, partial and paid.
  `MaxPayments` bounds the payments ever registered, deleted ones included, and
  is a guard of the committing steps.
* *Two remittances*: the shortest history in which a returned receipt is sent
  again.
* *Days 0 and 1*, due date 0 (`LastDay` stops the clock): before and after.
* *Two enrollments of one student* (`MaxEnrollments`): delete and enrol again.
  *Two runs*: a repeated month, a repeated charge, or one of each.
* *Shares*: four fees with awkward cents, four percents, months of 28 and 31
  days, every subset of four class days, every day of joining.
* *Two tabs* in one browser share a cookie, in two they do not. Three units of
  time, an access token of one, a refresh token of two, a grace period within
  one unit: a token can be current, just replaced, old and expired. Five tokens
  (`MaxTokens`) are three rotations beyond the first two sessions. Two tabs are
  also the most for which `RefusedOnlyWhenEnded` holds (section 5); that it does
  for any number of browsers with two tabs each is proved.
* *Two days, two holidays*: periods that are equal, nested, and overlap a class
  each; *two durations* make a class replaceable without moving; *four classes*
  are two generations. *One edit by hand* between the steps of two requests.
* *Clocks*: six places, spring and autumn, the change at each half hour from the
  noon before the two days to after them.
* *Notices*: two faults let one be about each of two reminders, or both about
  one; an interval of two days and two reminders are the shortest that
  tell "too soon", "due" and "no more" apart; siblings who share two guardians,
  and a student out of reach, are the shapes of a family. `Desks` says that a
  behaviour is about one kind of job, since no job touches another's rows.
* *Accounts*: two siblings share a login, three emails let one belong to another
  kind of user. `Apart` is what may overlap (below).
* *Screens*: three calls at once are an action, its repetition and the load that
  follows; two choices are a change and the way back. *Agenda*: three classes in
  two rooms, four in a day, with starts and lengths that make every order of
  starts and ends of two classes, and a limit of two clashes.

Symmetry is used over interchangeable slots, runs, invoices, students, emails
and teachers, and never in a run that checks a liveness property. Deadlock is
not checked: all systems stop once their bounded requests, payments, classes or
tokens are used up, and a page may simply stay open.

### Fairness

* `InvoiceChain`: weak fairness of each transaction's statements. The database
  answers a statement that waits for nothing, and its deadlock detector always
  fails one transaction of a cycle. Beginning a request and accidental rollback
  have no fairness, nor does `UpdateSettings`.
* `Ledger`: weak fairness of `MarkOverdue`: the cron runs every day
  (`invoices.tasks.ts`). Nobody is obliged to pay, to collect or to retry.
* `AuthSessions`: weak fairness, per tab, of the API's steps, of the arrival of
  an answer and of the page's own first call. `LoadingEnds` is about prompt
  networks: `Lose` is not excluded by fairness but by that condition.
* `Notices`: weak fairness of the day, of the daily job and of a job's steps; of
  the provider, strong fairness: asked again and again, it does accept an email.
  `AllReminded` is about an invoice that stays overdue.
* `Enrollment`, `Calendar`, `Accounts` and `Screens` have none: no property of
  theirs says that something must happen. The billing cron acts on one
  configured day and promises no later attempt.

## 5. What the runs found

Three runs end in a violation of a sentence of the repository:

1. **A rectified invoice is revived** (`rectified_revived`,
   `RectifiedIsCancelled`). `docs/funcionalidades.md:183`: "la original queda
   anulada pero conservada". `removePayment` (and `returnReceipt`) write
   `computeStatus` over whatever status the invoice has, CANCELLED too. No
   overlap is needed.
2. **One checkout is recorded twice** (`card_twice`, `CardRecordedOnce`).
   `stripe.service.ts:123` says "Idempotently records a card payment". The
   reference is looked up before the transaction and no unique key backs it: two
   deliveries at the same time both insert it.
3. **A class that was held is put back** (`held_class`, `HeldStays`).
   `holidays.service.ts:49`: "Removes a holiday and puts its cancelled classes
   back on the calendar". A class cancelled by a holiday and then held all the
   same (COMPLETED by hand) still names the holiday, and `remove` sets it to
   SCHEDULED. No overlap is needed.

**What overlapping calls break.** The code takes no lock where the next table says
so, and nothing but luck keeps two calls apart. Most of what they break *is*
promised by a comment, by the documentation or by the page itself, so these are
disagreements between the code and its own words like the three above. Where a
property holds without the overlap, a run checks it without it, and changing the
constant shows the trace; where nothing but a guard would be left to check, no run
does, and the steps are given here.

| What breaks | How | What the repository says |
|---|---|---|
| A concept is charged twice to a student | In run `enrollment` as it is: `ReadEnrollments`, `ReadInvoices` of two charges, then `IssueNext` of both. `RetriesChargeNobodyAgain` is what is left | `group-charge.service.ts:11-13`: "(a double click, a retry) skips students who already have that invoice instead of charging twice"; `docs/funcionalidades.md:127-129`: "sin riesgo de cobrar dos veces por un doble clic" |
| A receipt is at the bank in two remittances | `Slots = {s1, s2}` in `MCLedgerSerial.cfg`: `ReadSepaXml` of two downloads, then `CommitSepaXml` of both | `docs/funcionalidades.md:165-166`: "un recibo pendiente en el banco **nunca se envía dos veces**"; `billing.service.ts:326`: "A receipt still pending at the bank must not be sent twice" |
| An attended class is deleted | In run `calendar` as it is: `ReadExisting`, then `bulkUpsert` on a class the plan replaces, then `generate` | `group-schedule.tsx:275`: "Nunca se tocan clases con asistencia"; `class-schedule.service.ts:180-181`: "anything with attendance […] is history"; `docs/funcionalidades.md:92-93` |
| `LedgerBalanced` | `Slots = {s1, s2}` in `MCLedgerSerial.cfg`: two payments both read the total before either writes it; two collections register one receipt twice | `remittances.service.ts:105-106`: "never more than what the invoice still owes", "Idempotent" |
| `DirectDebitHasReceipt` | the same: a remittance is collected after `void` read its status | – |
| `NoneOutlivesPassword` | `Overlapping = TRUE` in `MCAuthSessions.cfg`: a login that verified the old password opens its session after the change | `auth.service.ts:224`: "signs out every session"; `:249`: "Every device is signed out" |
| `RefusedOnlyWhenEnded` | `Tabs = {t1, t2, t3}`, `Homes <- JustTogether` in `MCAuthSessions.cfg`: two tabs of a browser rotate the token while the third's refresh, with the first token, is on its way; it is taken for a copy and the session is revoked | `auth.service.ts:116-117`: "Any older token showing up later means it was copied" |
| `FreeOnHolidays` | `Overlapping <- Everything` in `MCCalendar.cfg`: a holiday is declared between the plan of a generation and its writes | `docs/funcionalidades.md:96`: "Las clases de esos días se cancelan solas" |
| `ComesBack` | the same, with two removals at once, which hand a class to each other's holiday | `docs/funcionalidades.md:96-97`: "si se quita el festivo vuelven al calendario" |
| `OnlyFaultsRepeat`, of absences | `Workers = {w1, w2}` in `MCNotices.cfg`: two saves of the attendance both find the family untold | `docs/funcionalidades.md:111`: "Uno por falta" |
| `LoginEndsWithItsChildren` | `Overlapping <- Everything` in `MCAccounts.cfg`: two revocations decide from the same count | `students.service.ts:196-197`: "if the login has no remaining children it is deleted too" |
| `TeacherHasProfile` | the same: a grant meets the removal of the profile | – |
| `RefusedOnlyIfMoved`, `PreviewIsOfTheChoice` | `Hasty <- EveryPage` in `MCScreens.cfg` (next paragraph) | – |

**Impatient users.** On every page the properties hold for a user who waits for
one thing to end before starting another. For a user who waits for nothing they
still hold on the 14 pages of `Impatient` (`MCScreens`) and on the nine that have
no control about a row, or a single one that its flag covers. On the other twenty:
`RefusedOnlyIfMoved` fails on group, waitlist, grades, invoice, trials,
remittances, students, student, teachers, teacher, groups, courses, holidays,
rooms, team and teacherGrades, where a handler without a flag can be sent twice,
or a form stays open over another action of the same user; `PreviewIsOfTheChoice`
fails on chargeGroup, billing, teacherHome and trialBooking, whose effect or
button does not drop the answer to an earlier choice. The consequence is a
message of error in the first case, and a stale preview in the second.

**Seen while reading**, and kept in the models as they are:

* an access token is valid until it expires even after its session has been
  closed (the API does not look at `auth_sessions` for it);
* a page whose first refresh is lost shows "Cargando" until it is reloaded
  (`lib/auth-context.tsx:55`: nobody catches what `fetch` throws);
* `src/README.md:166` still speaks of a hash in `User.refreshToken`; sessions
  have a table of their own;
* deleting a student leaves the family's login without children
  (`students.service.ts`; `remove` in `Accounts`), unlike erasing or revoking;
* what is typed in a form while it is being saved is overwritten by the load
  that follows; the amount of a group charge, or the month of a dry run, can be
  changed while its preview is in flight;
* the trial booking form can show, and book, a session of the group chosen
  before; the teacher's week and the reports keep what they had when a load
  fails;
* a trial's cancel button stays enabled while its conversion is in flight.

## 6. The proofs

TLAPS proves, for **every** value of the constants:

| Theorem | States | Under |
|---|---|---|
| **`InvoiceChainProofs`** | | |
| `TypeCorrect`, `NothingLost` | `Spec => []TypeOK`, `[]NoLostUpdate` | |
| `NumberingIsCorrelative`, `ChainIsLinear` | `Spec => []Correlative`; `[]Linked` and `[]TipIsLast` | |
| `ChainImplementsLog` | `Spec => ImplementsLog` | |
| **`LedgerProofs`** | | |
| `LedgerInvariantHolds`, `LedgerTypes` | `Spec => []LedgerInvariant`, `[]TypeOK` | |
| `NeverPaidBeyondAmount`, `StatusAgreesWithPaid`, `ReceiptsPointToTheirPayments`, `NoneLeftSent` | `Spec => []` of `PaidWithinAmount`, `StatusMatchesPaid`, `ReceiptHasItsPayment`, `CollectedLeavesNoneSent` | |
| `BooksBalanceAlone` | `Spec => []LedgerBalanced` | one request at a time (`Alone`) |
| `SerialHoldsAlone`, `DirectDebitsHaveReceipts`, `CardsAreRecordedOnce` | `Spec => []` of `SerialHolds`, `DirectDebitHasReceipt`, `CardRecordedOnce` | one request at a time; no checkout is a remittance |
| **`EnrollmentProofs`** | | |
| `EnrollmentInvariant`, `EnrollmentTypes` | `Spec => []IInv`, `[]TypeOK` | |
| `NoPeriodTwice`, `NobodyLeftOut` | `Spec => []PeriodInvoicedOnce`, `Spec => RunBillsEveryone` | |
| `ChargesDoNotRepeat` | `Spec => []RetriesChargeNobodyAgain` | |
| `SharesFair`, `MonthsAreShared` | `SharesAreFair`, `Spec => []MonthIsShared` | |
| **`AuthSessionsProofs`** | | |
| `SessionRowsHold` | `Spec => []RowsHold` | |
| `SessionsAreRegistered` | `Spec => ImplementsRegister` | |
| `PasswordsEndSessions` | `Spec => []NoneOutlivesPassword` | logins, changes and resets do not overlap (`~ Overlapping`) |
| `TwoTabsStaySignedIn` | `Spec => []RefusedOnlyWhenEnded` | two tabs to a browser at most; access tokens last (`AccessLife > 0`) |
| **`CalendarProofs`** | | |
| `RequestsUnderstand`, `CalendarTypes` | `Spec => []IInv`, `[]TypeOK` | |
| `NeverTwice`, `ClassesKeepTheirTime` | `Spec => []NoTwins`, `[]LocalTimeKept` | |
| `HolidaysAreFree` | `Spec => []FreeOnHolidays` | no holiday is declared under a plan or a removal |
| `CancelledClassesComeBack` | `Spec => []ComesBack` | two removals do not overlap |
| **`AccountsProofs`** | | |
| `UnderstandingHolds`, `AccountTypes` | `Spec => []IInv`, `[]TypeOK` | |
| `InvoicedStudentsAreKept`, `OfficeIsNeverLockedOut` | `Spec => []InvoicedIsKept`, `Spec => OfficeStays` | |
| `TeachersHaveProfiles` | `Spec => []TeacherHasProfile` | grants, revocations and removals of teachers do not overlap |
| `LoginsEndRight` | `Spec => LoginEndsWithItsChildren` | grants, revocations, erasures and removals of families do not overlap |
| **`NoticesProofs`** | | |
| `RemindersCounted` | `Spec => [](RowsHold /\ RemindersHold)` | |
| `RemindersAreSpaced` | `Spec => []RemindersSpaced` | |
| `NothingIsRepeated` | `Spec => []OnlyFaultsRepeat` | where attendance is marked there is one worker |
| **`ScreensProofs`** | | |
| `CallsOwe`, `NothingIsLeftDisabled` | `Spec => []Owed`, `[]NothingStaysDisabled` | |
| `PreviewsAreOfTheChoice` | `Spec => []PreviewIsOfTheChoice` | users wait for the preview where a late one is not dropped (`LateOnesAreDropped`) |
| `NothingForbiddenIsAsked` | `Spec => []NothingForbidden` | |
| `OnlyMovedRowsAreRefused` | `Spec => []RefusedOnlyIfMoved` | users wait on the pages that are not steady (`HurryIsSteady`) |

The last column is the hypothesis of the theorem: an overlap that the code does
not exclude and that breaks the property (section 5 has the traces). Everything
else may overlap, with any number of requests. The runs check the same
properties under the same conditions on their instances.

**Assumptions on constants**, which TLC evaluates in every run:

* `InvoiceChain`: `NoPeriod` is not a period.
* `Ledger`: amounts, payments and fees are positive naturals (the DTOs demand
  it), a rectification may be zero, days are naturals and `NoDay` is none.
* `Enrollment`: what makes invoices unique, "MATRICULA", "CHARGE" and the
  months, are different words. `Shares`: fees are natural numbers of cents,
  discounts whole percents up to a hundred, and the days with class are days of
  a month.
* `AuthSessions`: lifetimes are naturals; `MaxTokens` has room for a token for
  each browser's first session and one for each tab. This is about the bound and
  not about the code: without it the API of the model would stop answering.
* `Calendar`: days are finitely many, durations positive. `Clock`: a zone is two
  offsets and the instant of the change; nothing is assumed of how large or
  when it is.
* `Accounts`, `Notices`: what may overlap are operations; bounds are naturals;
  workers and addresses are finitely many, and a chunk of a message
  (`CONCURRENCY`) is not empty.

**InvoiceChain.** `Correlative` is not inductive: a commit writes
`read[r].counter + 1`, so one must know that `read[r]` is still the committed
row. `NoLostUpdate` says exactly that and follows from the row lock, because
`LockTenant` waits until nobody holds it and only its holder (or
`UpdateSettings`, which waits too) writes the row. The invariant `IInv` joins both
to `Linked` and `TipIsLast`, and to the shape of the rows. The refinement then
takes one lemma: a commit appends to `issued` exactly `InvoiceLog`'s `Entry`,
and every other step leaves `issued` alone.

**Ledger.** A request writes totals computed from a snapshot that may be
arbitrarily old, so `PaidWithinAmount` alone says nothing about the next
commit. `LedgerInvariant` adds `SnapshotsHold`: for every request in progress,
the invoice it read is issued, what it will write is within that invoice's
amount, and a collect lists every receipt of its remittance that is still SENT.
Why that survives every step of *other* requests is one lemma
(`SnapshotOutlives`) from two facts each step is shown to have: the amount of an
issued invoice never changes (`Frozen`), and a receipt never becomes SENT again
(`Onward`). Each action then has one lemma: the reading ones fill a slot with a
good snapshot, the committing ones write rows that agree (`SettledRow`,
`NewRow`). `BelongToIssued` keeps payments, checkouts and receipts off invoices
that do not exist yet.

For requests that do not overlap, `SerialHolds` joins the auditor's properties to
`Fresh`: what the request has read is still so when it writes. A collect then
finds its receipts at the bank, and a receipt at the bank has no payment yet
(`ReceiptHasItsPayment`), so that the one it registers is the only one of its
remittance; a deletion undoes the reference of its own receipt and of no other
(`DeletedAlone`). `BooksBalanceAlone` joins `LedgerBalanced` to `PaidIsFresh`: the
total a request is about to write is what is paid *now*, less what it deletes. Each
committing step then moves `paidAmount` and the sum of the payments by the same
amount; the sum is a recursive function, of which one needs only what registering
and deleting one payment do to it (`TotalOfOneMore`, `TotalWithoutOne`). With two
requests in progress `PaidIsFresh` is what fails (section 5). `CardsAreRecordedOnce`
is the other side of the violation that `card_twice` finds: only two deliveries at
the same time record a checkout twice.

**Enrollment, Calendar, Accounts.** One pattern: the invariant `IInv` is the shape
of the rows (`RowsHold`) and, for each request and run, what it *still* knows of
what it read (`Understood`, `RunKnows`). That survives the steps of others because
of a fact every step is shown to have (`Onward`): identifiers are never given
again, a holiday keeps its period, an untouched class its day, a login its role,
what is invoiced stays so while its enrollment exists. Locks are invariants of
their own: `LocksHold` (an enrollment that is locked stays), `OnePlan` (the
advisory lock of `generate`). `NobodyLeftOut` needs that whoever a run listed is
still to do, or settled. `ChargesDoNotRepeat` needs, of a charge that is about to
issue, that whoever else charged one of its students was in progress with it
(`ChargesKnown`): of what was issued before it began it has read, and skips the
student. The properties that need some operations to wait for
each other have a second invariant on top (`Free`, `Back`; `ProfilesAlone`,
`FamiliesAlone`), which says what a request knows *besides* when
those are excluded, with a lemma per action.

**Shares and Clock** are arithmetic. `SharesFair`: a share rounded twice, to the
cent, is within the fee and does not grow with the day of joining, because what
is left of the month shrinks with it. `ClassesKeepTheirTime`: the second look at
the offset settles it unless the wall time is one that was skipped or shown twice
(`ConversionKeepsTime`, `OnceSplitsTime`, `DaysAreTheirInstants`).

**AuthSessions.** Each action is first said in terms of the record it leaves in
its tab's request. The refinement of the register follows from how rows come and
go: an identifier is never live again, and renewing keeps `provedBy`.
`PasswordHolds` says that a request that verified a password still has the current
one. `TokensHold` is why two tabs do not sign each other out: the token a refresh
presents is the current one of its session, or the one just replaced, within
the grace, and then the other tab is quiet; a token an answer brings is current
and nobody has it yet. With a third tab "the other" is two, and it is not an
invariant any more.

**Notices.** An email is in `inbox` when the provider has it and in the rows when
the job comes to record it. The invariants account for the difference: what a
family received is at most what the rows count, plus one if a job holds it as
accepted and not recorded, plus `faults` (`RemindersHold`, `AbsencesHold`,
`MessagesHold`). They are inductive because there is one daily job a day, because
every worker that sends a message counts one, and because a mark that is new, or
not told of, leaves room for one more notice; two saves of the same attendance
would share that room, which is the hypothesis. `RemindersAreSpaced` is about days.
A reminder comes too soon only if the row is older than the last email the family
received of it (`Forgotten`), and that takes a fault, one for each such row
(`SpacedHold`): a reminder that is early uses up such a row, so that the early ones
and the rows that know too little are together never more than the faults.

**Screens.** `NothingStaysDisabled` is about all the calls at once; what is
inductive is what each owes (`Owed`): a flag that is up belongs to a call that is
not over, and every way a call ends lowers it; "Cargando" stays while a call is a
load, and no load is a preview, so none is dropped by a new choice. A guarded
preview *is* dropped, without lowering anything: it has to raise no flag, which is
a fact about the tables (`Sound`), proved page by page (`PagesAreSound`). The other
half of `Sound`, that only what a new choice clears is acted upon, and by a button
that is drawn with the preview and not by a form left open, is why what was seen
is what is sent. `Previews` adds that a preview on its way is of what is chosen
*now*: a patient user chooses nothing else meanwhile, and for a hasty one the
page drops the old ones (`LateOnesAreDropped`, true of the pages in `Impatient`).

`NothingForbidden` compares two tables written by different hands, the pages' calls
and the controllers' decorators. `Entitled` says of a page that every role its
layout lets in, and that a control is drawn for, reaches the control's route; it is
proved for the 43 pages. The invariant it needs is `Drawing`: a form that is open
and a call under way were drawn to *this* user, however long ago.

`RefusedOnlyIfMoved` compares the conditions under which a page draws a control with
those under which the API lets its call through. Of the tables it needs `Agreeing`,
also proved for all pages: a control is drawn only for rows its handler accepts, a
handler leaves a row of the same kind, and one after which the page does not look
again leaves the row as it was. Of the state it needs `Agreement`: a page that is up to date draws what the
API lets through for the row as it *is*; a form that was left open and a call that was
sent are accepted as long as nobody moved the row; an answer on its way brings the row
to show. A user who waits has one call in hand (`OneInHand`). One who does not can
press two buttons before either answer comes, and the first may make the API refuse
the second although nobody else moved the row. `Steady` says of a page that this
cannot happen: no handler takes another to a row it refuses. The 24 pages about no
row, the session, the family portal and the teacher's attendance sheet are steady
(`SteadyPages`), which covers `Impatient`, the pages the run gives to hasty users. The
other sixteen are the ones on which TLC finds a refusal when users do not wait
(section 5), so that the hypothesis cannot be weaker.

## 7. Only model-checked, not modelled

Model-checked only:

* liveness (`EveryTransactionEnds`, `OverdueIsFlagged`, `LoadingEnds`,
  `AllReminded`): fairness and ENABLED are beyond the prover;
* `OverlapsAreSeen`: the two sweeps are folds over lists that are sorted first,
  and what a fold computes for every input needs induction over data;
* the properties of section 5 that end in a violation.

Left out of the modules, on purpose:

* texts and documents: PDF, QR, pain.008 XML, CSV, iCalendar, emails' contents,
  names, the date of Easter;
* which invoices a month and its mandates select for a remittance:
  `ReadSepaXml` takes *any* nonempty subset of the collectable ones;
* the override of a student's monthly fee, the day the billing cron fires and
  the other academies of its loop;
* a teacher's, room's and notes' columns of a class; a weekday has one class;
* `signup`, which creates everything it touches, and the throttling of the
  public routes;
* `createInvoiceCheckout`'s own failure, which leaves nothing behind, and
  webhooks with an invalid signature, which are refused before any state is
  read;
* `DRAFT` invoices: no code creates one;
* of the pages: the return from Stripe's own page (`handlePayOnline` leaves its
  flag up, which only shows if the browser restores the page from its cache);
  what is typed, sorted, filtered and exported, and what the API
  refuses for reasons that are not in the row the page shows.

Components without a module: users, configuration and bootstrap; documents and
text; shared packages, scripts and deployment. They keep no state, or produce
layout no property is about. Those marked `partly` in `PROJECT.json` say what is
missing.

## 8. Plan

Done: `InvoiceLog`, `InvoiceChain`, `Ledger`, `LedgerAudit` (the fiscal chain and
the academy's money); `Enrollment` with `Shares` (who is charged, and how much);
`AuthSessions` and `SessionRegister`; `Calendar` with `Clock`; `Notices`;
`Accounts`; `Routes`, `Rows`, the page tables, `Screens` and `Agenda`. All the
safety properties that the runs check are proved, but for `OverlapsAreSeen`.

Left, should the code or the prover move:

1. `OverlapsAreSeen` for lists of any length, when an induction theorem can be
   instantiated.
2. What the properties of section 6 that are proved "where requests do not overlap"
   become if the code takes the row locks that section 5 shows to be missing: their
   second invariants (`Fresh`, `PaidIsFresh`, `ProfilesAlone`) would then
   be facts about locks, as `NoLostUpdate` is.
3. The parts of section 7 that keep state: the override of a monthly fee, the
   selection of a month's invoices for a remittance, `signup`.
