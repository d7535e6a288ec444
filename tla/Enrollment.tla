----------------------------- MODULE Enrollment -----------------------------
(***************************************************************************)
(* Getting into a group and being charged for it: online requests, trial   *)
(* classes, the waiting list, the enrollment fee (matricula), the monthly  *)
(* billing and the one-off group charges of one academy, for one group.    *)
(*                                                                         *)
(* As in Ledger, a request checks what it read outside any transaction and *)
(* writes later.  A transaction that activates an enrollment is two steps  *)
(* more: its UPDATE locks the row and looks for an earlier matricula, and  *)
(* its commit inserts the invoice.  A run is one call of generateMonth (by *)
(* hand or by the daily cron) or of GroupChargeService.charge: two reads   *)
(* and then a transaction per student, each on its own.                    *)
(*                                                                         *)
(* Invoices are seen here by what keeps them unique: the enrollment they   *)
(* hang from and their billing period.  InvoiceChain shows how each insert *)
(* gets its number and Ledger what happens to the invoice afterwards.      *)
(***************************************************************************)
EXTENDS Naturals, FiniteSets, Shares

CONSTANTS Slots,           \* requests in progress at the same time
          Runs,            \* calls of generateMonth and of charge
          Students,        \* students there can be
          Months,          \* billing periods "YYYY-MM"
          Exempt,          \* students with no monthly fee to pay
          Given,           \* the statuses the academy gives
          MaxCapacity,     \* the group's places
          MAX_TRIALS_PER_SESSION,
          MaxEnrollments   \* bound: times a student is enrolled

ASSUME EnrollmentAssumption ==
  /\ Exempt \subseteq Students
  /\ Given \subseteq {"ACTIVE", "COMPLETED", "DROPPED", "PENDING", "WAITLIST"}
  /\ MaxCapacity \in Nat /\ MAX_TRIALS_PER_SESSION \in Nat
  /\ MaxEnrollments \in Nat
  /\ {"MATRICULA", "CHARGE"} \cap Months = {}

VARIABLES known,       \* the students that have a row
          enrollment,  \* each student's enrollment in the group
          trial,       \* each student's trial class
          invoices,    \* each student's invoices
          request,     \* what each slot has read and is about to write
          run,         \* the progress of each run
          overlapped   \* history: the pairs of charges in progress at once

vars == <<known, enrollment, trial, invoices, request, run, overlapped>>

ENROLLMENT_FEE_PERIOD == "MATRICULA"

Statuses == {"ACTIVE", "COMPLETED", "DROPPED", "PENDING", "WAITLIST"}

NoRequest == [op |-> "idle"]

-----------------------------------------------------------------------------
(* Rows.  id tells the enrollments that a student has had one after the    *)
(* other apart: deleting one and enrolling again gives a new row.          *)

Exists(s, id) == enrollment[s].status # "NONE" /\ enrollment[s].id = id
Active == {s \in Students : enrollment[s].status = "ACTIVE"}

HasInvoice(s, id, concept) ==
  \E i \in invoices[s] : i.enrollment = id /\ i.concept = concept

(* Mutant: the unique index is missing.                                    *)
NeverRefused(s, id, concept) == FALSE

(* The unique (enrollmentId, billingPeriod); a group charge has no period. *)
Refused(s, id, concept) ==
  /\ concept # "CHARGE"
  /\ HasInvoice(s, id, concept)

(* The insert also fails when the enrollment it points to is gone.         *)
Insertable(s, id, concept) == Exists(s, id) /\ ~ Refused(s, id, concept)

(* nth tells invoices of a student with the same concept apart; by is      *)
(* history, the group charge that issued it.                               *)
InvoicedBy(by, s, id, concept) ==
  invoices[s] \cup
    {[enrollment |-> id, concept |-> concept, by |-> by,
      nth |-> 1 + Cardinality({i \in invoices[s] : i.concept = concept})]}

Invoiced(s, id, concept) == InvoicedBy({}, s, id, concept)

(* Mutant: the references to a deleted enrollment stay.                    *)
DetachNothing(s) == invoices[s]

(* onDelete: SetNull of the invoices of a deleted enrollment.              *)
Detach(s) == {[i EXCEPT !.enrollment = 0] : i \in invoices[s]}

Enrolled(s, status) ==
  [enrollment EXCEPT ![s] = [status |-> status, id |-> @.id + 1]]

(* The unique (studentId, groupId).                                        *)
CanEnroll(s) ==
  enrollment[s].status = "NONE" /\ enrollment[s].id < MaxEnrollments

(* An open transaction holds the student's row.                            *)
Locked(s) == \E q \in Slots : /\ request[q].op = "tx"
                              /\ request[q].s = s /\ request[q].id # 0

Init == /\ known \in SUBSET Students
        /\ enrollment = [s \in Students |-> [status |-> "NONE", id |-> 0]]
        /\ trial = [s \in Students |-> "NONE"]
        /\ invoices = [s \in Students |-> {}]
        /\ request = [q \in Slots |-> NoRequest]
        /\ run = [u \in Runs |-> [phase |-> "idle"]]
        /\ overlapped = {}

-----------------------------------------------------------------------------
(* Public requests: the group is full, or not, when the family asks.       *)

isFull == Cardinality(Active) >= MaxCapacity

Hold(q, r) ==
  /\ request[q] = NoRequest
  /\ request' = [request EXCEPT ![q] = r]
  /\ UNCHANGED <<known, enrollment, trial, invoices, run, overlapped>>

Finish(q) == request' = [request EXCEPT ![q] = NoRequest]

ReadEnroll(q) ==
  Hold(q, [op |-> "enroll", status |-> IF isFull THEN "WAITLIST" ELSE "PENDING"])

(* The student is created in the same transaction.                         *)
CommitEnroll(q) ==
  /\ request[q].op = "enroll"
  /\ \E s \in Students \ known :
       /\ known' = known \cup {s}
       /\ enrollment' = Enrolled(s, request[q].status)
  /\ Finish(q)
  /\ UNCHANGED <<trial, invoices, run, overlapped>>

TrialPlaces == Cardinality({s \in Students : trial[s] \notin {"NONE", "CANCELLED"}})
                 < MAX_TRIALS_PER_SESSION

ReadBookTrial(q) ==
  /\ TrialPlaces
  /\ ~ isFull
  /\ Hold(q, [op |-> "bookTrial"])

CommitBookTrial(q) ==
  /\ request[q].op = "bookTrial"
  /\ \E s \in Students \ known :
       /\ known' = known \cup {s}
       /\ trial' = [trial EXCEPT ![s] = "BOOKED"]
  /\ Finish(q)
  /\ UNCHANGED <<enrollment, invoices, run, overlapped>>

-----------------------------------------------------------------------------
(* The academy's side of trial classes.                                    *)

Cancellable(s) == trial[s] = "BOOKED"

ReadCancel(q) ==
  /\ \E s \in Students : Cancellable(s) /\ Hold(q, [op |-> "cancel", s |-> s])

(* The update is by id only: the status is not looked at again.            *)
CommitCancel(q) ==
  /\ request[q].op = "cancel"
  /\ trial' = [trial EXCEPT ![request[q].s] = "CANCELLED"]
  /\ Finish(q)
  /\ UNCHANGED <<known, enrollment, invoices, run, overlapped>>

(* convert reads the trial, and then looks for an enrollment.              *)
ReadConvert(q) ==
  /\ \E s \in Students, status \in {"ACTIVE", "WAITLIST"}, charge \in BOOLEAN :
       /\ trial[s] \in {"BOOKED", "CONVERTED"}
       /\ Hold(q, [op |-> "convert", s |-> s, status |-> status,
                   charge |-> charge /\ status = "ACTIVE",
                   converted |-> trial[s] = "CONVERTED"])

ReadExisting(q) ==
  LET r == request[q]
      e == enrollment[r.s] IN
  /\ r.op = "convert"
  /\ ~ (e.status # "NONE" /\ r.converted)
  /\ request' = [request EXCEPT ![q] =
       [op |-> "convertTx", s |-> r.s, status |-> r.status, charge |-> r.charge,
        id |-> IF e.status = "NONE" THEN 0 ELSE e.id]]
  /\ UNCHANGED <<known, enrollment, trial, invoices, run, overlapped>>

-----------------------------------------------------------------------------
(* Enrollments.                                                            *)

(* One transaction that depends on nothing read before it.                 *)
CreateEnrollment ==
  /\ \E s \in known, status \in Given, charge \in BOOLEAN :
       /\ CanEnroll(s)
       /\ enrollment' = Enrolled(s, status)
       /\ invoices' = IF status = "ACTIVE" /\ charge
                        THEN [invoices EXCEPT ![s] =
                                Invoiced(s, enrollment[s].id + 1,
                                         ENROLLMENT_FEE_PERIOD)]
                        ELSE invoices
  /\ UNCHANGED <<known, trial, request, run, overlapped>>

(* update: becomesActive is decided with the status read here.             *)
ReadUpdate(q) ==
  \E s \in Students, status \in Given, charge \in BOOLEAN :
    /\ enrollment[s].status # "NONE"
    /\ Hold(q, [op |-> "update", s |-> s, id |-> enrollment[s].id,
                status |-> status,
                charge |-> /\ charge /\ status = "ACTIVE"
                           /\ enrollment[s].status # "ACTIVE"])

(* Whether chargeEnrollmentFee finds no matricula of this enrollment.      *)
FeeDue(s, id) == ~ HasInvoice(s, id, ENROLLMENT_FEE_PERIOD)

(* Inside the transaction: UPDATE of the enrollment, which waits for its   *)
(* lock and fails if it is gone (see Fail), then the matricula is looked   *)
(* for.  A conversion without an enrollment (id 0) inserts one instead.    *)
LockEnrollment(q) ==
  LET r == request[q] IN
  /\ r.op \in {"update", "convertTx"}
  /\ r.id # 0 => Exists(r.s, r.id) /\ ~ Locked(r.s)
  /\ request' = [request EXCEPT ![q] =
       [op |-> "tx", s |-> r.s, id |-> r.id, status |-> r.status,
        converts |-> r.op = "convertTx",
        due |-> r.charge /\ (r.id # 0 => FeeDue(r.s, r.id))]]
  /\ UNCHANGED <<known, enrollment, trial, invoices, run, overlapped>>

CommitEnrollment(q) ==
  LET r == request[q]
      id == IF r.id # 0 THEN r.id ELSE enrollment[r.s].id + 1 IN
  /\ r.op = "tx"
  /\ IF r.id # 0 THEN enrollment' = [enrollment EXCEPT ![r.s].status = r.status]
                 ELSE CanEnroll(r.s) /\ enrollment' = Enrolled(r.s, r.status)
  /\ IF r.due
       THEN /\ ~ Refused(r.s, id, ENROLLMENT_FEE_PERIOD)
            /\ invoices' = [invoices EXCEPT ![r.s] =
                              Invoiced(r.s, id, ENROLLMENT_FEE_PERIOD)]
       ELSE UNCHANGED invoices
  /\ trial' = IF r.converts THEN [trial EXCEPT ![r.s] = "CONVERTED"] ELSE trial
  /\ Finish(q)
  /\ UNCHANGED <<known, run, overlapped>>

(* chargeFee, which locks nothing.                                         *)
ReadChargeFee(q) ==
  \E s \in Students :
    /\ enrollment[s].status # "NONE"
    /\ FeeDue(s, enrollment[s].id)
    /\ Hold(q, [op |-> "chargeFee", s |-> s, id |-> enrollment[s].id])

CommitChargeFee(q) ==
  LET r == request[q] IN
  /\ r.op = "chargeFee"
  /\ Insertable(r.s, r.id, ENROLLMENT_FEE_PERIOD)
  /\ invoices' = [invoices EXCEPT ![r.s] =
                    Invoiced(r.s, r.id, ENROLLMENT_FEE_PERIOD)]
  /\ Finish(q)
  /\ UNCHANGED <<known, enrollment, trial, run, overlapped>>

(* The DELETE waits for the row too.                                       *)
RemoveEnrollment ==
  /\ \E s \in Students :
       /\ enrollment[s].status # "NONE"
       /\ ~ Locked(s)
       /\ enrollment' = [enrollment EXCEPT ![s].status = "NONE"]
       /\ invoices' = [invoices EXCEPT ![s] = Detach(s)]
  /\ UNCHANGED <<known, trial, request, run, overlapped>>

(* A check refuses the request after its reads, a statement of its         *)
(* transaction throws (row gone, unique index), or the process dies.       *)
Fail(q) ==
  /\ request[q] # NoRequest
  /\ Finish(q)
  /\ UNCHANGED <<known, enrollment, trial, invoices, run, overlapped>>

-----------------------------------------------------------------------------
(* Runs: the month's fees, or a one-off concept, for every active student. *)

Running(u) == run[u].phase \in {"listed", "issuing"}
Charging(u) == Running(u) /\ run[u].concept = "CHARGE"
Listed(u) == {s \in Students : run[u].listed[s] # 0}

(* History: the call an invoice is put down to, if it is a charge, and the *)
(* charges in progress when u begins, with u.                              *)
Issuer(u) == IF run[u].concept = "CHARGE" THEN {u} ELSE {}
Pairs(u) == {{u, t} : t \in {t \in Runs : Charging(t)}}

ReadEnrollments(u) ==
  /\ run[u].phase = "idle"
  /\ \E concept \in Months \cup {"CHARGE"} :
       /\ concept = "CHARGE" => Active # {}
       /\ overlapped' = IF concept = "CHARGE" THEN overlapped \cup Pairs(u)
                                              ELSE overlapped
       /\ run' = [run EXCEPT ![u] =
            [phase |-> "listed", concept |-> concept,
             listed |-> [s \in Students |->
                         IF s \in Active THEN enrollment[s].id ELSE 0]]]
  /\ UNCHANGED <<known, enrollment, trial, invoices, request>>

(* Mutant: only invoices of the same enrollment count, also for a charge.  *)
BilledByEnrollment(u) ==
  {s \in Listed(u) :
     HasInvoice(s, run[u].listed[s], run[u].concept)}

(* The month's invoices of the enrollments listed; the charges with the    *)
(* same concept of their students.                                         *)
Billed(u) ==
  {s \in Listed(u) :
     \E i \in invoices[s] :
       /\ i.concept = run[u].concept
       /\ run[u].concept \in Months => i.enrollment = run[u].listed[s]}

ReadInvoices(u) ==
  /\ run[u].phase = "listed"
  /\ run' = [run EXCEPT ![u] =
       [phase |-> "issuing", concept |-> run[u].concept,
        listed |-> run[u].listed,
        todo |-> Listed(u)
                   \ (Billed(u) \cup (IF run[u].concept \in Months THEN Exempt
                                                                  ELSE {}))]]
  /\ UNCHANGED <<known, enrollment, trial, invoices, request, overlapped>>

(* One transaction.                                                        *)
IssueNext(u) ==
  /\ run[u].phase = "issuing"
  /\ \E s \in run[u].todo :
       /\ Insertable(s, run[u].listed[s], run[u].concept)
       /\ invoices' = [invoices EXCEPT ![s] =
                         InvoicedBy(Issuer(u), s, run[u].listed[s], run[u].concept)]
       /\ run' = [run EXCEPT ![u].todo = @ \ {s}]
  /\ UNCHANGED <<known, enrollment, trial, request, overlapped>>

EndRun(u) ==
  /\ run[u].phase = "issuing"
  /\ run[u].todo = {}
  /\ run' = [run EXCEPT ![u] = [phase |-> "done"]]
  /\ UNCHANGED <<known, enrollment, trial, invoices, request, overlapped>>

(* Mutant: the error is caught and the run reports success.                *)
AbandonRunQuietly(u) ==
  /\ Running(u)
  /\ run' = [run EXCEPT ![u] = [phase |-> "done"]]
  /\ UNCHANGED <<known, enrollment, trial, invoices, request, overlapped>>

(* An insert throws and nobody catches it, or the process dies: what was   *)
(* issued stays and the rest is not.                                       *)
AbandonRun(u) ==
  /\ Running(u)
  /\ run' = [run EXCEPT ![u] = [phase |-> "failed"]]
  /\ UNCHANGED <<known, enrollment, trial, invoices, request, overlapped>>

Next ==
  \/ \E q \in Slots :
       \/ ReadEnroll(q) \/ CommitEnroll(q) \/ ReadBookTrial(q)
       \/ CommitBookTrial(q) \/ ReadCancel(q) \/ CommitCancel(q)
       \/ ReadConvert(q) \/ ReadExisting(q) \/ ReadUpdate(q)
       \/ LockEnrollment(q) \/ CommitEnrollment(q)
       \/ ReadChargeFee(q) \/ CommitChargeFee(q) \/ Fail(q)
  \/ CreateEnrollment \/ RemoveEnrollment
  \/ \E u \in Runs : \/ ReadEnrollments(u) \/ ReadInvoices(u) \/ IssueNext(u)
                     \/ EndRun(u) \/ AbandonRun(u)

Spec == Init /\ [][Next]_vars

-----------------------------------------------------------------------------
Concepts == Months \cup {"MATRICULA", "CHARGE"}
InvoiceRows == [enrollment : Nat, concept : Concepts, by : SUBSET Runs, nth : Nat]

FamilyRequests == [op : {"enroll"}, status : {"PENDING", "WAITLIST"}]
                    \cup [op : {"bookTrial"}]
TrialDeskRequests ==
  [op : {"cancel"}, s : Students]
    \cup [op : {"convert"}, s : Students, status : {"ACTIVE", "WAITLIST"},
          charge : BOOLEAN, converted : BOOLEAN]
EnrollmentRequests ==
  [op : {"update", "convertTx"}, s : Students, id : Nat, status : Statuses,
   charge : BOOLEAN]
    \cup [op : {"tx"}, s : Students, id : Nat, status : Statuses,
          converts : BOOLEAN, due : BOOLEAN]
    \cup [op : {"chargeFee"}, s : Students, id : Nat]
RequestRecords == {NoRequest} \cup FamilyRequests \cup TrialDeskRequests
                    \cup EnrollmentRequests

RunRecords ==
  [phase : {"idle", "done", "failed"}]
    \cup [phase : {"listed"}, concept : Months \cup {"CHARGE"}, listed : [Students -> Nat]]
    \cup [phase : {"issuing"}, concept : Months \cup {"CHARGE"},
          listed : [Students -> Nat], todo : SUBSET Students]

(* Rows have their types, only students that exist have an enrollment or a *)
(* trial, and every invoice that points to an enrollment points to one     *)
(* that exists.                                                            *)
TypeOK ==
  /\ known \in SUBSET Students
  /\ enrollment \in [Students -> [status : Statuses \cup {"NONE"}, id : Nat]]
  /\ trial \in [Students -> {"NONE", "BOOKED", "CONVERTED", "CANCELLED"}]
  /\ invoices \in [Students -> SUBSET InvoiceRows]
  /\ request \in [Slots -> RequestRecords]
  /\ run \in [Runs -> RunRecords]
  /\ overlapped \subseteq SUBSET Runs
  /\ \A s \in Students \ known :
       enrollment[s].id = 0 /\ trial[s] = "NONE" /\ invoices[s] = {}
  /\ \A s \in Students : \A i \in invoices[s] :
       i.enrollment # 0 => Exists(s, i.enrollment)

(* An enrollment is charged its matricula once, and each month once,       *)
(* however many activations, manual charges and billing runs overlap.      *)
PeriodInvoicedOnce ==
  \A s \in Students : \A i, j \in invoices[s] :
    /\ i.enrollment = j.enrollment /\ i.enrollment # 0
    /\ i.concept = j.concept /\ i.concept # "CHARGE"
    => i = j

(* A run that ends without an error leaves every student it listed with    *)
(* the month's invoice of that enrollment, or with the charge: whatever    *)
(* was issued, dropped, deleted or enrolled again during the run.          *)
RunBillsEveryone ==
  [][\A u \in Runs :
       run[u].phase = "issuing" /\ run'[u].phase = "done" =>
         \A s \in Listed(u) :
           \/ ~ Exists(s, run[u].listed[s])
           \/ run[u].concept \in Months /\ s \in Exempt
           \/ \E i \in invoices[s] :
                /\ i.concept = run[u].concept
                /\ run[u].concept \in Months
                     => i.enrollment = run[u].listed[s]]_vars

(* Submitting a concept again on the same day (GroupChargeService.charge)   *)
(* charges nobody again, also after a call that failed halfway and also a  *)
(* student dropped, deleted or enrolled again meanwhile: a student has the *)
(* concept twice only of two calls that were in progress at the same time. *)
(* Those, a double click among them, do charge twice: nothing locks what   *)
(* the second one read.                                                    *)
RetriesChargeNobodyAgain ==
  \A s \in Students : \A i, j \in invoices[s] :
    i.concept = "CHARGE" /\ j.concept = "CHARGE" /\ i # j
      => i.by \cup j.by \in overlapped

(* A month that is invoiced costs the share of it that is left for whoever *)
(* joined in it, after the discount: see SharesAreFair                     *)
(* (BillingService.generateMonth).                                         *)
MonthIsShared ==
  \A s \in Students : \A i \in invoices[s] : i.concept \in Months => SharesAreFair
=============================================================================
