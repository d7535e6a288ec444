-------------------------- MODULE EnrollmentProofs --------------------------
(***************************************************************************)
(* What holds of Enrollment for every number of students, requests, runs   *)
(* and months, of any fees and calendar.                                   *)
(*                                                                         *)
(* A run bills from a list it read, and a transaction writes over a row    *)
(* that it locked.  Understood and RunKnows say what is still true of what *)
(* they read, whatever others do meanwhile; they rest on two facts about   *)
(* every step: what is gone does not come back and what is invoiced stays  *)
(* so while its enrollment exists (Onward), and a locked enrollment stays  *)
(* (LocksHold).                                                            *)
(***************************************************************************)
EXTENDS Enrollment, TLAPS, FiniteSetTheorems

(* The rows, without who reads them.                                       *)
EnrollmentRows == [status : Statuses \cup {"NONE"}, id : Nat]
Trials == {"NONE", "BOOKED", "CONVERTED", "CANCELLED"}

(* No two invoices of the same period hang from the same enrollment, and   *)
(* none from one that does not exist.                                      *)
Distinct(rows) == \A i, j \in rows :
  (i.enrollment = j.enrollment /\ i.enrollment # 0 /\ i.concept = j.concept /\ i.concept # "CHARGE") => i = j
Refers(rows, e) == \A i \in rows : i.enrollment # 0 => (e.status # "NONE" /\ e.id = i.enrollment)

RowsHold ==
  /\ known \in SUBSET Students
  /\ enrollment \in [Students -> EnrollmentRows]
  /\ trial \in [Students -> Trials]
  /\ invoices \in [Students -> SUBSET InvoiceRows]
  /\ \A s \in Students \ known :
       enrollment[s].status = "NONE" /\ enrollment[s].id = 0 /\ trial[s] = "NONE" /\ invoices[s] = {}
  /\ \A s \in Students : IsFiniteSet(invoices[s]) /\ Distinct(invoices[s]) /\ Refers(invoices[s], enrollment[s])

WithStudent == {"cancel", "convert", "convertTx", "update", "tx", "chargeFee"}
Holds(r, s) == r.op = "tx" /\ r.id # 0 /\ r.s = s

Understood(r) ==
  /\ r.op \in WithStudent => r.s \in known
  /\ (r.op = "tx" /\ r.id # 0) => Exists(r.s, r.id)

OneHolder == \A p, q \in Slots, s \in Students : (Holds(request[p], s) /\ Holds(request[q], s)) => p = q

(* What a run has done with a student it listed.                           *)
Settled(x, s) ==
  \/ ~ Exists(s, x.listed[s])
  \/ x.concept \in Months /\ s \in Exempt
  \/ \E i \in invoices[s] : i.concept = x.concept /\ (x.concept \in Months => i.enrollment = x.listed[s])

RunKnows(x) ==
  /\ x.phase \in {"listed", "issuing"} => \A s \in Students : x.listed[s] <= enrollment[s].id
  /\ x.phase = "issuing" => \A s \in Students : (x.listed[s] # 0 /\ s \notin x.todo) => Settled(x, s)

IInv ==
  /\ RowsHold
  /\ request \in [Slots -> RequestRecords] /\ run \in [Runs -> RunRecords]
  /\ OneHolder /\ \A q \in Slots : Understood(request[q])
  /\ \A u \in Runs : RunKnows(run[u])

(* What no step does.                                                      *)
Onward ==
  /\ known \subseteq known'
  /\ \A s \in Students :
       /\ enrollment[s].id <= enrollment'[s].id
       /\ \A n \in 0..enrollment[s].id : Exists(s, n)' => Exists(s, n)
       /\ \A i \in invoices[s] : \E j \in invoices'[s] :
            j.concept = i.concept /\ (j.enrollment = i.enrollment \/ ~ Exists(s, i.enrollment)')
LocksHold == \A s \in Students, n \in Nat : (Locked(s) /\ Exists(s, n)) => Exists(s, n)'

(* Why a second charge of a student overlapped the first one: charges in   *)
(* progress have overlapped, and whoever one of them is about to charge    *)
(* was charged meanwhile, if at all, by others in progress.                *)
OverlapsKnown == \A t, u \in Runs : (Charging(t) /\ Charging(u) /\ t # u) => {t, u} \in overlapped
Meanwhile(u, s) == \A i \in invoices[s] : i.concept = "CHARGE" => i.by \cup {u} \in overlapped
ChargesKnown ==
  /\ RetriesChargeNobodyAgain /\ OverlapsKnown
  /\ \A u \in Runs : (run[u].phase = "issuing" /\ run[u].concept = "CHARGE") =>
                        \A s \in run[u].todo : Meanwhile(u, s)

-----------------------------------------------------------------------------
(* Rows.                                                                   *)

LEMMA TypesAreRows ==
  /\ IInv /\ overlapped \subseteq SUBSET Runs => TypeOK
  /\ IInv => PeriodInvoicedOnce
BY DEF IInv, RowsHold, TypeOK, PeriodInvoicedOnce, Distinct, Refers, Exists, EnrollmentRows, Trials

(* What a request holds, by its operation.                                 *)
LEMMA RequestFields ==
  ASSUME NEW r \in RequestRecords
  PROVE  /\ r.op = "enroll" => r.status \in {"PENDING", "WAITLIST"}
         /\ r.op = "cancel" => r.s \in Students
         /\ r.op = "convert" => /\ r.s \in Students /\ r.status \in {"ACTIVE", "WAITLIST"}
                                /\ r.charge \in BOOLEAN
         /\ r.op \in {"update", "convertTx"} => /\ r.s \in Students /\ r.id \in Nat /\ r.status \in Statuses
                                                /\ r.charge \in BOOLEAN
         /\ r.op = "tx" => /\ r.s \in Students /\ r.id \in Nat /\ r.status \in Statuses
                           /\ r.due \in BOOLEAN /\ r.converts \in BOOLEAN
         /\ r.op = "chargeFee" => r.s \in Students /\ r.id \in Nat
BY DEF RequestRecords, NoRequest, FamilyRequests, TrialDeskRequests, EnrollmentRequests

(* What a run holds, by its phase.                                         *)
LEMMA RunFields ==
  ASSUME NEW x \in RunRecords
  PROVE  /\ x.phase \in {"listed", "issuing"} => x.concept \in Months \cup {"CHARGE"} /\ x.listed \in [Students -> Nat]
         /\ x.phase = "issuing" => x.todo \in SUBSET Students
BY DEF RunRecords

(* An insert adds one row.                                                 *)
LEMMA InvoicedByRows ==
  ASSUME RowsHold, NEW by \in SUBSET Runs, NEW s \in Students, NEW id \in Nat, NEW concept \in Concepts
  PROVE  \E new \in InvoiceRows :
           /\ new.enrollment = id /\ new.concept = concept /\ new.by = by
           /\ InvoicedBy(by, s, id, concept) = invoices[s] \cup {new}
<1> DEFINE same == {i \in invoices[s] : i.concept = concept}
           new == [enrollment |-> id, concept |-> concept, by |-> by, nth |-> 1 + Cardinality(same)]
<1>1. IsFiniteSet(same)
  BY FS_Subset DEF RowsHold
<1>2. Cardinality(same) \in Nat
  BY <1>1, FS_CardinalityType
<1> HIDE DEF same
<1>3. new \in InvoiceRows /\ new.enrollment = id /\ new.concept = concept /\ new.by = by
  BY <1>2 DEF InvoiceRows
<1>4. InvoicedBy(by, s, id, concept) = invoices[s] \cup {new}
  BY DEF InvoicedBy, same
<1> QED  BY <1>3, <1>4

LEMMA InvoicedRows ==
  ASSUME RowsHold, NEW s \in Students, NEW id \in Nat, NEW concept \in Concepts
  PROVE  \E new \in InvoiceRows :
           /\ new.enrollment = id /\ new.concept = concept
           /\ Invoiced(s, id, concept) = invoices[s] \cup {new}
<1> PICK by : by \in SUBSET Runs /\ by = {}
  OBVIOUS
<1>1. Invoiced(s, id, concept) = InvoicedBy(by, s, id, concept)
  BY DEF Invoiced
<1> QED  BY <1>1, InvoicedByRows

(* Deleting an enrollment leaves every invoice, without it.                *)
LEMMA DetachedRows ==
  ASSUME RowsHold, NEW s \in Students
  PROVE  /\ Detach(s) \in SUBSET InvoiceRows /\ IsFiniteSet(Detach(s))
         /\ \A i \in Detach(s) : i.enrollment = 0
         /\ \A i \in invoices[s] : \E j \in Detach(s) : j.concept = i.concept
         /\ \A j \in Detach(s) : \E i \in invoices[s] : j = [i EXCEPT !.enrollment = 0]
<1> PICK rows \in SUBSET InvoiceRows : rows = invoices[s] /\ IsFiniteSet(rows)
  BY DEF RowsHold
<1> PICK f : f = [i \in rows |-> [i EXCEPT !.enrollment = 0]]
  OBVIOUS
<1>1. Detach(s) = {f[i] : i \in rows}
  BY DEF Detach
<1>2. \A i \in rows : f[i] \in InvoiceRows /\ f[i].enrollment = 0 /\ f[i].concept = i.concept
  BY DEF InvoiceRows
<1>3. \A i \in rows : f[i] = [i EXCEPT !.enrollment = 0]
  OBVIOUS
<1>4. IsFiniteSet(Detach(s))
  <2>1. f \in [rows -> Detach(s)] /\ \A j \in Detach(s) : \E i \in rows : f[i] = j
    BY <1>1
  <2>2. f \in Surjection(rows, Detach(s))
    BY <2>1 DEF Surjection
  <2> QED  BY <2>2, FS_Surjection
<1> QED  BY <1>1, <1>2, <1>3, <1>4, ZenonT(60)

(* A step that changes the rows of one student.                            *)
LEMMA RowStep ==
  ASSUME RowsHold, NEW s \in Students, NEW e \in EnrollmentRows, NEW rows \in SUBSET InvoiceRows, NEW t \in Trials,
         known' \in SUBSET Students, known \subseteq known', s \in known',
         enrollment' = [enrollment EXCEPT ![s] = e], invoices' = [invoices EXCEPT ![s] = rows],
         trial' = [trial EXCEPT ![s] = t],
         IsFiniteSet(rows), Distinct(rows), Refers(rows, e),
         enrollment[s].id <= e.id,
         \A n \in 0..enrollment[s].id : (e.status # "NONE" /\ e.id = n) => Exists(s, n),
         \A i \in invoices[s] : \E j \in rows :
           j.concept = i.concept /\ (j.enrollment = i.enrollment \/ ~(e.status # "NONE" /\ e.id = i.enrollment))
  PROVE  RowsHold' /\ Onward
<1>1. /\ enrollment'[s] = e /\ invoices'[s] = rows /\ trial'[s] = t
      /\ \A o \in Students \ {s} : /\ enrollment'[o] = enrollment[o] /\ invoices'[o] = invoices[o]
                                   /\ trial'[o] = trial[o]
  BY DEF RowsHold
<1>2. /\ enrollment' \in [Students -> EnrollmentRows] /\ trial' \in [Students -> Trials]
      /\ invoices' \in [Students -> SUBSET InvoiceRows]
  BY DEF RowsHold
<1>3. \A o \in Students \ known' :
        enrollment'[o].status = "NONE" /\ enrollment'[o].id = 0 /\ trial'[o] = "NONE" /\ invoices'[o] = {}
  BY <1>1 DEF RowsHold
<1>4. ASSUME NEW o \in Students
      PROVE  IsFiniteSet(invoices'[o]) /\ Distinct(invoices'[o]) /\ Refers(invoices'[o], enrollment'[o])
  <2>1. CASE o = s
    BY <1>1, <2>1
  <2>2. CASE o # s
    BY <1>1, <2>2 DEF RowsHold
  <2> QED  BY <2>1, <2>2
<1>5. RowsHold'
  BY <1>2, <1>3, <1>4 DEF RowsHold
<1>6. ASSUME NEW o \in Students
      PROVE  /\ enrollment[o].id <= enrollment'[o].id
             /\ \A n \in 0..enrollment[o].id : Exists(o, n)' => Exists(o, n)
             /\ \A i \in invoices[o] : \E j \in invoices'[o] :
                  j.concept = i.concept /\ (j.enrollment = i.enrollment \/ ~ Exists(o, i.enrollment)')
  <2>1. CASE o = s
    BY <1>1, <2>1 DEF Exists
  <2>2. CASE o # s
    <3>1. enrollment[o].id \in Nat
      BY DEF RowsHold, EnrollmentRows
    <3> QED  BY <1>1, <2>2, <3>1 DEF Exists
  <2> QED  BY <2>1, <2>2
<1> QED  BY <1>5, <1>6 DEF Onward

(* No row changes.                                                         *)
LEMMA RowsStay ==
  ASSUME RowsHold, UNCHANGED <<known, enrollment, trial, invoices>>
  PROVE  RowsHold' /\ Onward /\ LocksHold
<1>1. RowsHold'
  BY DEF RowsHold
<1>2. \A s \in Students : enrollment[s].id \in Nat
  BY DEF RowsHold, EnrollmentRows
<1> QED  BY <1>1, <1>2 DEF Onward, LocksHold, Exists

-----------------------------------------------------------------------------
(* Requests and runs.                                                      *)

(* What a request knows stays true.                                        *)
LEMMA UnderstandingOutlives ==
  ASSUME Onward, LocksHold, NEW p \in Slots, NEW r \in RequestRecords, r = request[p], Understood(r)
  PROVE  Understood(r)'
<1>1. ASSUME r.op = "tx", r.id # 0  PROVE Exists(r.s, r.id)'
  <2>1. r.s \in Students /\ r.id \in Nat
    BY <1>1, RequestFields
  <2>2. Locked(r.s)
    BY <1>1 DEF Locked
  <2> QED  BY <1>1, <2>1, <2>2 DEF LocksHold, Understood
<1>2. r.op \in WithStudent => r.s \in known'
  BY DEF Understood, Onward
<1> QED  BY <1>1, <1>2 DEF Understood

(* Requests still know what they read when one of them takes a step.       *)
LEMMA SlotsUnderstand ==
  ASSUME IInv, Onward, LocksHold, NEW q \in Slots, NEW r \in RequestRecords,
         request' = [request EXCEPT ![q] = r], Understood(r)',
         \A s \in Students : Holds(r, s) => Holds(request[q], s) \/ ~ Locked(s)
  PROVE  /\ request' \in [Slots -> RequestRecords]
         /\ OneHolder' /\ \A p \in Slots : Understood(request[p])'
<1>1. request' \in [Slots -> RequestRecords] /\ request'[q] = r /\ \A p \in Slots \ {q} : request'[p] = request[p]
  BY DEF IInv
<1>2. OneHolder'
  BY <1>1 DEF OneHolder, IInv, Locked, Holds
<1>3. ASSUME NEW p \in Slots  PROVE Understood(request[p])'
  <2>1. CASE p = q
    BY <1>1, <2>1
  <2>2. CASE p # q
    <3> PICK was \in RequestRecords : was = request[p]
      BY DEF IInv
    <3>1. Understood(was)'
      BY UnderstandingOutlives DEF IInv
    <3>2. request'[p] = was
      BY <1>1, <2>2
    <3> QED  BY <3>1, <3>2
  <2> QED  BY <2>1, <2>2
<1> QED  BY <1>1, <1>2, <1>3

(* Requests still know what they read when somebody else takes a step.     *)
LEMMA OthersUnderstand ==
  ASSUME IInv, Onward, LocksHold, UNCHANGED request
  PROVE  /\ request' \in [Slots -> RequestRecords]
         /\ OneHolder' /\ \A p \in Slots : Understood(request[p])'
<1>1. ASSUME NEW p \in Slots  PROVE Understood(request[p])'
  <2> PICK was \in RequestRecords : was = request[p]
    BY DEF IInv
  <2>1. Understood(was)'
    BY UnderstandingOutlives DEF IInv
  <2>2. request'[p] = was
    OBVIOUS
  <2> QED  BY <2>1, <2>2
<1> QED  BY <1>1 DEF IInv, OneHolder

(* What a run has done with a student stays done.                          *)
LEMMA SettledOutlives ==
  ASSUME RowsHold, Onward, NEW x \in RunRecords, x.phase \in {"listed", "issuing"}, NEW s \in Students,
         x.listed[s] <= enrollment[s].id, Settled(x, s)
  PROVE  Settled(x, s)'
<1>1. x.listed[s] \in 0..enrollment[s].id
  BY RunFields DEF RowsHold, EnrollmentRows
<1>2. CASE ~ Exists(s, x.listed[s])
  BY <1>1, <1>2 DEF Onward, Settled
<1>3. CASE x.concept \in Months /\ s \in Exempt
  BY <1>3 DEF Settled
<1>4. CASE \E i \in invoices[s] : i.concept = x.concept /\ (x.concept \in Months => i.enrollment = x.listed[s])
  <2> PICK i \in invoices[s] : i.concept = x.concept /\ (x.concept \in Months => i.enrollment = x.listed[s])
    BY <1>4
  <2> PICK j \in invoices'[s] : j.concept = i.concept /\ (j.enrollment = i.enrollment \/ ~ Exists(s, i.enrollment)')
    BY DEF Onward
  <2>1. CASE x.concept \in Months => j.enrollment = x.listed[s]
    BY <2>1 DEF Settled
  <2>2. CASE ~ Exists(s, x.listed[s])'
    BY <2>2 DEF Settled
  <2> QED  BY <2>1, <2>2
<1> QED  BY <1>2, <1>3, <1>4 DEF Settled

(* A run still knows what it read when the rows only go onward.            *)
LEMMA RunOutlives ==
  ASSUME RowsHold, RowsHold', Onward, NEW x \in RunRecords, RunKnows(x)
  PROVE  RunKnows(x)'
<1>1. ASSUME x.phase \in {"listed", "issuing"}, NEW s \in Students
      PROVE  x.listed[s] <= enrollment'[s].id
  <2>1. x.listed[s] \in Nat /\ x.listed[s] <= enrollment[s].id /\ enrollment[s].id \in Nat
    BY <1>1, RunFields DEF RunKnows, RowsHold, EnrollmentRows
  <2>2. enrollment[s].id <= enrollment'[s].id
    BY DEF Onward
  <2>3. enrollment'[s].id \in Nat
    BY DEF RowsHold, EnrollmentRows
  <2> QED  BY <2>1, <2>2, <2>3
<1>2. ASSUME x.phase = "issuing", NEW s \in Students, x.listed[s] # 0, s \notin x.todo
      PROVE  Settled(x, s)'
  BY <1>2, SettledOutlives DEF RunKnows
<1> QED  BY <1>1, <1>2 DEF RunKnows

(* Runs still know what they read when one of them takes a step.           *)
LEMMA RunsKnow ==
  ASSUME IInv, RowsHold', Onward, NEW u \in Runs, NEW x \in RunRecords, run' = [run EXCEPT ![u] = x], RunKnows(x)'
  PROVE  run' \in [Runs -> RunRecords] /\ \A t \in Runs : RunKnows(run[t])'
<1>1. run' \in [Runs -> RunRecords] /\ run'[u] = x /\ \A t \in Runs \ {u} : run'[t] = run[t]
  BY DEF IInv
<1>2. ASSUME NEW t \in Runs  PROVE RunKnows(run[t])'
  <2>1. CASE t = u
    BY <1>1, <2>1
  <2>2. CASE t # u
    <3> PICK was \in RunRecords : was = run[t]
      BY DEF IInv
    <3>1. RunKnows(was)'
      BY RunOutlives DEF IInv
    <3>2. run'[t] = was
      BY <1>1, <2>2
    <3> QED  BY <3>1, <3>2
  <2> QED  BY <2>1, <2>2
<1> QED  BY <1>1, <1>2

(* Runs still know what they read when somebody else takes a step.         *)
LEMMA OtherRunsKnow ==
  ASSUME IInv, RowsHold', Onward, UNCHANGED run
  PROVE  run' \in [Runs -> RunRecords] /\ \A t \in Runs : RunKnows(run[t])'
<1>1. ASSUME NEW t \in Runs  PROVE RunKnows(run[t])'
  <2> PICK was \in RunRecords : was = run[t]
    BY DEF IInv
  <2>1. RunKnows(was)'
    BY RunOutlives DEF IInv
  <2>2. run'[t] = was
    OBVIOUS
  <2> QED  BY <2>1, <2>2
<1> QED  BY <1>1 DEF IInv

(* A request begins, goes on or ends.                                      *)
LEMMA SlotStep ==
  ASSUME IInv, RowsHold', Onward, LocksHold, UNCHANGED run,
         NEW q \in Slots, NEW r \in RequestRecords, request' = [request EXCEPT ![q] = r], Understood(r)',
         \A s \in Students : Holds(r, s) => Holds(request[q], s) \/ ~ Locked(s)
  PROVE  IInv'
BY SlotsUnderstand, OtherRunsKnow DEF IInv

(* A request that ends keeps the invariant.                                *)
LEMMA EndStep ==
  ASSUME IInv, RowsHold', Onward, LocksHold, UNCHANGED run, NEW q \in Slots, Finish(q)
  PROVE  IInv'
<1> PICK r : r = NoRequest
  OBVIOUS
<1>1. /\ r \in RequestRecords /\ request' = [request EXCEPT ![q] = r] /\ Understood(r)'
      /\ \A s \in Students : ~ Holds(r, s)
  BY DEF RequestRecords, NoRequest, Finish, Understood, WithStudent, Holds
<1> QED  BY <1>1, SlotStep

(* Reading: a request begins or goes on, and no row changes.               *)
LEMMA HoldStep ==
  ASSUME IInv, NEW q \in Slots, NEW r \in RequestRecords, Hold(q, r),
         r.op # "tx", r.op \in WithStudent => r.s \in known
  PROVE  IInv'
<1>1. UNCHANGED <<known, enrollment, trial, invoices, run>> /\ request' = [request EXCEPT ![q] = r]
  BY DEF Hold
<1>2. RowsHold' /\ Onward /\ LocksHold
  BY <1>1, RowsStay DEF IInv
<1>3. Understood(r)' /\ \A s \in Students : ~ Holds(r, s)
  BY <1>1 DEF Understood, Holds
<1> QED  BY <1>1, <1>2, <1>3, SlotStep

(* A first read keeps the invariant.                                       *)
LEMMA ReadStep ==
  ASSUME IInv, NEW q \in Slots,
         ReadEnroll(q) \/ ReadBookTrial(q) \/ ReadCancel(q) \/ ReadConvert(q) \/ ReadUpdate(q) \/ ReadChargeFee(q)
  PROVE  IInv'
<1>0. \A s \in Students : /\ trial[s] # "NONE" => s \in known
                          /\ enrollment[s].id \in Nat
                          /\ enrollment[s].status # "NONE" => s \in known
  BY DEF IInv, RowsHold, EnrollmentRows
<1>1. CASE ReadEnroll(q)
  <2> PICK r : /\ r = [op |-> "enroll", status |-> IF isFull THEN "WAITLIST" ELSE "PENDING"]
               /\ Hold(q, r)
    BY <1>1 DEF ReadEnroll
  <2>1. r \in RequestRecords /\ r.op = "enroll"
    BY DEF RequestRecords, FamilyRequests
  <2> QED  BY <2>1, HoldStep DEF WithStudent
<1>2. CASE ReadBookTrial(q)
  <2> PICK r : r = [op |-> "bookTrial"] /\ Hold(q, r)
    BY <1>2 DEF ReadBookTrial
  <2>1. r \in RequestRecords /\ r.op = "bookTrial"
    BY DEF RequestRecords, FamilyRequests
  <2> QED  BY <2>1, HoldStep DEF WithStudent
<1>3. CASE ReadCancel(q)
  <2> PICK s \in Students : Cancellable(s) /\ Hold(q, [op |-> "cancel", s |-> s])
    BY <1>3 DEF ReadCancel
  <2> PICK r : r = [op |-> "cancel", s |-> s]
    OBVIOUS
  <2>1. r \in RequestRecords /\ r.op = "cancel" /\ r.s \in known
    BY <1>0 DEF RequestRecords, TrialDeskRequests, Cancellable
  <2> QED  BY <2>1, HoldStep
<1>4. CASE ReadConvert(q)
  <2> PICK s \in Students, status \in {"ACTIVE", "WAITLIST"}, charge \in BOOLEAN :
        /\ trial[s] \in {"BOOKED", "CONVERTED"}
        /\ Hold(q, [op |-> "convert", s |-> s, status |-> status,
                    charge |-> charge /\ status = "ACTIVE", converted |-> trial[s] = "CONVERTED"])
    BY <1>4 DEF ReadConvert
  <2> PICK r : r = [op |-> "convert", s |-> s, status |-> status,
                    charge |-> charge /\ status = "ACTIVE", converted |-> trial[s] = "CONVERTED"]
    OBVIOUS
  <2>1. r \in RequestRecords /\ r.op = "convert" /\ r.s \in known
    BY <1>0 DEF RequestRecords, TrialDeskRequests
  <2> QED  BY <2>1, HoldStep
<1>5. CASE ReadUpdate(q)
  <2> PICK s \in Students, status \in Given, charge \in BOOLEAN :
        /\ enrollment[s].status # "NONE"
        /\ Hold(q, [op |-> "update", s |-> s, id |-> enrollment[s].id, status |-> status,
                    charge |-> charge /\ status = "ACTIVE" /\ enrollment[s].status # "ACTIVE"])
    BY <1>5 DEF ReadUpdate
  <2> PICK r : r = [op |-> "update", s |-> s, id |-> enrollment[s].id, status |-> status,
                    charge |-> charge /\ status = "ACTIVE" /\ enrollment[s].status # "ACTIVE"]
    OBVIOUS
  <2>1. r \in RequestRecords /\ r.op = "update" /\ r.s \in known
    BY <1>0, EnrollmentAssumption DEF RequestRecords, EnrollmentRequests, Statuses
  <2> QED  BY <2>1, HoldStep
<1>6. CASE ReadChargeFee(q)
  <2> PICK s \in Students : /\ enrollment[s].status # "NONE"
                            /\ Hold(q, [op |-> "chargeFee", s |-> s, id |-> enrollment[s].id])
    BY <1>6 DEF ReadChargeFee
  <2> PICK r : r = [op |-> "chargeFee", s |-> s, id |-> enrollment[s].id]
    OBVIOUS
  <2>1. r \in RequestRecords /\ r.op = "chargeFee" /\ r.s \in known
    BY <1>0 DEF RequestRecords, EnrollmentRequests
  <2> QED  BY <2>1, HoldStep
<1> QED  BY <1>1, <1>2, <1>3, <1>4, <1>5, <1>6

(* So does the read of the invoices,                                       *)
LEMMA ReadExistingStep ==
  ASSUME IInv, NEW q \in Slots, ReadExisting(q)
  PROVE  IInv'
<1> PICK was \in RequestRecords : was = request[q]
  BY DEF IInv
<1> PICK id \in Nat : id = IF enrollment[was.s].status = "NONE" THEN 0 ELSE enrollment[was.s].id
  <2>1. was.s \in Students
    BY RequestFields DEF ReadExisting
  <2>2. enrollment[was.s].id \in Nat
    BY <2>1 DEF IInv, RowsHold, EnrollmentRows
  <2> QED  BY <2>2
<1> PICK r : r = [op |-> "convertTx", s |-> was.s, status |-> was.status, charge |-> was.charge, id |-> id]
  OBVIOUS
<1>1. /\ was.op = "convert" /\ request' = [request EXCEPT ![q] = r]
      /\ UNCHANGED <<known, enrollment, trial, invoices, run>>
  BY DEF ReadExisting
<1>2. was.s \in Students /\ was.status \in Statuses /\ was.charge \in BOOLEAN /\ was.s \in known
  <2>1. was.s \in Students /\ was.status \in {"ACTIVE", "WAITLIST"} /\ was.charge \in BOOLEAN
    BY <1>1, RequestFields
  <2>2. was.s \in known
    BY <1>1 DEF IInv, Understood, WithStudent
  <2> QED  BY <2>1, <2>2 DEF Statuses
<1>3. r \in RequestRecords /\ r.op = "convertTx" /\ r.s = was.s
  BY <1>2 DEF RequestRecords, EnrollmentRequests
<1>4. RowsHold' /\ Onward /\ LocksHold
  BY <1>1, RowsStay DEF IInv
<1>5. Understood(r)' /\ \A s \in Students : ~ Holds(r, s)
  BY <1>1, <1>2, <1>3 DEF Understood, Holds
<1> QED  BY <1>1, <1>3, <1>4, <1>5, SlotStep

(* the lock of an enrollment,                                              *)
LEMMA LockStep ==
  ASSUME IInv, NEW q \in Slots, LockEnrollment(q)
  PROVE  IInv'
<1> PICK was \in RequestRecords : was = request[q]
  BY DEF IInv
<1> PICK due \in BOOLEAN : due = (was.charge /\ (was.id # 0 => FeeDue(was.s, was.id)))
  OBVIOUS
<1> PICK r : r = [op |-> "tx", s |-> was.s, id |-> was.id, status |-> was.status,
                  converts |-> was.op = "convertTx", due |-> due]
  OBVIOUS
<1>1. /\ was.op \in {"update", "convertTx"} /\ request' = [request EXCEPT ![q] = r]
      /\ was.id # 0 => Exists(was.s, was.id) /\ ~ Locked(was.s)
      /\ UNCHANGED <<known, enrollment, trial, invoices, run>>
  BY DEF LockEnrollment
<1>2. was.s \in Students /\ was.id \in Nat /\ was.status \in Statuses /\ was.s \in known
  BY <1>1, RequestFields DEF IInv, Understood, WithStudent
<1>3. r \in RequestRecords /\ r.op = "tx" /\ r.s = was.s /\ r.id = was.id
  BY <1>2 DEF RequestRecords, EnrollmentRequests
<1>4. RowsHold' /\ Onward /\ LocksHold
  BY <1>1, RowsStay DEF IInv
<1>5. Understood(r)' /\ \A s \in Students : Holds(r, s) => ~ Locked(s)
  BY <1>1, <1>2, <1>3 DEF Understood, Holds, Exists
<1> QED  BY <1>1, <1>3, <1>4, <1>5, SlotStep
-----------------------------------------------------------------------------
(* What each step writes.                                                  *)

(* The locks hold if the one enrollment that changes is not locked, or     *)
(* stays.                                                                  *)
LEMMA LocksOf ==
  ASSUME RowsHold, NEW s \in Students, NEW e \in EnrollmentRows, enrollment' = [enrollment EXCEPT ![s] = e],
         ~ Locked(s) \/ (\A n \in Nat : Exists(s, n) => (e.status # "NONE" /\ e.id = n))
  PROVE  LocksHold
<1>1. enrollment'[s] = e /\ \A o \in Students \ {s} : enrollment'[o] = enrollment[o]
  BY DEF RowsHold
<1> SUFFICES ASSUME NEW o \in Students, NEW n \in Nat, Locked(o), Exists(o, n)  PROVE Exists(o, n)'
  BY DEF LocksHold
<1> QED  BY <1>1 DEF Exists

(* A student who has no enrollment gets one, perhaps with its matricula.   *)
LEMMA EnrolledStep ==
  ASSUME RowsHold, NEW s \in Students, NEW status \in Statuses, NEW t \in Trials, enrollment[s].status = "NONE",
         known' = known \cup {s}, enrollment' = Enrolled(s, status), trial' = [trial EXCEPT ![s] = t],
         \/ UNCHANGED invoices
         \/ invoices' = [invoices EXCEPT ![s] = Invoiced(s, enrollment[s].id + 1, ENROLLMENT_FEE_PERIOD)]
  PROVE  RowsHold' /\ Onward /\ LocksHold
<1> PICK n \in Nat : n = enrollment[s].id
  BY DEF RowsHold, EnrollmentRows
<1> PICK e : e = [status |-> status, id |-> n + 1]
  OBVIOUS
<1>1. e \in EnrollmentRows /\ e.status = status /\ e.id = n + 1 /\ status # "NONE"
  BY DEF EnrollmentRows, Statuses
<1>2. enrollment' = [enrollment EXCEPT ![s] = e]
  BY DEF Enrolled
<1>3. \A i \in invoices[s] : i.enrollment = 0
  BY DEF RowsHold, Refers
<1>4. PICK rows \in SUBSET InvoiceRows :
        /\ invoices' = [invoices EXCEPT ![s] = rows] /\ invoices[s] \subseteq rows /\ IsFiniteSet(rows)
        /\ Distinct(rows) /\ Refers(rows, e)
  <2>1. CASE UNCHANGED invoices
    <3> PICK rows \in SUBSET InvoiceRows : rows = invoices[s]
      BY DEF RowsHold
    <3>1. invoices' = [invoices EXCEPT ![s] = rows]
      BY <2>1 DEF RowsHold
    <3>2. IsFiniteSet(rows) /\ Distinct(rows) /\ Refers(rows, e)
      BY <1>3 DEF RowsHold, Refers
    <3> QED  BY <3>1, <3>2
  <2>2. CASE invoices' = [invoices EXCEPT ![s] = Invoiced(s, n + 1, ENROLLMENT_FEE_PERIOD)]
    <3>1. ENROLLMENT_FEE_PERIOD \in Concepts /\ n + 1 \in Nat
      BY DEF Concepts, ENROLLMENT_FEE_PERIOD
    <3>2. PICK new \in InvoiceRows :
            new.enrollment = n + 1 /\ Invoiced(s, n + 1, ENROLLMENT_FEE_PERIOD) = invoices[s] \cup {new}
      BY <3>1, InvoicedRows
    <3> PICK rows : rows = invoices[s] \cup {new}
      OBVIOUS
    <3>3. rows \in SUBSET InvoiceRows /\ IsFiniteSet(rows)
      BY FS_AddElement DEF RowsHold
    <3>4. Distinct(rows) /\ Refers(rows, e)
      BY <1>1, <1>3, <3>2 DEF Distinct, Refers
    <3> QED  BY <2>2, <3>2, <3>3, <3>4
  <2> QED  BY <2>1, <2>2
<1>5. known' \in SUBSET Students /\ known \subseteq known' /\ s \in known'
  BY DEF RowsHold
<1>6. /\ enrollment[s].id <= e.id
      /\ \A m \in 0..enrollment[s].id : (e.status # "NONE" /\ e.id = m) => Exists(s, m)
      /\ \A i \in invoices[s] : \E j \in rows : j.concept = i.concept /\ j.enrollment = i.enrollment
  BY <1>1, <1>4
<1>7. RowsHold' /\ Onward
  BY <1>1, <1>2, <1>4, <1>5, <1>6, RowStep
<1>8. LocksHold
  BY <1>1, <1>2, LocksOf DEF Exists
<1> QED  BY <1>7, <1>8

(* An existing enrollment gets an invoice that the index does not refuse.  *)
LEMMA InsertedRows ==
  ASSUME RowsHold, NEW by \in SUBSET Runs, NEW s \in Students, NEW e \in EnrollmentRows, NEW id \in Nat,
         NEW concept \in Concepts,
         e.status # "NONE", e.id = id, Exists(s, id), ~ Refused(s, id, concept)
  PROVE  \E rows \in SUBSET InvoiceRows :
           /\ rows = InvoicedBy(by, s, id, concept) /\ invoices[s] \subseteq rows /\ IsFiniteSet(rows)
           /\ Distinct(rows) /\ Refers(rows, e)
           /\ \E i \in rows : i.enrollment = id /\ i.concept = concept
<1>1. PICK new \in InvoiceRows : /\ new.enrollment = id /\ new.concept = concept
                                 /\ InvoicedBy(by, s, id, concept) = invoices[s] \cup {new}
  BY InvoicedByRows
<1> PICK rows : rows = invoices[s] \cup {new}
  OBVIOUS
<1>2. rows \in SUBSET InvoiceRows /\ IsFiniteSet(rows)
  BY FS_AddElement DEF RowsHold
<1>3. concept # "CHARGE" => \A i \in invoices[s] : ~(i.enrollment = id /\ i.concept = concept)
  BY DEF Refused, HasInvoice
<1>4. Distinct(rows) /\ Refers(rows, e)
  BY <1>1, <1>3 DEF RowsHold, Distinct, Refers, Exists
<1> QED  BY <1>1, <1>2, <1>4

(* An inserted invoice has a new number and the period it was issued for.  *)
LEMMA InsertStep ==
  ASSUME RowsHold, NEW by \in SUBSET Runs, NEW s \in Students, NEW id \in Nat, NEW concept \in Concepts,
         Insertable(s, id, concept),
         invoices' = [invoices EXCEPT ![s] = InvoicedBy(by, s, id, concept)],
         UNCHANGED <<known, enrollment, trial>>
  PROVE  RowsHold' /\ Onward /\ LocksHold /\ HasInvoice(s, id, concept)'
<1> PICK e \in EnrollmentRows : e = enrollment[s]
  BY DEF RowsHold
<1> PICK t \in Trials : t = trial[s]
  BY DEF RowsHold
<1>1. e.status # "NONE" /\ e.id = id /\ Exists(s, id) /\ ~ Refused(s, id, concept)
  BY DEF Insertable, Exists
<1>2. PICK rows \in SUBSET InvoiceRows :
           /\ rows = InvoicedBy(by, s, id, concept) /\ invoices[s] \subseteq rows /\ IsFiniteSet(rows)
           /\ Distinct(rows) /\ Refers(rows, e)
           /\ \E i \in rows : i.enrollment = id /\ i.concept = concept
  <2> HIDE DEF InvoiceRows
  <2>1. RowsHold /\ e.status # "NONE" /\ e.id = id /\ Exists(s, id) /\ ~ Refused(s, id, concept)
    BY <1>1
  <2> QED  BY <2>1, InsertedRows, SMTT(60)
<1>3. /\ enrollment' = [enrollment EXCEPT ![s] = e] /\ trial' = [trial EXCEPT ![s] = t]
      /\ invoices' = [invoices EXCEPT ![s] = rows]
  BY <1>2 DEF RowsHold
<1>4. known' \in SUBSET Students /\ known \subseteq known' /\ s \in known'
  BY <1>1 DEF RowsHold
<1>5. \A i \in invoices[s] : \E j \in rows : j.concept = i.concept /\ j.enrollment = i.enrollment
  BY <1>2
<1>6. enrollment[s].id <= e.id /\ \A n \in 0..enrollment[s].id : (e.status # "NONE" /\ e.id = n) => Exists(s, n)
  BY DEF EnrollmentRows, Exists
<1>7. RowsHold' /\ Onward
  BY <1>2, <1>3, <1>4, <1>5, <1>6, RowStep, ZenonT(60)
<1>8. LocksHold
  BY DEF LocksHold, Exists
<1>9. invoices'[s] = rows
  BY <1>3 DEF RowsHold
<1> QED  BY <1>2, <1>7, <1>8, <1>9 DEF HasInvoice

(* The trial desk, the families and the office.                            *)
LEMMA CommitEnrollStep ==
  ASSUME IInv, NEW q \in Slots, CommitEnroll(q)
  PROVE  IInv'
<1> PICK r \in RequestRecords : r = request[q]
  BY DEF IInv
<1>1. r.op = "enroll" /\ Finish(q) /\ UNCHANGED <<trial, invoices, run>>
  BY DEF CommitEnroll
<1> PICK s \in Students \ known : known' = known \cup {s} /\ enrollment' = Enrolled(s, r.status)
  BY DEF CommitEnroll
<1> PICK t \in Trials : t = trial[s]
  BY DEF IInv, RowsHold
<1>2. r.status \in Statuses
  BY <1>1, RequestFields DEF Statuses
<1>3. enrollment[s].status = "NONE" /\ trial' = [trial EXCEPT ![s] = t]
  BY <1>1 DEF IInv, RowsHold
<1>4. RowsHold' /\ Onward /\ LocksHold
  BY <1>1, <1>2, <1>3, EnrolledStep DEF IInv
<1> QED  BY <1>1, <1>4, EndStep

(* Only the trial of one student changes.                                  *)
LEMMA TrialStep ==
  ASSUME RowsHold, NEW s \in Students, NEW t \in Trials, trial' = [trial EXCEPT ![s] = t],
         known' = known \cup {s}, UNCHANGED <<enrollment, invoices>>
  PROVE  RowsHold' /\ Onward /\ LocksHold
<1> PICK e \in EnrollmentRows : e = enrollment[s]
  BY DEF RowsHold
<1> PICK rows \in SUBSET InvoiceRows : rows = invoices[s]
  BY DEF RowsHold
<1>1. enrollment' = [enrollment EXCEPT ![s] = e] /\ invoices' = [invoices EXCEPT ![s] = rows]
  BY DEF RowsHold
<1>2. /\ IsFiniteSet(rows) /\ Distinct(rows) /\ Refers(rows, e)
      /\ known' \in SUBSET Students /\ known \subseteq known' /\ s \in known'
  BY DEF RowsHold
<1>3. /\ enrollment[s].id <= e.id
      /\ \A n \in 0..enrollment[s].id : (e.status # "NONE" /\ e.id = n) => Exists(s, n)
      /\ \A i \in invoices[s] : \E j \in rows : j.concept = i.concept /\ j.enrollment = i.enrollment
  BY DEF EnrollmentRows, Exists
<1>4. RowsHold' /\ Onward
  BY <1>1, <1>2, <1>3, RowStep
<1> QED  BY <1>4 DEF LocksHold, Exists

(* A booking or a cancellation of a trial class keeps the invariant,       *)
LEMMA TrialDeskStep ==
  ASSUME IInv, NEW q \in Slots, CommitBookTrial(q) \/ CommitCancel(q)
  PROVE  IInv'
<1>1. CASE CommitBookTrial(q)
  <2> PICK s \in Students \ known : known' = known \cup {s} /\ trial' = [trial EXCEPT ![s] = "BOOKED"]
    BY <1>1 DEF CommitBookTrial
  <2>1. Finish(q) /\ UNCHANGED <<enrollment, invoices, run>> /\ "BOOKED" \in Trials
    BY <1>1 DEF CommitBookTrial, Trials
  <2>2. RowsHold' /\ Onward /\ LocksHold
    BY <2>1, TrialStep DEF IInv
  <2> QED  BY <2>1, <2>2, EndStep
<1>2. CASE CommitCancel(q)
  <2> PICK r \in RequestRecords : r = request[q]
    BY DEF IInv
  <2>1. /\ r.op = "cancel" /\ Finish(q) /\ UNCHANGED <<known, enrollment, invoices, run>>
        /\ trial' = [trial EXCEPT ![r.s] = "CANCELLED"] /\ "CANCELLED" \in Trials
    BY <1>2 DEF CommitCancel, Trials
  <2> PICK s \in known : s = r.s
    BY <2>1 DEF IInv, Understood, WithStudent
  <2>2. s \in Students /\ known' = known \cup {s}
    BY <2>1 DEF IInv, RowsHold
  <2>3. RowsHold' /\ Onward /\ LocksHold
    BY <2>1, <2>2, TrialStep DEF IInv
  <2> QED  BY <2>1, <2>3, EndStep
<1> QED  BY <1>1, <1>2

(* an enrollment with its fee,                                             *)
LEMMA CommitEnrollmentStep ==
  ASSUME IInv, NEW q \in Slots, CommitEnrollment(q)
  PROVE  IInv'
<1> PICK r \in RequestRecords : r = request[q]
  BY DEF IInv
<1>1. r.op = "tx" /\ Finish(q) /\ UNCHANGED <<known, run>>
      /\ trial' = IF r.converts THEN [trial EXCEPT ![r.s] = "CONVERTED"] ELSE trial
  BY DEF CommitEnrollment
<1> PICK s \in known : s = r.s
  BY <1>1 DEF IInv, Understood, WithStudent
<1>2. s \in Students /\ r.id \in Nat /\ r.status \in Statuses /\ known' = known \cup {s} /\ RowsHold
  BY <1>1, RequestFields DEF IInv, RowsHold
<1> PICK t \in Trials : trial' = [trial EXCEPT ![s] = t]
  <2>1. CASE r.converts
    <3>1. "CONVERTED" \in Trials
      BY DEF Trials
    <3> QED  BY <1>1, <2>1, <3>1
  <2>2. CASE ~ r.converts
    <3> PICK t \in Trials : t = trial[s]
      BY <1>2 DEF RowsHold
    <3>1. trial' = [trial EXCEPT ![s] = t]
      BY <1>1, <1>2, <2>2 DEF RowsHold
    <3> QED  BY <3>1
  <2> QED  BY <2>1, <2>2
<1>3. CASE r.id = 0
  <2>1. CanEnroll(s) /\ enrollment' = Enrolled(s, r.status)
    BY <1>3 DEF CommitEnrollment
  <2>2. \/ UNCHANGED invoices
        \/ invoices' = [invoices EXCEPT ![s] = Invoiced(s, enrollment[s].id + 1, ENROLLMENT_FEE_PERIOD)]
    BY <1>3 DEF CommitEnrollment
  <2>3. enrollment[s].status = "NONE"
    BY <2>1 DEF CanEnroll
  <2>4. RowsHold' /\ Onward /\ LocksHold
    BY <1>2, <2>1, <2>2, <2>3, EnrolledStep
  <2> QED  BY <1>1, <2>4, EndStep
<1>4. CASE r.id # 0
  <2>1. Exists(s, r.id)
    BY <1>1, <1>4 DEF IInv, Understood
  <2> PICK id \in Nat : id = r.id
    BY <1>2
  <2> PICK e : e = [status |-> r.status, id |-> id]
    OBVIOUS
  <2>2. e \in EnrollmentRows /\ e.status = r.status /\ e.id = id /\ e.status # "NONE"
    BY <1>2 DEF EnrollmentRows, Statuses
  <2>3. enrollment' = [enrollment EXCEPT ![s] = e]
    <3>1. enrollment' = [enrollment EXCEPT ![s].status = r.status]
      BY <1>4 DEF CommitEnrollment
    <3>2. enrollment[s] \in [status : Statuses \cup {"NONE"}, id : Nat] /\ enrollment[s].id = id
      BY <1>2, <2>1 DEF RowsHold, EnrollmentRows, Exists
    <3>3. [enrollment[s] EXCEPT !.status = r.status] = e
      BY <3>2
    <3> QED  BY <3>1, <3>3
  <2>4. PICK rows \in SUBSET InvoiceRows :
          /\ invoices' = [invoices EXCEPT ![s] = rows] /\ invoices[s] \subseteq rows /\ IsFiniteSet(rows)
          /\ Distinct(rows) /\ Refers(rows, e)
    <3>1. CASE r.due
      <4>1. /\ ~ Refused(s, id, ENROLLMENT_FEE_PERIOD)
            /\ invoices' = [invoices EXCEPT ![s] = Invoiced(s, id, ENROLLMENT_FEE_PERIOD)]
        BY <1>4, <3>1 DEF CommitEnrollment
      <4>2. ENROLLMENT_FEE_PERIOD \in Concepts
        BY DEF Concepts, ENROLLMENT_FEE_PERIOD
      <4>3. \E rows \in SUBSET InvoiceRows :
              /\ rows = Invoiced(s, id, ENROLLMENT_FEE_PERIOD) /\ invoices[s] \subseteq rows /\ IsFiniteSet(rows)
              /\ Distinct(rows) /\ Refers(rows, e)
        <5> PICK none \in SUBSET Runs : none = {}
          OBVIOUS
        <5> PICK fee \in Concepts : fee = ENROLLMENT_FEE_PERIOD
          BY <4>2
        <5>1. Invoiced(s, id, fee) = InvoicedBy(none, s, id, fee)
          BY DEF Invoiced
        <5>2. \E rows \in SUBSET InvoiceRows :
                /\ rows = InvoicedBy(none, s, id, fee) /\ invoices[s] \subseteq rows /\ IsFiniteSet(rows)
                /\ Distinct(rows) /\ Refers(rows, e)
          BY <1>2, <2>1, <2>2, <4>1, InsertedRows, SMTT(60)
        <5> QED  BY <5>1, <5>2
      <4> QED  BY <4>1, <4>3
    <3>2. CASE ~ r.due
      <4>1. invoices' = invoices
        BY <3>2 DEF CommitEnrollment
      <4> PICK rows \in SUBSET InvoiceRows : rows = invoices[s]
        BY <1>2 DEF RowsHold
      <4>2. invoices' = [invoices EXCEPT ![s] = rows] /\ IsFiniteSet(rows) /\ Distinct(rows)
        BY <1>2, <4>1 DEF RowsHold
      <4>3. Refers(rows, e)
        BY <1>2, <2>1, <2>2 DEF RowsHold, Refers, Exists
      <4> QED  BY <4>2, <4>3
    <3> QED  BY <3>1, <3>2
  <2>5. /\ enrollment[s].id <= e.id
        /\ \A n \in 0..enrollment[s].id : (e.status # "NONE" /\ e.id = n) => Exists(s, n)
        /\ \A i \in invoices[s] : \E j \in rows : j.concept = i.concept /\ j.enrollment = i.enrollment
        /\ \A n \in Nat : Exists(s, n) => (e.status # "NONE" /\ e.id = n)
    BY <2>1, <2>2, <2>4 DEF Exists
  <2>6. known' \in SUBSET Students /\ known \subseteq known' /\ s \in known'
    BY <1>2 DEF RowsHold
  <2>7. RowsHold' /\ Onward
    BY <1>2, <2>2, <2>3, <2>4, <2>5, <2>6, RowStep
  <2>8. LocksHold
    BY <1>2, <2>2, <2>3, <2>5, LocksOf
  <2> QED  BY <1>1, <2>7, <2>8, EndStep
<1> QED  BY <1>3, <1>4

(* a fee charged later,                                                    *)
LEMMA CommitChargeFeeStep ==
  ASSUME IInv, NEW q \in Slots, CommitChargeFee(q)
  PROVE  IInv'
<1> PICK r \in RequestRecords : r = request[q]
  BY DEF IInv
<1>1. /\ r.op = "chargeFee" /\ Finish(q) /\ UNCHANGED <<known, enrollment, trial, run>>
      /\ Insertable(r.s, r.id, ENROLLMENT_FEE_PERIOD)
      /\ invoices' = [invoices EXCEPT ![r.s] = Invoiced(r.s, r.id, ENROLLMENT_FEE_PERIOD)]
  BY DEF CommitChargeFee
<1>2. r.s \in Students /\ r.id \in Nat /\ ENROLLMENT_FEE_PERIOD \in Concepts
  BY <1>1, RequestFields DEF Concepts, ENROLLMENT_FEE_PERIOD
<1>3. RowsHold' /\ Onward /\ LocksHold
  BY <1>1, <1>2, InsertStep DEF IInv, Invoiced
<1> QED  BY <1>1, <1>3, EndStep

(* One step that reads nothing before it.                                  *)
LEMMA OfficeStep ==
  ASSUME IInv, RowsHold' /\ Onward /\ LocksHold, UNCHANGED <<request, run>>
  PROVE  IInv'
BY OthersUnderstand, OtherRunsKnow DEF IInv

(* an enrollment made in the office,                                       *)
LEMMA CreateEnrollmentStep ==
  ASSUME IInv, CreateEnrollment
  PROVE  IInv'
<1> PICK s \in known, status \in Given, charge \in BOOLEAN :
      /\ CanEnroll(s)
      /\ enrollment' = Enrolled(s, status)
      /\ invoices' = IF status = "ACTIVE" /\ charge
                       THEN [invoices EXCEPT ![s] = Invoiced(s, enrollment[s].id + 1, ENROLLMENT_FEE_PERIOD)]
                       ELSE invoices
  BY DEF CreateEnrollment
<1>1. UNCHANGED <<known, trial, request, run>> /\ RowsHold
  BY DEF CreateEnrollment, IInv
<1>2. s \in Students /\ status \in Statuses /\ enrollment[s].status = "NONE" /\ known' = known \cup {s}
  BY <1>1, EnrollmentAssumption DEF RowsHold, Statuses, CanEnroll
<1> PICK t \in Trials : t = trial[s]
  BY <1>1, <1>2 DEF RowsHold
<1>3. trial' = [trial EXCEPT ![s] = t]
  BY <1>1 DEF RowsHold
<1>4. RowsHold' /\ Onward /\ LocksHold
  BY <1>1, <1>2, <1>3, EnrolledStep
<1> QED  BY <1>1, <1>4, OfficeStep

(* What a removed enrollment leaves: its invoices, detached.               *)
LEMMA RemoveEnrollmentRows ==
  ASSUME RowsHold, NEW s \in Students, enrollment[s].status # "NONE", ~ Locked(s),
         enrollment' = [enrollment EXCEPT ![s].status = "NONE"],
         invoices' = [invoices EXCEPT ![s] = Detach(s)], UNCHANGED <<known, trial>>
  PROVE  RowsHold' /\ Onward /\ LocksHold
<1> PICK was \in EnrollmentRows : was = enrollment[s]
  BY DEF RowsHold
<1> PICK e : e = [was EXCEPT !.status = "NONE"]
  OBVIOUS
<1> PICK rows : rows = Detach(s)
  OBVIOUS
<1> PICK t \in Trials : t = trial[s]
  BY DEF RowsHold
<1>1. e \in EnrollmentRows /\ e.status = "NONE" /\ e.id = was.id
  BY DEF EnrollmentRows
<1>2. /\ enrollment' = [enrollment EXCEPT ![s] = e] /\ trial' = [trial EXCEPT ![s] = t]
      /\ invoices' = [invoices EXCEPT ![s] = rows]
  BY DEF RowsHold
<1>3. /\ rows \in SUBSET InvoiceRows /\ IsFiniteSet(rows)
      /\ \A i \in rows : i.enrollment = 0
      /\ \A i \in invoices[s] : \E j \in rows : j.concept = i.concept
  BY DetachedRows
<1>4. Distinct(rows) /\ Refers(rows, e)
  BY <1>3 DEF Distinct, Refers
<1>5. known' \in SUBSET Students /\ known \subseteq known' /\ s \in known'
  BY DEF RowsHold
<1>6. /\ enrollment[s].id <= e.id
      /\ \A n \in 0..enrollment[s].id : (e.status # "NONE" /\ e.id = n) => Exists(s, n)
      /\ \A i \in invoices[s] : \E j \in rows :
           j.concept = i.concept /\ (j.enrollment = i.enrollment \/ ~(e.status # "NONE" /\ e.id = i.enrollment))
  BY <1>1, <1>3 DEF EnrollmentRows
<1>7. RowsHold' /\ Onward
  <2>1. RowsHold /\ s \in Students /\ t \in Trials
    OBVIOUS
  <2> QED  BY ONLY <2>1, <1>1, <1>2, <1>3, <1>4, <1>5, <1>6, RowStep
<1>8. LocksHold
  BY <1>1, <1>2, LocksOf
<1> QED  BY <1>7, <1>8

(* A removal keeps the invariant.                                          *)
LEMMA RemoveEnrollmentStep ==
  ASSUME IInv, RemoveEnrollment
  PROVE  IInv'
<1> PICK s \in Students : /\ enrollment[s].status # "NONE" /\ ~ Locked(s)
                          /\ enrollment' = [enrollment EXCEPT ![s].status = "NONE"]
                          /\ invoices' = [invoices EXCEPT ![s] = Detach(s)]
  BY DEF RemoveEnrollment
<1>1. UNCHANGED <<known, trial, request, run>>
  BY DEF RemoveEnrollment
<1>2. RowsHold' /\ Onward /\ LocksHold
  BY <1>1, RemoveEnrollmentRows DEF IInv
<1> QED  BY <1>1, <1>2, OfficeStep
-----------------------------------------------------------------------------
(* Runs.                                                                   *)

LEMMA RunStep ==
  ASSUME IInv, RowsHold' /\ Onward /\ LocksHold, UNCHANGED request,
         NEW u \in Runs, NEW x \in RunRecords, run' = [run EXCEPT ![u] = x], RunKnows(x)'
  PROVE  IInv'
BY OthersUnderstand, RunsKnow DEF IInv

(* What a run knows once it has listed the enrollments,                    *)
LEMMA ReadEnrollmentsBegins ==
  ASSUME IInv, NEW u \in Runs, ReadEnrollments(u)
  PROVE  /\ UNCHANGED <<known, enrollment, trial, invoices, request>>
         /\ \E x \in RunRecords :
              /\ run' = [run EXCEPT ![u] = x] /\ x.phase = "listed"
              /\ \A s \in Students : x.listed[s] <= enrollment[s].id
              /\ overlapped' = IF x.concept = "CHARGE" THEN overlapped \cup Pairs(u) ELSE overlapped
<1> DEFINE listed == [s \in Students |-> IF s \in Active THEN enrollment[s].id ELSE 0]
<1> PICK concept \in Months \cup {"CHARGE"} :
      /\ overlapped' = IF concept = "CHARGE" THEN overlapped \cup Pairs(u) ELSE overlapped
      /\ run' = [run EXCEPT ![u] = [phase |-> "listed", concept |-> concept, listed |-> listed]]
  BY DEF ReadEnrollments
<1> PICK x : x = [phase |-> "listed", concept |-> concept, listed |-> listed]
  OBVIOUS
<1>1. listed \in [Students -> Nat] /\ \A s \in Students : listed[s] <= enrollment[s].id
  BY DEF IInv, RowsHold, EnrollmentRows
<1> HIDE DEF listed
<1>2. x \in RunRecords /\ x.phase = "listed" /\ x.listed = listed /\ x.concept = concept
  BY <1>1 DEF RunRecords
<1> QED  BY <1>1, <1>2 DEF ReadEnrollments

(* and once it has read who was invoiced already.                          *)
LEMMA ReadInvoicesBegins ==
  ASSUME IInv, NEW u \in Runs, ReadInvoices(u)
  PROVE  /\ UNCHANGED <<known, enrollment, trial, invoices, request>>
         /\ \E x \in RunRecords :
              /\ run' = [run EXCEPT ![u] = x] /\ run[u].phase = "listed" /\ x.phase = "issuing"
              /\ x.concept = run[u].concept /\ x.listed = run[u].listed
              /\ x.todo = Listed(u) \ (Billed(u) \cup (IF x.concept \in Months THEN Exempt ELSE {}))
<1> PICK was \in RunRecords : was = run[u]
  BY DEF IInv
<1> DEFINE todo == Listed(u) \ (Billed(u) \cup (IF was.concept \in Months THEN Exempt ELSE {}))
<1>1. /\ was.phase = "listed" /\ UNCHANGED <<known, enrollment, trial, invoices, request>>
      /\ run' = [run EXCEPT ![u] = [phase |-> "issuing", concept |-> was.concept, listed |-> was.listed,
                                    todo |-> todo]]
  BY DEF ReadInvoices
<1>2. todo \in SUBSET Students
  BY DEF Listed
<1> HIDE DEF todo
<1> PICK x : x = [phase |-> "issuing", concept |-> was.concept, listed |-> was.listed, todo |-> todo]
  OBVIOUS
<1>3. was.concept \in Months \cup {"CHARGE"} /\ was.listed \in [Students -> Nat]
  BY <1>1, RunFields
<1>4. /\ x \in RunRecords /\ x.phase = "issuing" /\ x.listed = was.listed /\ x.concept = was.concept
      /\ x.todo = todo
  BY <1>2, <1>3 DEF RunRecords
<1> QED  BY <1>1, <1>4 DEF todo

(* One student more is invoiced.                                           *)
LEMMA IssueNextStep ==
  ASSUME IInv, NEW u \in Runs, IssueNext(u)
  PROVE  /\ IInv' /\ UNCHANGED request
         /\ \E s \in Students, x \in RunRecords :
              /\ run[u].phase = "issuing" /\ s \in run[u].todo
              /\ run' = [run EXCEPT ![u] = x] /\ x.phase = "issuing"
              /\ x.concept = run[u].concept /\ x.todo = run[u].todo \ {s}
              /\ invoices' = [invoices EXCEPT ![s] = InvoicedBy(Issuer(u), s, run[u].listed[s], run[u].concept)]
<1> PICK was \in RunRecords : was = run[u]
  BY DEF IInv
<1>1. was.phase = "issuing" /\ UNCHANGED <<known, enrollment, trial, request>>
  BY DEF IssueNext
<1>2. /\ was.concept \in Months \cup {"CHARGE"} /\ was.listed \in [Students -> Nat]
      /\ was.todo \in SUBSET Students
  BY <1>1, RunFields
<1> PICK s \in was.todo : /\ Insertable(s, was.listed[s], was.concept)
                          /\ invoices' = [invoices EXCEPT ![s] =
                                            InvoicedBy(Issuer(u), s, was.listed[s], was.concept)]
                          /\ run' = [run EXCEPT ![u].todo = @ \ {s}]
  BY DEF IssueNext
<1> PICK x : x = [phase |-> "issuing", concept |-> was.concept, listed |-> was.listed, todo |-> was.todo \ {s}]
  OBVIOUS
<1>3. /\ x \in RunRecords /\ x.phase = "issuing" /\ x.concept = was.concept /\ x.listed = was.listed
      /\ x.todo = was.todo \ {s}
  BY <1>2 DEF RunRecords
<1>4. run' = [run EXCEPT ![u] = x]
  <2>1. was = [phase |-> "issuing", concept |-> was.concept, listed |-> was.listed, todo |-> was.todo]
    BY <1>1 DEF RunRecords
  <2>2. [was EXCEPT !.todo = @ \ {s}] = x
    BY <2>1
  <2>3. run' = [run EXCEPT ![u] = [run[u] EXCEPT !.todo = @ \ {s}]]
    BY DEF IInv
  <2> QED  BY <2>2, <2>3
<1>5. s \in Students /\ RowsHold /\ was.listed[s] \in Nat /\ was.concept \in Concepts
  BY <1>2 DEF IInv, Concepts
<1> PICK by \in SUBSET Runs : by = Issuer(u)
  BY DEF Issuer
<1>6. /\ RowsHold' /\ Onward /\ LocksHold
      /\ HasInvoice(s, was.listed[s], was.concept)'
  BY <1>1, <1>5, InsertStep
<1>7. RunKnows(x)'
  <2>1. RunKnows(was)'
    BY <1>5, <1>6, RunOutlives DEF IInv
  <2>2. Settled(x, s)'
    BY <1>3, <1>6 DEF Settled, HasInvoice
  <2>3. \A o \in Students : Settled(was, o)' => Settled(x, o)'
    BY <1>3 DEF Settled
  <2> QED  BY <1>1, <1>3, <2>1, <2>2, <2>3 DEF RunKnows
<1>8. IInv'
  BY <1>1, <1>3, <1>4, <1>6, <1>7, RunStep
<1> QED  BY <1>1, <1>3, <1>4, <1>5, <1>8

(* A run that starts keeps the invariant,                                  *)
LEMMA RunStarts ==
  ASSUME IInv, NEW u \in Runs, ReadEnrollments(u) \/ ReadInvoices(u)
  PROVE  IInv'
<1>1. UNCHANGED <<known, enrollment, trial, invoices, request>>
  BY DEF ReadEnrollments, ReadInvoices
<1>2. RowsHold' /\ Onward /\ LocksHold
  BY <1>1, RowsStay DEF IInv
<1>3. CASE ReadEnrollments(u)
  <2> PICK x \in RunRecords : /\ run' = [run EXCEPT ![u] = x] /\ x.phase = "listed"
                              /\ \A s \in Students : x.listed[s] <= enrollment[s].id
    BY <1>3, ReadEnrollmentsBegins
  <2>1. RunKnows(x)'
    BY <1>1 DEF RunKnows
  <2> QED  BY <1>1, <1>2, <2>1, RunStep
<1>4. CASE ReadInvoices(u)
  <2>1. PICK x \in RunRecords :
              /\ run' = [run EXCEPT ![u] = x] /\ run[u].phase = "listed" /\ x.phase = "issuing"
              /\ x.concept = run[u].concept /\ x.listed = run[u].listed
              /\ x.todo = Listed(u) \ (Billed(u) \cup (IF x.concept \in Months THEN Exempt ELSE {}))
    BY <1>4, ReadInvoicesBegins
  <2>2. RunKnows(run[u])
    BY DEF IInv
  <2>3. ASSUME NEW s \in Students, x.listed[s] # 0, s \notin x.todo  PROVE Settled(x, s)'
    <3>1. s \in Listed(u)
      BY <2>1, <2>3 DEF Listed
    <3>2. CASE s \in Billed(u)
      BY <1>1, <2>1, <3>2 DEF Billed, Settled
    <3>3. CASE s \notin Billed(u)
      BY <2>1, <2>3, <3>1, <3>3 DEF Settled
    <3> QED  BY <3>2, <3>3
  <2>4. RunKnows(x)'
    BY <1>1, <2>1, <2>2, <2>3 DEF RunKnows
  <2> QED  BY <1>1, <1>2, <2>1, <2>4, RunStep
<1> QED  BY <1>3, <1>4

(* and a run that ends.                                                    *)
LEMMA RunEnds ==
  ASSUME IInv, NEW u \in Runs, EndRun(u) \/ AbandonRun(u)
  PROVE  /\ IInv' /\ UNCHANGED <<known, enrollment, trial, invoices, request>>
         /\ \E x \in RunRecords : run' = [run EXCEPT ![u] = x] /\ x.phase \in {"done", "failed"}
<1>1. UNCHANGED <<known, enrollment, trial, invoices, request>>
  BY DEF EndRun, AbandonRun
<1>2. RowsHold' /\ Onward /\ LocksHold
  BY <1>1, RowsStay DEF IInv
<1> PICK phase \in {"done", "failed"} : run' = [run EXCEPT ![u] = [phase |-> phase]]
  BY DEF EndRun, AbandonRun
<1> PICK x : x = [phase |-> phase]
  OBVIOUS
<1>3. x \in RunRecords /\ x.phase \in {"done", "failed"}
  BY DEF RunRecords
<1>4. RunKnows(x)'
  BY <1>3 DEF RunKnows
<1> QED  BY <1>1, <1>2, <1>3, <1>4, RunStep

-----------------------------------------------------------------------------
(* The theorems.                                                           *)

LEMMA Initial == Init => IInv
<1> SUFFICES ASSUME Init  PROVE IInv
  OBVIOUS
<1>1. RowsHold
  BY FS_EmptySet DEF Init, RowsHold, EnrollmentRows, Trials, InvoiceRows, Distinct, Refers
<1>2. request \in [Slots -> RequestRecords] /\ OneHolder /\ \A q \in Slots : Understood(request[q])
  BY DEF Init, RequestRecords, NoRequest, OneHolder, Holds, Understood, WithStudent
<1>3. run \in [Runs -> RunRecords] /\ \A u \in Runs : RunKnows(run[u])
  BY DEF Init, RunRecords, RunKnows
<1> QED  BY <1>1, <1>2, <1>3 DEF IInv

(* Every step keeps the invariant.                                         *)
LEMMA EveryStep ==
  ASSUME IInv, [Next]_vars
  PROVE  IInv'
<1>1. CASE UNCHANGED vars
  <2>1. UNCHANGED <<known, enrollment, trial, invoices, request, run>>
    BY <1>1 DEF vars
  <2> QED  BY <2>1, RowsStay, OfficeStep DEF IInv
<1>2. ASSUME NEW q \in Slots,
             \/ ReadEnroll(q) \/ CommitEnroll(q) \/ ReadBookTrial(q)
             \/ CommitBookTrial(q) \/ ReadCancel(q) \/ CommitCancel(q)
             \/ ReadConvert(q) \/ ReadExisting(q) \/ ReadUpdate(q)
             \/ LockEnrollment(q) \/ CommitEnrollment(q)
             \/ ReadChargeFee(q) \/ CommitChargeFee(q) \/ Fail(q)
      PROVE  IInv'
  <2>1. CASE Fail(q)
    <3>1. UNCHANGED <<known, enrollment, trial, invoices, run>> /\ Finish(q)
      BY <2>1 DEF Fail
    <3> QED  BY <3>1, RowsStay, EndStep DEF IInv
  <2> QED
    BY <1>2, <2>1, ReadStep, ReadExistingStep, LockStep, CommitEnrollStep, TrialDeskStep, CommitEnrollmentStep,
       CommitChargeFeeStep
<1>3. ASSUME NEW u \in Runs, \/ ReadEnrollments(u) \/ ReadInvoices(u) \/ IssueNext(u)
                             \/ EndRun(u) \/ AbandonRun(u)
      PROVE  IInv'
  BY <1>3, RunStarts, IssueNextStep, RunEnds
<1> QED  BY <1>1, <1>2, <1>3, CreateEnrollmentStep, RemoveEnrollmentStep DEF Next

(* Whatever overlaps, every request and every run still understands the    *)
(* rows it will write.                                                     *)
THEOREM EnrollmentInvariant == Spec => []IInv
BY Initial, EveryStep, PTL DEF Spec

(* The history of overlapping charges grows when one of them begins.       *)
LEMMA OnlyChargesOverlap ==
  ASSUME Next
  PROVE  UNCHANGED overlapped \/ \E u \in Runs : ReadEnrollments(u)
BY DEF Next, ReadEnroll, CommitEnroll, ReadBookTrial, CommitBookTrial, ReadCancel, CommitCancel,
       ReadConvert, ReadExisting, ReadUpdate, LockEnrollment, CommitEnrollment, ReadChargeFee,
       CommitChargeFee, Fail, Hold, CreateEnrollment, RemoveEnrollment, ReadInvoices, IssueNext,
       EndRun, AbandonRun

(* Rows keep their types, and an invoice its enrollment or none.           *)
THEOREM EnrollmentTypes == Spec => []TypeOK
<1>1. Init => overlapped \subseteq SUBSET Runs
  BY DEF Init
<1>2. overlapped \subseteq SUBSET Runs /\ [Next]_vars => (overlapped \subseteq SUBSET Runs)'
  <2> SUFFICES ASSUME overlapped \subseteq SUBSET Runs, Next, overlapped' # overlapped
               PROVE  overlapped' \subseteq SUBSET Runs
    BY DEF vars
  <2>1. PICK u \in Runs : ReadEnrollments(u)
    BY OnlyChargesOverlap
  <2> QED  BY <2>1 DEF ReadEnrollments, Pairs
<1> QED  BY <1>1, <1>2, EnrollmentInvariant, TypesAreRows, PTL DEF Spec

(* Activating, charging by hand and billing, however many at once, charge  *)
(* an enrollment its matricula once and each month once.                   *)
THEOREM NoPeriodTwice == Spec => []PeriodInvoicedOnce
BY EnrollmentInvariant, TypesAreRows, PTL

(* A run that ends without an error has left nobody out.                   *)
THEOREM NobodyLeftOut == Spec => RunBillsEveryone
<1> DEFINE Ends(u) == run[u].phase = "issuing" /\ run'[u].phase = "done"
           Done(u, s) ==
             \/ ~ Exists(s, run[u].listed[s])
             \/ run[u].concept \in Months /\ s \in Exempt
             \/ \E i \in invoices[s] :
                  /\ i.concept = run[u].concept
                  /\ run[u].concept \in Months => i.enrollment = run[u].listed[s]
<1>1. ASSUME IInv, [Next]_vars, NEW u \in Runs, Ends(u), NEW s \in Listed(u)
      PROVE  Done(u, s)
  <2>1. EndRun(u)
    <3>1. ASSUME NEW t \in Runs, NEW x \in RunRecords, run' = [run EXCEPT ![t] = x]
          PROVE  t = u /\ x.phase = "done"
      BY <1>1, <3>1 DEF IInv
    <3>2. ASSUME NEW t \in Runs, ReadEnrollments(t)  PROVE FALSE
      BY <1>1, <3>1, <3>2, ReadEnrollmentsBegins
    <3>3. ASSUME NEW t \in Runs, ReadInvoices(t)  PROVE FALSE
      BY <1>1, <3>1, <3>3, ReadInvoicesBegins
    <3>4. ASSUME NEW t \in Runs, IssueNext(t)  PROVE FALSE
      BY <1>1, <3>1, <3>4, IssueNextStep
    <3>5. ASSUME NEW t \in Runs, AbandonRun(t)  PROVE FALSE
      <4>1. run' = [run EXCEPT ![t] = [phase |-> "failed"]]
        BY <3>5 DEF AbandonRun
      <4>2. [phase |-> "failed"] \in RunRecords
        BY DEF RunRecords
      <4> QED  BY <3>1, <4>1, <4>2
    <3>6. ASSUME NEW t \in Runs, EndRun(t)  PROVE EndRun(u)
      <4>1. run' = [run EXCEPT ![t] = [phase |-> "done"]] /\ [phase |-> "done"] \in RunRecords
        BY <3>6 DEF EndRun, RunRecords
      <4>2. t = u
        BY <3>1, <4>1
      <4> QED  BY <3>6, <4>2
    <3>7. run' # run
      BY <1>1
    <3>8. ~ UNCHANGED vars /\ ~ CreateEnrollment /\ ~ RemoveEnrollment
      BY <3>7 DEF vars, CreateEnrollment, RemoveEnrollment
    <3>9. ASSUME NEW q \in Slots,
             \/ ReadEnroll(q) \/ CommitEnroll(q) \/ ReadBookTrial(q)
             \/ CommitBookTrial(q) \/ ReadCancel(q) \/ CommitCancel(q)
             \/ ReadConvert(q) \/ ReadExisting(q) \/ ReadUpdate(q)
             \/ LockEnrollment(q) \/ CommitEnrollment(q)
             \/ ReadChargeFee(q) \/ CommitChargeFee(q) \/ Fail(q)
          PROVE FALSE
      BY <3>7, <3>9 DEF ReadEnroll, CommitEnroll, ReadBookTrial, CommitBookTrial, ReadCancel, CommitCancel,
         ReadConvert, ReadExisting, ReadUpdate, LockEnrollment, CommitEnrollment, ReadChargeFee,
         CommitChargeFee, Fail, Hold
    <3> QED  BY <1>1, <3>2, <3>3, <3>4, <3>5, <3>6, <3>8, <3>9 DEF Next
  <2>2. run[u].phase = "issuing" /\ run[u].todo = {} /\ RunKnows(run[u])
    BY <1>1, <2>1 DEF EndRun, IInv
  <2>3. s \in Students /\ run[u].listed[s] # 0
    BY <1>1 DEF Listed
  <2>4. Settled(run[u], s)
    BY <2>2, <2>3 DEF RunKnows
  <2> QED  BY <2>4 DEF Settled
<1>2. IInv /\ [Next]_vars => [\A u \in Runs : Ends(u) => \A s \in Listed(u) : Done(u, s)]_vars
  BY <1>1
<1> QED  BY <1>2, EnrollmentInvariant, PTL DEF Spec, RunBillsEveryone
-----------------------------------------------------------------------------
(* Group charges.                                                          *)

(* What every other step does to the charges.                              *)
NoNewCharge ==
  /\ RetriesChargeNobodyAgain' /\ overlapped \subseteq overlapped'
  /\ \A s \in Students : \A j \in invoices'[s] : j.concept = "CHARGE" =>
       \E i \in invoices[s] : i.concept = "CHARGE" /\ i.by = j.by

(* Whoever was charged meanwhile stays so.                                 *)
LEMMA MeanwhileStays ==
  ASSUME NoNewCharge, NEW u \in Runs, NEW s \in Students, Meanwhile(u, s)
  PROVE  Meanwhile(u, s)'
BY DEF NoNewCharge, Meanwhile

(* A step that is not of a run leaves the charges as they are.             *)
LEMMA OthersCharge ==
  ASSUME IInv, ChargesKnown, NoNewCharge, UNCHANGED run
  PROVE  ChargesKnown'
<1>1. ASSUME NEW u \in Runs, run'[u].phase = "issuing" /\ run'[u].concept = "CHARGE", NEW s \in run'[u].todo
      PROVE  Meanwhile(u, s)'
  <2>1. run[u].phase = "issuing" /\ run[u].concept = "CHARGE" /\ s \in run[u].todo /\ run[u] \in RunRecords
    BY <1>1 DEF IInv
  <2>2. s \in Students /\ Meanwhile(u, s)
    BY <2>1, RunFields DEF ChargesKnown
  <2> QED  BY <2>2, MeanwhileStays
<1>2. OverlapsKnown'
  BY DEF ChargesKnown, OverlapsKnown, Charging, Running, NoNewCharge
<1> QED  BY <1>1, <1>2 DEF ChargesKnown, NoNewCharge

(* A run's step, given what it knows itself and what it does to others.    *)
LEMMA RunCharges ==
  ASSUME IInv, ChargesKnown, RetriesChargeNobodyAgain', overlapped \subseteq overlapped',
         NEW u \in Runs, NEW x \in RunRecords, run' = [run EXCEPT ![u] = x],
         (x.phase \in {"listed", "issuing"} /\ x.concept = "CHARGE") =>
           \A t \in Runs \ {u} : Charging(t) => {t, u} \in overlapped',
         (x.phase = "issuing" /\ x.concept = "CHARGE") => \A s \in x.todo : Meanwhile(u, s)',
         \A t \in Runs \ {u} : (run[t].phase = "issuing" /\ run[t].concept = "CHARGE") =>
                                  \A s \in run[t].todo : Meanwhile(t, s)'
  PROVE  ChargesKnown'
<1>1. run'[u] = x /\ \A t \in Runs \ {u} : run'[t] = run[t]
  BY DEF IInv
<1>2. OverlapsKnown'
  <2> SUFFICES ASSUME NEW t \in Runs, NEW v \in Runs, Charging(t)', Charging(v)', t # v
               PROVE  {t, v} \in overlapped'
    BY DEF OverlapsKnown
  <2>1. CASE t # u /\ v # u
    BY <1>1, <2>1 DEF ChargesKnown, OverlapsKnown, Charging, Running
  <2>2. CASE t = u
    <3>1. Charging(v) /\ v \in Runs \ {u} /\ x.phase \in {"listed", "issuing"} /\ x.concept = "CHARGE"
      BY <1>1, <2>2 DEF Charging, Running
    <3>2. {v, u} \in overlapped' /\ {v, u} = {t, v}
      BY <2>2, <3>1
    <3> QED  BY <3>2
  <2>3. CASE v = u
    <3>1. Charging(t) /\ t \in Runs \ {u} /\ x.phase \in {"listed", "issuing"} /\ x.concept = "CHARGE"
      BY <1>1, <2>3 DEF Charging, Running
    <3> QED  BY <2>3, <3>1
  <2> QED  BY <2>1, <2>2, <2>3
<1>3. ASSUME NEW t \in Runs, run'[t].phase = "issuing", run'[t].concept = "CHARGE", NEW s \in run'[t].todo
      PROVE  Meanwhile(t, s)'
  <2>1. CASE t = u
    BY <1>1, <1>3, <2>1
  <2>2. CASE t # u
    BY <1>1, <1>3, <2>2
  <2> QED  BY <2>1, <2>2
<1> QED  BY <1>2, <1>3 DEF ChargesKnown

(* Steps that leave the invoices alone.                                    *)
LEMMA SameInvoices ==
  ASSUME ChargesKnown, UNCHANGED invoices, overlapped \subseteq overlapped'
  PROVE  NoNewCharge
BY DEF ChargesKnown, NoNewCharge, RetriesChargeNobodyAgain

(* An invoice that is no charge.                                           *)
LEMMA OtherInvoice ==
  ASSUME RowsHold, ChargesKnown, UNCHANGED overlapped,
         NEW s \in Students, NEW new \in InvoiceRows, new.concept # "CHARGE",
         invoices' = [invoices EXCEPT ![s] = invoices[s] \cup {new}]
  PROVE  NoNewCharge
<1>1. invoices'[s] = invoices[s] \cup {new} /\ \A o \in Students \ {s} : invoices'[o] = invoices[o]
  BY DEF RowsHold
<1>2. ASSUME NEW o \in Students, NEW i \in invoices'[o], i.concept = "CHARGE"  PROVE i \in invoices[o]
  BY <1>1, <1>2
<1> QED  BY <1>2 DEF ChargesKnown, NoNewCharge, RetriesChargeNobodyAgain

(* A month is no charge,                                                   *)
LEMMA OtherConcept ==
  ASSUME RowsHold, ChargesKnown, UNCHANGED overlapped,
         NEW by \in SUBSET Runs, NEW s \in Students, NEW id \in Nat, NEW concept \in Concepts, concept # "CHARGE",
         invoices' = [invoices EXCEPT ![s] = InvoicedBy(by, s, id, concept)]
  PROVE  NoNewCharge
<1> PICK new \in InvoiceRows : new.concept = concept /\ InvoicedBy(by, s, id, concept) = invoices[s] \cup {new}
  BY InvoicedByRows
<1> QED  BY OtherInvoice

(* and a matricula is none.                                                *)
LEMMA FeeIsNoCharge ==
  ASSUME RowsHold, ChargesKnown, UNCHANGED overlapped, NEW s \in Students, NEW id \in Nat,
         invoices' = [invoices EXCEPT ![s] = Invoiced(s, id, ENROLLMENT_FEE_PERIOD)]
  PROVE  NoNewCharge
<1>1. ENROLLMENT_FEE_PERIOD \in Concepts /\ ENROLLMENT_FEE_PERIOD # "CHARGE"
  BY DEF Concepts, ENROLLMENT_FEE_PERIOD
<1>2. PICK new \in InvoiceRows : /\ new.concept = ENROLLMENT_FEE_PERIOD
                                 /\ Invoiced(s, id, ENROLLMENT_FEE_PERIOD) = invoices[s] \cup {new}
  BY <1>1, InvoicedRows
<1> QED  BY <1>1, <1>2, OtherInvoice

(* Deleting an enrollment leaves its student's charges.                    *)
LEMMA DetachedCharge ==
  ASSUME RowsHold, ChargesKnown, UNCHANGED overlapped, NEW s \in Students,
         invoices' = [invoices EXCEPT ![s] = Detach(s)]
  PROVE  NoNewCharge
<1>1. invoices'[s] = Detach(s) /\ \A o \in Students \ {s} : invoices'[o] = invoices[o]
  BY DEF RowsHold
<1>2. \A j \in Detach(s) : \E i \in invoices[s] :
        j = [i EXCEPT !.enrollment = 0] /\ j.concept = i.concept /\ j.by = i.by
  BY DetachedRows DEF RowsHold, InvoiceRows
<1>3. ASSUME NEW j \in Detach(s), NEW k \in Detach(s), j.concept = "CHARGE", k.concept = "CHARGE", j # k
      PROVE  j.by \cup k.by \in overlapped
  <2>1. PICK i \in invoices[s] : j = [i EXCEPT !.enrollment = 0] /\ j.concept = i.concept /\ j.by = i.by
    BY <1>2
  <2>2. PICK h \in invoices[s] : k = [h EXCEPT !.enrollment = 0] /\ k.concept = h.concept /\ k.by = h.by
    BY <1>2
  <2>3. i # h
    BY <1>3, <2>1, <2>2
  <2> QED  BY <1>3, <2>1, <2>2, <2>3 DEF ChargesKnown, RetriesChargeNobodyAgain
<1>4. RetriesChargeNobodyAgain'
  BY <1>1, <1>3 DEF ChargesKnown, RetriesChargeNobodyAgain
<1> QED  BY <1>1, <1>2, <1>4 DEF NoNewCharge

(* The requests and the office.                                            *)
LEMMA RequestsChargeNothing ==
  ASSUME IInv, ChargesKnown, NEW q \in Slots,
         \/ ReadEnroll(q) \/ CommitEnroll(q) \/ ReadBookTrial(q)
         \/ CommitBookTrial(q) \/ ReadCancel(q) \/ CommitCancel(q)
         \/ ReadConvert(q) \/ ReadExisting(q) \/ ReadUpdate(q)
         \/ LockEnrollment(q) \/ CommitEnrollment(q)
         \/ ReadChargeFee(q) \/ CommitChargeFee(q) \/ Fail(q)
  PROVE  ChargesKnown'
<1>1. UNCHANGED <<run, overlapped>>
  BY DEF ReadEnroll, CommitEnroll, ReadBookTrial, CommitBookTrial, ReadCancel, CommitCancel,
         ReadConvert, ReadExisting, ReadUpdate, LockEnrollment, CommitEnrollment, ReadChargeFee,
         CommitChargeFee, Fail, Hold
<1>2. ENROLLMENT_FEE_PERIOD \in Concepts /\ ENROLLMENT_FEE_PERIOD # "CHARGE" /\ RowsHold
  BY DEF Concepts, ENROLLMENT_FEE_PERIOD, IInv
<1> PICK r \in RequestRecords : r = request[q]
  BY DEF IInv
<1>3. CASE CommitEnrollment(q)
  <2>1. r.op = "tx"
    BY <1>3 DEF CommitEnrollment
  <2>2. r.s \in Students /\ r.id \in Nat
    BY <2>1, RequestFields
  <2>3. enrollment[r.s].id + 1 \in Nat
    BY <1>2, <2>2 DEF RowsHold, EnrollmentRows
  <2>4. \/ UNCHANGED invoices
        \/ invoices' = [invoices EXCEPT ![r.s] = Invoiced(r.s, r.id, ENROLLMENT_FEE_PERIOD)]
        \/ invoices' = [invoices EXCEPT ![r.s] = Invoiced(r.s, enrollment[r.s].id + 1, ENROLLMENT_FEE_PERIOD)]
    BY <1>3 DEF CommitEnrollment
  <2> PICK next \in Nat : next = enrollment[r.s].id + 1
    BY <2>3
  <2>5. NoNewCharge
    BY <1>1, <1>2, <2>2, <2>4, SameInvoices, FeeIsNoCharge
  <2> QED  BY <1>1, <2>5, OthersCharge
<1>4. CASE CommitChargeFee(q)
  <2>1. r.op = "chargeFee"
        /\ invoices' = [invoices EXCEPT ![r.s] = Invoiced(r.s, r.id, ENROLLMENT_FEE_PERIOD)]
    BY <1>4 DEF CommitChargeFee
  <2>2. r.s \in Students /\ r.id \in Nat
    BY <2>1, RequestFields
  <2>3. NoNewCharge
    BY <1>1, <1>2, <2>1, <2>2, FeeIsNoCharge
  <2> QED  BY <1>1, <2>3, OthersCharge
<1>5. CASE ~ CommitEnrollment(q) /\ ~ CommitChargeFee(q)
  <2>1. UNCHANGED invoices
    BY <1>5 DEF ReadEnroll, CommitEnroll, ReadBookTrial, CommitBookTrial, ReadCancel, CommitCancel,
         ReadConvert, ReadExisting, ReadUpdate, LockEnrollment, ReadChargeFee, Fail, Hold
  <2> QED  BY <1>1, <2>1, SameInvoices, OthersCharge
<1> QED  BY <1>3, <1>4, <1>5

(* The office enrolls and removes without an invoice.                      *)
LEMMA OfficeChargesNothing ==
  ASSUME IInv, ChargesKnown, CreateEnrollment \/ RemoveEnrollment
  PROVE  ChargesKnown'
<1>1. UNCHANGED <<run, overlapped>> /\ RowsHold
  BY DEF CreateEnrollment, RemoveEnrollment, IInv
<1>2. CASE CreateEnrollment
  <2> PICK s \in known : \/ UNCHANGED invoices
                         \/ invoices' = [invoices EXCEPT ![s] =
                                           Invoiced(s, enrollment[s].id + 1, ENROLLMENT_FEE_PERIOD)]
    BY <1>2 DEF CreateEnrollment
  <2>1. /\ s \in Students /\ enrollment[s].id + 1 \in Nat
        /\ ENROLLMENT_FEE_PERIOD \in Concepts /\ ENROLLMENT_FEE_PERIOD # "CHARGE"
    BY <1>1 DEF RowsHold, EnrollmentRows, Concepts, ENROLLMENT_FEE_PERIOD
  <2>2. NoNewCharge
    BY <1>1, <2>1, SameInvoices, FeeIsNoCharge
  <2> QED  BY <1>1, <2>2, OthersCharge
<1>3. CASE RemoveEnrollment
  BY <1>1, <1>3, DetachedCharge, OthersCharge DEF RemoveEnrollment
<1> QED  BY <1>2, <1>3

(* What a run read of its students is still so, but for the charges that   *)
(* other calls in progress issue meanwhile.                                *)
LEMMA RunsOverlapKnown ==
  ASSUME IInv, ChargesKnown, NEW u \in Runs,
         ReadEnrollments(u) \/ ReadInvoices(u) \/ IssueNext(u) \/ EndRun(u) \/ AbandonRun(u)
  PROVE  ChargesKnown'
<1> PICK was \in RunRecords : was = run[u]
  BY DEF IInv
<1>1. ASSUME NoNewCharge
      PROVE  /\ RetriesChargeNobodyAgain' /\ overlapped \subseteq overlapped'
             /\ \A t \in Runs : (run[t].phase = "issuing" /\ run[t].concept = "CHARGE") =>
                                   \A s \in run[t].todo : Meanwhile(t, s)'
  BY <1>1, RunFields, MeanwhileStays DEF NoNewCharge, ChargesKnown, IInv
<1>2. "CHARGE" \notin Months
  BY EnrollmentAssumption
<1>3. Charging(u) => \A t \in Runs \ {u} : Charging(t) => {t, u} \in overlapped
  BY DEF ChargesKnown, OverlapsKnown
<1>4. CASE ReadEnrollments(u)
  <2> PICK x \in RunRecords :
        /\ run' = [run EXCEPT ![u] = x] /\ x.phase = "listed"
        /\ overlapped' = IF x.concept = "CHARGE" THEN overlapped \cup Pairs(u) ELSE overlapped
    BY <1>4, ReadEnrollmentsBegins
  <2>1. overlapped \subseteq overlapped' /\ UNCHANGED invoices
    BY <1>4 DEF ReadEnrollments
  <2>2. NoNewCharge
    BY <2>1, SameInvoices
  <2>3. ASSUME x.concept = "CHARGE", NEW t \in Runs \ {u}, Charging(t)  PROVE {t, u} \in overlapped'
    <3>1. {u, t} \in Pairs(u) /\ {u, t} = {t, u}
      BY <2>3 DEF Pairs
    <3> QED  BY <2>3, <3>1
  <2> QED  BY <1>1, <2>2, <2>3, RunCharges
<1>5. CASE ReadInvoices(u)
  <2>1. PICK x \in RunRecords :
        /\ run' = [run EXCEPT ![u] = x] /\ run[u].phase = "listed" /\ x.phase = "issuing"
        /\ x.concept = run[u].concept /\ x.listed = run[u].listed
        /\ x.todo = Listed(u) \ (Billed(u) \cup (IF x.concept \in Months THEN Exempt ELSE {}))
    BY <1>5, ReadInvoicesBegins
  <2>2. UNCHANGED <<invoices, overlapped>>
    BY <1>5 DEF ReadInvoices
  <2>3. NoNewCharge
    BY <2>2, SameInvoices
  <2>4. ASSUME x.concept = "CHARGE", NEW s \in x.todo  PROVE Meanwhile(u, s)'
    <3>1. s \in Listed(u) /\ s \notin Billed(u)
      BY <2>1
    <3> QED  BY <1>2, <2>1, <2>2, <2>4, <3>1 DEF Billed, Meanwhile
  <2>5. x.concept = "CHARGE" => Charging(u)
    BY <2>1 DEF Charging, Running
  <2> QED  BY <1>1, <1>3, <2>1, <2>2, <2>3, <2>4, <2>5, RunCharges
<1>6. CASE IssueNext(u)
  <2>1. PICK s \in Students, x \in RunRecords :
              /\ run[u].phase = "issuing" /\ s \in run[u].todo
              /\ run' = [run EXCEPT ![u] = x] /\ x.phase = "issuing"
              /\ x.concept = run[u].concept /\ x.todo = run[u].todo \ {s}
              /\ invoices' = [invoices EXCEPT ![s] = InvoicedBy(Issuer(u), s, run[u].listed[s], run[u].concept)]
    BY <1>6, IssueNextStep
  <2> PICK by \in SUBSET Runs : by = Issuer(u)
    BY DEF Issuer
  <2>2. /\ was.concept \in Concepts /\ was.listed[s] \in Nat /\ was.todo \in SUBSET Students /\ RowsHold
        /\ UNCHANGED overlapped
    BY <1>6, <2>1, RunFields DEF Concepts, IInv, IssueNext
  <2>3. CASE was.concept = "CHARGE"
    <3>1. Charging(u) /\ by = {u} /\ Meanwhile(u, s)
      BY <2>1, <2>3 DEF Charging, Running, Issuer, ChargesKnown
    <3>2. PICK new \in InvoiceRows : /\ new.by = {u}
                                     /\ InvoicedBy(by, s, was.listed[s], was.concept) = invoices[s] \cup {new}
      BY <2>2, <3>1, InvoicedByRows
    <3>3. invoices'[s] = invoices[s] \cup {new} /\ \A o \in Students \ {s} : invoices'[o] = invoices[o]
      BY <2>1, <2>2, <3>2 DEF RowsHold
    <3>4. RetriesChargeNobodyAgain'
      <4> SUFFICES ASSUME NEW o \in Students, NEW i \in invoices'[o], NEW j \in invoices'[o],
                          i.concept = "CHARGE", j.concept = "CHARGE", i # j
                   PROVE  i.by \cup j.by \in overlapped
        BY <2>2 DEF RetriesChargeNobodyAgain
      <4>1. CASE i \in invoices[o] /\ j \in invoices[o]
        BY <4>1 DEF ChargesKnown, RetriesChargeNobodyAgain
      <4>2. CASE o = s /\ i = new
        <5>1. j \in invoices[s] /\ j.by \cup {u} \in overlapped
          BY <3>1, <3>3, <4>2 DEF Meanwhile
        <5>2. i.by \cup j.by = j.by \cup {u}
          BY <3>2, <4>2
        <5> QED  BY <5>1, <5>2
      <4>3. CASE o = s /\ j = new
        <5>1. i \in invoices[s] /\ i.by \cup {u} \in overlapped
          BY <3>1, <3>3, <4>3 DEF Meanwhile
        <5>2. i.by \cup j.by = i.by \cup {u}
          BY <3>2, <4>3
        <5> QED  BY <5>1, <5>2
      <4> QED  BY <3>3, <4>1, <4>2, <4>3
    <3>5. ASSUME NEW t \in Runs \ {u}, run[t].phase = "issuing" /\ run[t].concept = "CHARGE", NEW o \in run[t].todo
          PROVE  Meanwhile(t, o)'
      <4>1. Charging(t) /\ {t, u} \in overlapped /\ Meanwhile(t, o) /\ o \in Students
        BY <1>3, <3>1, <3>5, RunFields DEF Charging, Running, ChargesKnown, IInv
      <4>2. new.by \cup {t} = {t, u}
        BY <3>2
      <4> QED  BY <2>2, <3>3, <4>1, <4>2 DEF Meanwhile
    <3>6. ASSUME NEW o \in x.todo  PROVE Meanwhile(u, o)'
      BY <2>1, <2>2, <2>3, <3>3, <3>6 DEF ChargesKnown, Meanwhile
    <3> QED  BY <1>3, <2>1, <2>2, <3>1, <3>4, <3>5, <3>6, RunCharges
  <2>4. CASE was.concept # "CHARGE"
    <3>1. NoNewCharge
      BY <2>1, <2>2, <2>4, OtherConcept
    <3>2. x.concept # "CHARGE"
      BY <2>1, <2>4
    <3> QED  BY <1>1, <2>1, <3>1, <3>2, RunCharges
  <2> QED  BY <2>3, <2>4
<1>7. CASE EndRun(u) \/ AbandonRun(u)
  <2> PICK x \in RunRecords : run' = [run EXCEPT ![u] = x] /\ x.phase \in {"done", "failed"}
    BY <1>7, RunEnds
  <2>1. NoNewCharge
    BY <1>7, SameInvoices DEF EndRun, AbandonRun
  <2> QED  BY <1>1, <2>1, RunCharges
<1> QED  BY <1>4, <1>5, <1>6, <1>7

(* Whatever overlaps, a concept charged again on the same day charges a    *)
(* student twice only if the two calls were in progress together.          *)
THEOREM ChargesDoNotRepeat == Spec => []RetriesChargeNobodyAgain
<1>1. Init => ChargesKnown
  BY DEF Init, ChargesKnown, RetriesChargeNobodyAgain, OverlapsKnown, Charging, Running
<1>2. IInv /\ ChargesKnown /\ [Next]_vars => ChargesKnown'
  <2> SUFFICES ASSUME IInv, ChargesKnown, [Next]_vars  PROVE ChargesKnown'
    OBVIOUS
  <2>1. CASE UNCHANGED vars
    BY <2>1, SameInvoices, OthersCharge DEF vars
  <2> QED
    BY <2>1, RequestsChargeNothing, OfficeChargesNothing, RunsOverlapKnown DEF Next
<1>3. ChargesKnown => RetriesChargeNobodyAgain
  BY DEF ChargesKnown
<1> QED  BY <1>1, <1>2, <1>3, EnrollmentInvariant, PTL DEF Spec
-----------------------------------------------------------------------------
(* What a month costs.                                                     *)

(* The rounding of a fraction is the nearest integer, halves going up.     *)
LEMMA Halves ==
  ASSUME NEW a \in Nat, NEW b \in Nat \ {0}
  PROVE  /\ Rounded(a, b) \in Nat
         /\ 2 * (b * Rounded(a, b)) <= 2 * a + b /\ 2 * a < 2 * (b * Rounded(a, b)) + b
<1>1. /\ Rounded(a, b) \in Nat
      /\ 2 * b * Rounded(a, b) <= 2 * a + b /\ 2 * a + b < 2 * b * Rounded(a, b) + 2 * b
  BY DEF Rounded
<1> QED  BY <1>1

(* Products of what follows.                                               *)
LEMMA Times == \A a, b, c \in Nat : a <= b => a * c <= b * c /\ c * a <= c * b
OBVIOUS
(* An inequality may be divided by what both sides are multiplied by.      *)
LEMMA Over == \A a, b \in Int, c \in Nat \ {0} : (c * a <= c * b => a <= b) /\ (c * a < c * b => a < b)
OBVIOUS

(* A share of an amount is never more than it, all of it is it and none of *)
(* it is nothing.                                                          *)
LEMMA ShareOfAmount ==
  ASSUME NEW d \in Nat, NEW n \in Nat \ {0}, NEW l \in 0..n
  PROVE  /\ Rounded(d * l, n) \in Nat /\ Rounded(d * l, n) <= d
         /\ l = n => Rounded(d * l, n) = d
         /\ l = 0 => Rounded(d * l, n) = 0
<1> PICK r \in Nat : r = Rounded(d * l, n)
  BY Halves
<1>1. d * l \in Nat /\ d * l <= d * n /\ n * r \in Nat /\ n * d \in Nat /\ d * n = n * d
  BY Times
<1>2. 2 * (n * r) <= 2 * (d * l) + n /\ 2 * (d * l) < 2 * (n * r) + n
  BY <1>1, Halves
<1>3. n * r < n * (d + 1)
  <2>1. n * (d + 1) = n * d + n
    OBVIOUS
  <2> QED  BY <1>1, <1>2, <2>1
<1>4. r <= d
  BY <1>3, Over
<1>5. ASSUME l = n  PROVE r = d
  <2>1. n * d < n * (r + 1)
    <3>1. n * (r + 1) = n * r + n
      OBVIOUS
    <3> QED  BY <1>1, <1>2, <1>5, <3>1
  <2> QED  BY <1>4, <2>1, Over
<1>6. ASSUME l = 0  PROVE r = 0
  <2>1. n * r < n * 1
    BY <1>1, <1>2, <1>6
  <2> QED  BY <2>1, Over
<1> QED  BY <1>4, <1>5, <1>6

(* A larger share is never less.                                           *)
LEMMA MoreIsMore ==
  ASSUME NEW d \in Nat, NEW n \in Nat \ {0}, NEW k \in Nat, NEW l \in Nat, k <= l
  PROVE  Rounded(d * k, n) <= Rounded(d * l, n)
<1> PICK r \in Nat : r = Rounded(d * k, n)
  BY Halves
<1> PICK p \in Nat : p = Rounded(d * l, n)
  BY Halves
<1>1. d * k \in Nat /\ d * l \in Nat /\ d * k <= d * l /\ n * r \in Nat /\ n * p \in Nat
  BY Times
<1>2. 2 * (n * r) <= 2 * (d * k) + n /\ 2 * (d * l) < 2 * (n * p) + n
  BY <1>1, Halves
<1>3. n * r < n * (p + 1)
  <2>1. n * (p + 1) = n * p + n
    OBVIOUS
  <2> QED  BY <1>1, <1>2, <2>1
<1> QED  BY <1>3, Over

(* Rounding twice, the discount and then the share, misses the exact       *)
(* amount by a cent at most.                                               *)
LEMMA TwiceRounded ==
  ASSUME NEW f \in Nat, NEW n \in Nat \ {0}, NEW l \in 0..n, NEW d \in Nat, NEW r \in Nat,
         d = Rounded(f, 100), r = Rounded(d * l, n)
  PROVE  r * (100 * n) <= f * l + 100 * n /\ f * l <= r * (100 * n) + 100 * n
<1>1. 200 * d <= 2 * f + 100 /\ 2 * f < 200 * d + 100
  <2>1. 100 \in Nat \ {0} /\ 2 * (100 * d) = 200 * d
    OBVIOUS
  <2>2. 2 * (100 * d) <= 2 * f + 100 /\ 2 * f < 2 * (100 * d) + 100
    BY <2>1, Halves
  <2> QED  BY <2>1, <2>2
<1>2. d * l \in Nat /\ f * l \in Nat /\ n * r \in Nat
  OBVIOUS
<1>3. 2 * (n * r) <= 2 * (d * l) + n /\ 2 * (d * l) < 2 * (n * r) + n
  BY <1>2, Halves
<1>4. (100 * d) * l <= (f + 50) * l /\ f * l <= (100 * d + 50) * l
  <2>1. 100 * d <= f + 50 /\ f <= 100 * d + 50 /\ 100 * d \in Nat /\ f + 50 \in Nat /\ 100 * d + 50 \in Nat
    BY <1>1
  <2> QED  BY <2>1, Times
<1>5. /\ (100 * d) * l = 100 * (d * l) /\ (f + 50) * l = f * l + 50 * l
      /\ (100 * d + 50) * l = 100 * (d * l) + 50 * l
      /\ r * (100 * n) = 100 * (n * r)
  OBVIOUS
<1> QED  BY <1>2, <1>3, <1>4, <1>5

(* The days from a day to the end of the month, counted.                   *)
LEMMA FromOn ==
  ASSUME NEW days \in Nat, NEW day \in 1..days
  PROVE  /\ IsFiniteSet({u \in 1..days : u >= day})
         /\ Cardinality({u \in 1..days : u >= day}) = days - day + 1
<1>1. {u \in 1..days : u >= day} = day..days
  OBVIOUS
<1>2. day \in Int /\ days \in Int /\ ~(day > days)
  OBVIOUS
<1>3. IsFiniteSet(day..days) /\ Cardinality(day..days) = days - day + 1
  BY <1>2, FS_Interval
<1> QED  BY <1>1, <1>3

(* The units a month is shared by, and those that are left on a day.       *)
UnitsOf(classes, days) == IF classes = {} THEN 1..days ELSE classes
From(units, day) == {u \in units : u >= day}

(* proration counts the units that are left and all of them.               *)
LEMMA Proration ==
  ASSUME NEW days \in MonthLengths, NEW classes \in SUBSET ClassDays, NEW day \in 1..days
  PROVE  LET units == UnitsOf(classes, days)
         IN  /\ IsFiniteSet(units) /\ units # {} /\ units \subseteq Nat \ {0}
             /\ proration(day, classes, days).left = Cardinality(From(units, day))
             /\ proration(day, classes, days).of = Cardinality(units)
<1> USE SharesAssumption
<1> PICK units : units = UnitsOf(classes, days)
  OBVIOUS
<1> PICK left : left = From(units, day)
  OBVIOUS
<1> USE DEF UnitsOf, From
<1>1. days \in Nat \ {0}
  BY DEF SharesAssumption
<1>2. CASE classes = {}
  <2>1. units = 1..days /\ IsFiniteSet(units) /\ Cardinality(units) = days /\ 1 \in units
    <3>1. IsFiniteSet(1..days) /\ Cardinality(1..days) = days /\ 1 \in 1..days
      BY <1>1, FS_Interval
    <3> QED  BY <1>2, <3>1
  <2>2. Cardinality(left) = days - day + 1
    BY <1>1, <2>1, FromOn
  <2>3. proration(day, classes, days) = [left |-> days - day + 1, of |-> days]
    BY <1>2 DEF proration
  <2>4. proration(day, classes, days).left = Cardinality(left) /\ proration(day, classes, days).of = Cardinality(units)
    BY <2>1, <2>2, <2>3
  <2>5. units \subseteq Nat \ {0}
    BY <1>1, <2>1
  <2> QED  BY <2>1, <2>4, <2>5
<1>3. CASE classes # {}
  <2>1. IsFiniteSet(classes) /\ classes \subseteq Nat \ {0}
    BY FS_Subset DEF SharesAssumption
  <2>2. left = {c \in classes : c >= day} /\ units = classes
    BY <1>3
  <2>3. proration(day, classes, days) = [left |-> Cardinality(left), of |-> Cardinality(units)]
    BY <1>3, <2>2 DEF proration
  <2>4. proration(day, classes, days).left = Cardinality(left) /\ proration(day, classes, days).of = Cardinality(units)
    BY <2>3
  <2> QED  BY <1>3, <2>1, <2>2, <2>4
<1> QED  BY <1>2, <1>3

(* What is left for one day has more for an earlier one, and of all.       *)
LEMMA Counted ==
  ASSUME NEW units \in SUBSET Nat, IsFiniteSet(units), units # {}, NEW day \in Nat
  PROVE  LET n == Cardinality(units)
             l == Cardinality(From(units, day))
         IN  /\ n \in Nat \ {0} /\ l \in 0..n /\ Cardinality(From(units, day + 1)) \in 0..l
             /\ From(units, day) = {} => l = 0
<1> DEFINE left == From(units, day)
           later == From(units, day + 1)
<1>1. left \subseteq units /\ later \subseteq left
  <2>1. \A u \in Nat : u >= day + 1 => u >= day
    OBVIOUS
  <2> QED  BY <2>1 DEF From
<1> HIDE DEF left, later
<1>2. IsFiniteSet(left) /\ Cardinality(left) <= Cardinality(units)
  BY <1>1, FS_Subset
<1>3. IsFiniteSet(later) /\ Cardinality(later) <= Cardinality(left)
  BY <1>1, <1>2, FS_Subset
<1>4. Cardinality(units) \in Nat /\ Cardinality(left) \in Nat /\ Cardinality(later) \in Nat
      /\ Cardinality(units) # 0
  BY <1>2, <1>3, FS_CardinalityType, FS_EmptySet
<1>5. left = {} => Cardinality(left) = 0
  BY FS_EmptySet
<1>6. /\ Cardinality(units) \in Nat \ {0} /\ Cardinality(left) \in 0..Cardinality(units)
      /\ Cardinality(later) \in 0..Cardinality(left)
      /\ left = {} => Cardinality(left) = 0
  BY <1>2, <1>3, <1>4, <1>5
<1> QED  BY <1>6 DEF left, later

(* Whatever the fees, the discounts, the calendar and the day of joining.  *)
THEOREM SharesFair == SharesAreFair
<1> USE SharesAssumption
<1> SUFFICES ASSUME NEW fee \in Fees, NEW percent \in Percents, NEW days \in MonthLengths,
                    NEW classes \in SUBSET ClassDays, NEW day \in 1..days
             PROVE  LET Pays(d) == MonthFee(fee, percent, d, classes, days)
                        Units == IF classes = {} THEN 1..days ELSE classes
                        Left(d) == {u \in Units : u >= d}
                        exact(d) == fee * (100 - percent) * Cardinality(Left(d))
                        all == 100 * Cardinality(Units)
                    IN  /\ Left(day) = Units => Pays(day) = discounted(fee, percent)
                        /\ Left(day) = {} => Pays(day) = 0
                        /\ day < days => Pays(day + 1) <= Pays(day)
                        /\ Pays(day) * all <= exact(day) + all /\ exact(day) <= Pays(day) * all + all
  BY DEF SharesAreFair
<1> DEFINE Pays(d) == MonthFee(fee, percent, d, classes, days)
<1> PICK units : units = UnitsOf(classes, days)
  OBVIOUS
<1>0. 100 \in Nat \ {0}
  OBVIOUS
<1> PICK f \in Nat : f = fee * (100 - percent)
  BY DEF SharesAssumption
<1> PICK whole \in Nat : whole = Rounded(f, 100)
  BY <1>0, Halves
<1>1. discounted(fee, percent) = whole
  BY DEF discounted
<1>2. days \in Nat \ {0} /\ day \in Nat
  BY DEF SharesAssumption
<1>3. IsFiniteSet(units) /\ units # {} /\ units \subseteq Nat \ {0}
  BY <1>0, Proration
<1>4. \A d \in 1..days : /\ proration(d, classes, days).left = Cardinality(From(units, d))
                         /\ proration(d, classes, days).of = Cardinality(units)
  BY <1>0, Proration
<1> PICK n \in Nat \ {0} : n = Cardinality(units)
  BY <1>2, <1>3, Counted
<1> PICK l \in 0..n : l = Cardinality(From(units, day))
  BY <1>2, <1>3, Counted
<1> PICK k \in 0..l : k = Cardinality(From(units, day + 1))
  BY <1>2, <1>3, Counted
<1>5. (From(units, day) = units => l = n) /\ (From(units, day) = {} => l = 0)
  BY <1>2, <1>3, Counted
<1>6. Pays(day) = IF day = 1 THEN whole ELSE Rounded(whole * l, n)
  BY <1>1, <1>4 DEF MonthFee
<1>7. day = 1 => From(units, day) = units
  <2>1. \A u \in Nat \ {0} : u >= 1
    OBVIOUS
  <2> QED  BY <1>3, <2>1 DEF From
<1> HIDE DEF Pays
<1>8. Pays(day) = Rounded(whole * l, n)
  BY <1>5, <1>6, <1>7, ShareOfAmount
<1> PICK r \in Nat : r = Rounded(whole * l, n)
  BY ShareOfAmount
<1>9. From(units, day) = units => Pays(day) = whole
  BY <1>5, <1>8, ShareOfAmount
<1>10. From(units, day) = {} => Pays(day) = 0
  BY <1>5, <1>8, ShareOfAmount
<1>11. ASSUME day < days  PROVE Pays(day + 1) <= Pays(day)
  <2>1. Pays(day + 1) = Rounded(whole * k, n)
    <3>1. day + 1 \in 1..days /\ day + 1 # 1
      BY <1>2, <1>11
    <3> QED  BY <1>1, <1>4, <3>1 DEF MonthFee, Pays
  <2> QED  BY <1>8, <2>1, MoreIsMore
<1>12. r * (100 * n) <= f * l + 100 * n /\ f * l <= r * (100 * n) + 100 * n
  <2>1. /\ f \in Nat /\ n \in Nat \ {0} /\ l \in 0..n /\ whole \in Nat /\ r \in Nat
        /\ whole = Rounded(f, 100) /\ r = Rounded(whole * l, n)
    OBVIOUS
  <2> QED  BY ONLY <2>1, TwiceRounded, ZenonT(60)
<1> QED  BY <1>1, <1>8, <1>9, <1>10, <1>11, <1>12 DEF Pays, UnitsOf, From

(* Every month that is invoiced is shared fairly.                          *)
THEOREM MonthsAreShared == Spec => []MonthIsShared
<1>1. MonthIsShared
  BY SharesFair DEF MonthIsShared
<1> QED  BY <1>1, PTL
=============================================================================
