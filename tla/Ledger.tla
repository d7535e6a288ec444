------------------------------- MODULE Ledger -------------------------------
(***************************************************************************)
(* The money of one academy: invoices, the payments registered on them,    *)
(* Stripe's card webhooks and the SEPA remittances.                        *)
(*                                                                         *)
(* Every endpoint below reads the rows it works on first, outside any      *)
(* transaction, checks and computes with that snapshot, and then writes    *)
(* absolute values (paidAmount, status) in one transaction.  A request is  *)
(* therefore two steps, a reading step that fills its slot and a           *)
(* committing step, with any number of other requests in between, and a    *)
(* third, LookUp, where a second query comes after the first.  The         *)
(* committing transactions only write, and their row locks serialize them, *)
(* so each is one atomic step.  Slots is the set of requests that can be   *)
(* in progress at once; with a single slot the API serves one at a time.   *)
(***************************************************************************)
EXTENDS Integers, Sequences

CONSTANTS Slots,         \* requests in progress at the same time
          Invoices,      \* identifiers of invoices
          Amounts,       \* what an invoice can amount to
          Incoming,      \* what a payment registered by hand can amount to
          RectifiedTo,   \* amounts of a rectification: may be zero
          Fees,          \* bank fees passed on to the family
          References,    \* Stripe checkouts
          Remittances,   \* identifiers of SEPA remittances
          DueDates,      \* due dates an invoice can be given
          NoDay,         \* an invoice without a due date
          LastDay,       \* bound: the clock stops there
          MaxPayments    \* bound: payments ever registered on an invoice

ASSUME AmountAssumption ==
  /\ Amounts \subseteq Nat \ {0} /\ Incoming \subseteq Nat \ {0}
  /\ RectifiedTo \subseteq Nat /\ Fees \subseteq Nat \ {0}
ASSUME DayAssumption ==
  /\ DueDates \subseteq Nat \cup {NoDay} /\ NoDay \notin Nat /\ LastDay \in Nat
ASSUME MaxPaymentsAssumption == MaxPayments \in Nat

VARIABLES now,         \* today
          invoice,     \* the invoice rows
          payments,    \* per invoice, the payments ever registered
          checkout,    \* the Stripe checkouts opened
          remittance,  \* status of each remittance
          item,        \* the receipts of each remittance, by invoice
          request      \* what each slot has read and is about to write

vars == <<now, invoice, payments, checkout, remittance, item, request>>

FEE_DUE_DAYS == 7

-----------------------------------------------------------------------------
(* Rows.                                                                   *)

Unissued == [status |-> "NONE", amount |-> 0, paid |-> 0, due |-> NoDay,
             rectifies |-> {}]
Owing == {"PENDING", "PARTIAL", "OVERDUE"}

(* A deleted payment leaves a hole, so that identifiers are never reused.  *)
Deleted == [amount |-> 0, method |-> "DELETED", source |-> {}]
Live(i, k) == k \in 1..Len(payments[i]) /\ payments[i][k] # Deleted

NoItem == [status |-> "NONE", amount |-> 0, payment |-> 0]
NoRequest == [op |-> "idle"]

Issued(i) == invoice[i].status # "NONE"
Pending(i) == invoice[i].amount - invoice[i].paid
Recorded(r) == remittance[r] \in {"SENT", "COLLECTED"}

Past(due) == due # NoDay /\ due < now

(* Mutant: an unpaid invoice goes back to being a draft.                   *)
computeStatusDraft(amount, paid, due) ==
  IF paid >= amount THEN "PAID"
  ELSE IF Past(due) THEN "OVERDUE"
  ELSE IF paid > 0 THEN "PARTIAL" ELSE "DRAFT"

computeStatus(amount, paid, due) ==
  IF paid >= amount THEN "PAID"
  ELSE IF Past(due) THEN "OVERDUE"
  ELSE IF paid > 0 THEN "PARTIAL" ELSE "PENDING"

(* The write every payment operation ends in: paidAmount and status from   *)
(* what the request read.                                                  *)
Settle(row, paid, due) ==
  [row EXCEPT !.paid = paid, !.status = computeStatus(row.amount, paid, due)]

(* createChainedInvoice, as far as the ledger is concerned.                *)
NewInvoice(amount, due, rectifies) ==
  [status |-> "PENDING", amount |-> amount, paid |-> 0, due |-> due,
   rectifies |-> rectifies]

(* Mutants: the reference dangles; every receipt of the invoice loses it.  *)
UnlinkNothing(i, k) == item
UnlinkAll(i, k) ==
  [r \in Remittances |-> [item[r] EXCEPT ![i].payment = 0]]

(* onDelete: SetNull of the receipts that point to a deleted payment.      *)
Unlink(i, k) ==
  [r \in Remittances |->
     [item[r] EXCEPT ![i].payment = IF @ = k THEN 0 ELSE @]]

Init == /\ now = 0
        /\ invoice = [i \in Invoices |-> Unissued]
        /\ payments = [i \in Invoices |-> <<>>]
        /\ checkout = [f \in References |-> {}]
        /\ remittance = [r \in Remittances |-> "NONE"]
        /\ item = [r \in Remittances |-> [i \in Invoices |-> NoItem]]
        /\ request = [s \in Slots |-> NoRequest]

-----------------------------------------------------------------------------
(* Reading steps: the checks that are made before the transaction.         *)

Read(s, snapshot) ==
  /\ request[s] = NoRequest
  /\ request' = [request EXCEPT ![s] = snapshot]
  /\ UNCHANGED <<now, invoice, payments, checkout, remittance, item>>

ReadAddPayment(s) ==
  \E i \in Invoices, amount \in Incoming :
    /\ invoice[i].status \notin {"NONE", "CANCELLED"}
    /\ invoice[i].paid + amount <= invoice[i].amount
    /\ Read(s, [op |-> "pay", inv |-> i, amount |-> amount,
                method |-> "MANUAL", source |-> {}, looked |-> TRUE,
                paid |-> invoice[i].paid, due |-> invoice[i].due])

(* recordCardPayment, for each delivery of a completed checkout: at most   *)
(* what is pending.  It has yet to look for an earlier record.             *)
ReadWebhook(s) ==
  \E f \in References : \E paid \in checkout[f] :
    LET i == paid.inv IN
    /\ invoice[i].status # "CANCELLED"
    /\ Pending(i) > 0
    /\ Read(s, [op |-> "pay", inv |-> i,
                amount |-> IF paid.amount > Pending(i) THEN Pending(i)
                                                       ELSE paid.amount,
                method |-> "CARD", source |-> {f}, looked |-> FALSE,
                paid |-> invoice[i].paid, due |-> invoice[i].due])

(* There is no check of the invoice's status.                              *)
ReadRemovePayment(s) ==
  \E i \in Invoices : \E k \in 1..Len(payments[i]) :
    /\ Live(i, k)
    /\ Read(s, [op |-> "remove", inv |-> i, payment |-> k,
                paid |-> invoice[i].paid - payments[i][k].amount,
                due |-> invoice[i].due])

(* A due date of NoDay: the request does not change it.                    *)
ReadUpdate(s) ==
  \E i \in Invoices, cancel \in BOOLEAN, due \in DueDates \cup {NoDay} :
    /\ invoice[i].status \notin {"NONE", "CANCELLED"}
    /\ Read(s, [op |-> "update", inv |-> i, cancel |-> cancel, due |-> due])

ReadRectify(s) ==
  \E i \in Invoices, amount \in RectifiedTo :
    /\ invoice[i].status \notin {"NONE", "CANCELLED"}
    /\ invoice[i].rectifies = {}
    /\ Read(s, [op |-> "rectify", inv |-> i, amount |-> amount,
                looked |-> FALSE])

AlreadyRecorded(i, f) ==
  \E k \in 1..Len(payments[i]) : f \in payments[i][k].source

AlreadyRectified(i) == \E j \in Invoices : i \in invoice[j].rectifies

(* A webhook looks for the payment, and a rectification for another one of *)
(* its invoice, in a second query; whoever finds it gives up: see Fail.    *)
LookUp(s) ==
  LET q == request[s] IN
  /\ q.op \in {"pay", "rectify"} /\ ~ q.looked
  /\ q.op = "pay" => \A f \in q.source : ~ AlreadyRecorded(q.inv, f)
  /\ q.op = "rectify" => ~ AlreadyRectified(q.inv)
  /\ request' = [request EXCEPT ![s].looked = TRUE]
  /\ UNCHANGED <<now, invoice, payments, checkout, remittance, item>>

InFlight(i) == \E r \in Remittances : item[r][i].status = "SENT"

(* collectSepaItems.  Which of the collectable invoices go in depends on   *)
(* the month asked for and on each student's mandate.                      *)
Collectable == {i \in Invoices : /\ invoice[i].status \in Owing
                                 /\ Pending(i) > 0
                                 /\ ~ InFlight(i)}

ReadSepaXml(s) ==
  \E included \in SUBSET Collectable \ {{}} :
    Read(s, [op |-> "sepaXml", amounts |-> [i \in Invoices |->
               IF i \in included THEN Pending(i) ELSE 0]])

(* Mutant: collect skips paid invoices.                                    *)
SentItemsOwing(r) ==
  {i \in Invoices : item[r][i].status = "SENT" /\ Pending(i) > 0}

SentItems(r) == {i \in Invoices : item[r][i].status = "SENT"}

(* Mutants: the receipt's amount is not capped by what is pending; what    *)
(* was paid before is forgotten.                                           *)
CollectionUncapped(r, i) ==
  [sent   |-> TRUE,
   amount |-> IF invoice[i].status = "CANCELLED" THEN 0 ELSE item[r][i].amount,
   paid   |-> invoice[i].paid,
   due    |-> invoice[i].due]
CollectionFromZero(r, i) ==
  [sent |-> TRUE, amount |-> item[r][i].amount, paid |-> 0,
   due |-> invoice[i].due]

(* What collect will do with a receipt: register at most what is pending,  *)
(* and nothing on a cancelled invoice.                                     *)
Collection(r, i) ==
  [sent   |-> TRUE,
   amount |-> IF invoice[i].status = "CANCELLED" THEN 0
              ELSE IF item[r][i].amount > Pending(i) THEN Pending(i)
              ELSE item[r][i].amount,
   paid   |-> invoice[i].paid,
   due    |-> invoice[i].due]
NoCollection == [sent |-> FALSE, amount |-> 0, paid |-> 0, due |-> NoDay]

ReadCollect(s) ==
  \E r \in Remittances :
    /\ Recorded(r)
    /\ Read(s, [op |-> "collect", rem |-> r, receipts |-> [i \in Invoices |->
                  IF i \in SentItems(r) THEN Collection(r, i)
                                        ELSE NoCollection]])

(* The bank returned a receipt; fee is zero when none is passed on.        *)
ReadReturnReceipt(s) ==
  \E r \in Remittances, i \in Invoices, fee \in Fees \cup {0} :
    LET k == item[r][i].payment IN
    /\ item[r][i].status \in {"SENT", "COLLECTED"}
    /\ Read(s, [op |-> "return", rem |-> r, inv |-> i, payment |-> k,
                paid |-> invoice[i].paid
                           - (IF k = 0 THEN 0 ELSE payments[i][k].amount),
                due |-> invoice[i].due, fee |-> fee])

Voidable(r) ==
  /\ remittance[r] = "SENT"
  /\ \A i \in Invoices : item[r][i].status \in {"NONE", "SENT"}

ReadVoid(s) ==
  \E r \in Remittances :
    /\ Voidable(r)
    /\ Read(s, [op |-> "void", rem |-> r])

-----------------------------------------------------------------------------
(* Committing steps: the transaction of each request.                      *)

Finish(s) == request' = [request EXCEPT ![s] = NoRequest]

(* addPayment and recordCardPayment.                                       *)
CommitPayment(s) ==
  LET q == request[s] IN
  /\ q.op = "pay" /\ q.looked
  /\ Len(payments[q.inv]) < MaxPayments
  /\ payments' = [payments EXCEPT ![q.inv] =
       Append(@, [amount |-> q.amount, method |-> q.method,
                  source |-> q.source])]
  /\ invoice' = [invoice EXCEPT ![q.inv] =
                   Settle(@, q.paid + q.amount, q.due)]
  /\ Finish(s)
  /\ UNCHANGED <<now, checkout, remittance, item>>

(* Deleting a payment that is gone throws (P2025): see Fail.               *)
CommitRemovePayment(s) ==
  LET q == request[s] IN
  /\ q.op = "remove"
  /\ Live(q.inv, q.payment)
  /\ payments' = [payments EXCEPT ![q.inv][q.payment] = Deleted]
  /\ item' = Unlink(q.inv, q.payment)
  /\ invoice' = [invoice EXCEPT ![q.inv] = Settle(@, q.paid, q.due)]
  /\ Finish(s)
  /\ UNCHANGED <<now, checkout, remittance>>

CommitUpdate(s) ==
  LET q == request[s] IN
  /\ q.op = "update"
  /\ invoice' = [invoice EXCEPT
       ![q.inv].due = IF q.due = NoDay THEN @ ELSE q.due,
       ![q.inv].status = IF q.cancel THEN "CANCELLED" ELSE @]
  /\ Finish(s)
  /\ UNCHANGED <<now, payments, checkout, remittance, item>>

CommitRectify(s) ==
  LET q == request[s] IN
  /\ q.op = "rectify" /\ q.looked
  /\ \E n \in Invoices :
       /\ ~ Issued(n)
       /\ invoice' = [invoice EXCEPT
            ![n] = NewInvoice(q.amount, NoDay, {q.inv}),
            ![q.inv].status = "CANCELLED"]
  /\ Finish(s)
  /\ UNCHANGED <<now, payments, checkout, remittance, item>>

(* One INSERT of the remittance with its receipts; nothing is re-read.     *)
CommitSepaXml(s) ==
  LET q == request[s] IN
  /\ q.op = "sepaXml"
  /\ \E r \in Remittances :
       /\ remittance[r] = "NONE"
       /\ remittance' = [remittance EXCEPT ![r] = "SENT"]
       /\ item' = [item EXCEPT ![r] = [i \in Invoices |->
            IF q.amounts[i] > 0
              THEN [status |-> "SENT", amount |-> q.amounts[i], payment |-> 0]
              ELSE NoItem]]
  /\ Finish(s)
  /\ UNCHANGED <<now, invoice, payments, checkout>>

(* Every receipt read becomes COLLECTED; those that still owed something   *)
(* get a payment.  A remittance voided meanwhile makes it throw.           *)
CommitCollect(s) ==
  LET q == request[s]
      paying == {i \in Invoices : q.receipts[i].amount > 0}
  IN
  /\ q.op = "collect"
  /\ Recorded(q.rem)
  /\ \A i \in paying : Len(payments[i]) < MaxPayments
  /\ payments' = [i \in Invoices |->
       IF i \in paying
         THEN Append(payments[i], [amount |-> q.receipts[i].amount,
                                   method |-> "DIRECT_DEBIT",
                                   source |-> {q.rem}])
         ELSE payments[i]]
  /\ invoice' = [i \in Invoices |->
       IF i \in paying
         THEN Settle(invoice[i], q.receipts[i].paid + q.receipts[i].amount,
                     q.receipts[i].due)
         ELSE invoice[i]]
  /\ item' = [item EXCEPT ![q.rem] = [i \in Invoices |->
       IF q.receipts[i].sent
         THEN [@[i] EXCEPT !.status = "COLLECTED",
                           !.payment = IF i \in paying
                                         THEN Len(payments[i]) + 1 ELSE 0]
         ELSE @[i]]]
  /\ remittance' = [remittance EXCEPT ![q.rem] = "COLLECTED"]
  /\ Finish(s)
  /\ UNCHANGED <<now, checkout>>

CommitReturnReceipt(s) ==
  LET q == request[s]
      settled == [invoice EXCEPT ![q.inv] = Settle(@, q.paid, q.due)]
      removed == q.payment # 0
  IN
  /\ q.op = "return"
  /\ Recorded(q.rem)
  /\ removed => Live(q.inv, q.payment)
  /\ payments' = IF removed
                   THEN [payments EXCEPT ![q.inv][q.payment] = Deleted]
                   ELSE payments
  /\ item' = [Unlink(q.inv, q.payment) EXCEPT
                ![q.rem][q.inv].status = "RETURNED",
                ![q.rem][q.inv].payment = 0]
  /\ IF q.fee = 0
       THEN invoice' = settled
       ELSE \E n \in Invoices :
              /\ ~ Issued(n)
              /\ invoice' = [settled EXCEPT ![n] =
                   NewInvoice(q.fee, now + FEE_DUE_DAYS, {})]
  /\ Finish(s)
  /\ UNCHANGED <<now, checkout, remittance>>

(* Deletes the remittance; its receipts go with it (onDelete: Cascade).    *)
CommitVoid(s) ==
  LET q == request[s] IN
  /\ q.op = "void"
  /\ Recorded(q.rem)
  /\ remittance' = [remittance EXCEPT ![q.rem] = "VOIDED"]
  /\ item' = [item EXCEPT ![q.rem] = [i \in Invoices |-> NoItem]]
  /\ Finish(s)
  /\ UNCHANGED <<now, invoice, payments, checkout>>

(* What was looked for is there, the transaction throws (a row it updates  *)
(* or deletes is gone) or the process dies before it commits: nothing is   *)
(* written.                                                                *)
Fail(s) ==
  /\ request[s] # NoRequest
  /\ Finish(s)
  /\ UNCHANGED <<now, invoice, payments, checkout, remittance, item>>

-----------------------------------------------------------------------------
(* Steps with no earlier reading.                                          *)

(* create, monthly billing, group charges and enrollment fees.             *)
Issue ==
  /\ \E i \in Invoices, amount \in Amounts, due \in DueDates \cup {NoDay} :
       /\ ~ Issued(i)
       /\ invoice' = [invoice EXCEPT ![i] = NewInvoice(amount, due, {})]
  /\ UNCHANGED <<now, payments, checkout, remittance, item, request>>

(* createInvoiceCheckout: Stripe opens a session for what is pending now.  *)
(* The customer may pay it at any later time, or never.                    *)
CreateCheckout ==
  /\ \E f \in References, i \in Invoices :
       /\ checkout[f] = {}
       /\ invoice[i].status \notin {"NONE", "CANCELLED", "PAID"}
       /\ Pending(i) > 0
       /\ checkout' = [checkout EXCEPT ![f] =
                         {[inv |-> i, amount |-> Pending(i)]}]
  /\ UNCHANGED <<now, invoice, payments, remittance, item, request>>

(* Mutants: the cron takes paid invoices, or forgets the part-paid ones.   *)
OverdueAny(row) == row.status \notin {"NONE", "CANCELLED"} /\ Past(row.due)
OverduePendingOnly(row) == row.status = "PENDING" /\ Past(row.due)

(* The daily cron, one UPDATE of every row that matches.                   *)
Overdue(row) == row.status \in {"PENDING", "PARTIAL"} /\ Past(row.due)

MarkOverdue ==
  /\ \E i \in Invoices : Overdue(invoice[i])
  /\ invoice' = [i \in Invoices |->
       IF Overdue(invoice[i]) THEN [invoice[i] EXCEPT !.status = "OVERDUE"]
                              ELSE invoice[i]]
  /\ UNCHANGED <<now, payments, checkout, remittance, item, request>>

Tick ==
  /\ now < LastDay
  /\ now' = now + 1
  /\ UNCHANGED <<invoice, payments, checkout, remittance, item, request>>

Next ==
  \/ \E s \in Slots :
       \/ ReadAddPayment(s) \/ ReadWebhook(s) \/ ReadRemovePayment(s)
       \/ ReadUpdate(s) \/ ReadRectify(s) \/ ReadSepaXml(s) \/ ReadCollect(s)
       \/ ReadReturnReceipt(s) \/ ReadVoid(s) \/ LookUp(s)
       \/ CommitPayment(s) \/ CommitRemovePayment(s) \/ CommitUpdate(s)
       \/ CommitRectify(s) \/ CommitSepaXml(s) \/ CommitCollect(s)
       \/ CommitReturnReceipt(s) \/ CommitVoid(s) \/ Fail(s)
  \/ Issue \/ CreateCheckout \/ MarkOverdue \/ Tick

(* The cron runs every day.                                                *)
Spec == Init /\ [][Next]_vars /\ WF_vars(MarkOverdue)

-----------------------------------------------------------------------------
Statuses == {"NONE", "PENDING", "PARTIAL", "PAID", "OVERDUE", "CANCELLED"}
Days == Nat \cup {NoDay}

InvoiceRows == [status : Statuses, amount : Nat, paid : Int, due : Days,
                rectifies : SUBSET Invoices]
PaymentRows == [amount : Nat, method : {"MANUAL", "CARD", "DIRECT_DEBIT",
                                        "DELETED"},
                source : SUBSET (References \cup Remittances)]
ItemRows == [status : {"NONE", "SENT", "COLLECTED", "RETURNED"},
             amount : Nat, payment : Nat]

PayRequests == [op : {"pay"}, inv : Invoices, amount : Nat,
                method : {"MANUAL", "CARD"}, source : SUBSET References,
                looked : BOOLEAN,
                paid : Int, due : Days]
RemoveRequests == [op : {"remove"}, inv : Invoices, payment : Nat \ {0},
                   paid : Int, due : Days]
UpdateRequests == [op : {"update"}, inv : Invoices, cancel : BOOLEAN,
                   due : Days]
RectifyRequests == [op : {"rectify"}, inv : Invoices, amount : Nat,
                    looked : BOOLEAN]
SepaXmlRequests == [op : {"sepaXml"},
                    amounts : [Invoices -> Nat]]
CollectRequests ==
  [op : {"collect"}, rem : Remittances,
   receipts : [Invoices -> [sent : BOOLEAN, amount : Int, paid : Int,
                            due : Days]]]
ReturnRequests == [op : {"return"}, rem : Remittances, inv : Invoices,
                   payment : Nat, paid : Int, due : Days, fee : Nat]
VoidRequests == [op : {"void"}, rem : Remittances]

RequestRecords ==
  {NoRequest} \cup PayRequests \cup RemoveRequests \cup UpdateRequests
    \cup RectifyRequests \cup SepaXmlRequests \cup CollectRequests
    \cup ReturnRequests \cup VoidRequests

TypeOK ==
  /\ now \in Nat
  /\ invoice \in [Invoices -> InvoiceRows]
  /\ payments \in [Invoices -> Seq(PaymentRows)]
  /\ checkout \in [References -> SUBSET [inv : Invoices, amount : Nat]]
  /\ remittance \in [Remittances -> {"NONE", "SENT", "COLLECTED", "VOIDED"}]
  /\ item \in [Remittances -> [Invoices -> ItemRows]]
  /\ request \in [Slots -> RequestRecords]

(* However requests overlap, paidAmount never exceeds the invoice: each    *)
(* writes a total it checked against an amount that cannot change.         *)
PaidWithinAmount == \A i \in Invoices : invoice[i].paid <= invoice[i].amount

(* However requests and the overdue cron overlap, a status never           *)
(* contradicts paidAmount: the two are written together, and the cron      *)
(* touches no invoice that is paid or cancelled.                           *)
StatusMatchesPaid ==
  \A i \in Invoices :
    /\ invoice[i].status = "PAID" => invoice[i].paid = invoice[i].amount
    /\ invoice[i].status = "PARTIAL" => /\ invoice[i].paid > 0
                                        /\ invoice[i].paid < invoice[i].amount
    /\ invoice[i].status = "PENDING" => invoice[i].paid <= 0
    /\ invoice[i].status = "OVERDUE" /\ invoice[i].amount > 0
         => invoice[i].paid < invoice[i].amount

(* A receipt that points to a payment is COLLECTED, and that payment is a  *)
(* live direct debit of its own remittance on its own invoice.             *)
ReceiptHasItsPayment ==
  \A r \in Remittances, i \in Invoices :
    LET k == item[r][i].payment IN
    k # 0 => /\ item[r][i].status = "COLLECTED"
             /\ Live(i, k)
             /\ payments[i][k].method = "DIRECT_DEBIT"
             /\ payments[i][k].source = {r}

(* No receipt of a collected remittance is left SENT, which would keep its *)
(* invoice out of every later remittance for ever.                         *)
CollectedLeavesNoneSent ==
  \A r \in Remittances :
    remittance[r] = "COLLECTED"
      => \A i \in Invoices : item[r][i].status # "SENT"
=============================================================================
