---------------------------- MODULE LedgerProofs ----------------------------
(***************************************************************************)
(* What holds of Ledger for every number of requests in progress, every    *)
(* set of invoices, remittances and checkouts and every amount.            *)
(*                                                                         *)
(* A request writes totals it computed from a snapshot, so the safety      *)
(* invariants are not inductive as they stand: Snapshot says what is still *)
(* true of a snapshot when it is written, however old it is.  That rests   *)
(* on two facts about every step: the amount of an issued invoice never    *)
(* changes (Frozen), and a receipt never becomes SENT again (Onward).      *)
(*                                                                         *)
(* The last part is about requests that do not overlap: what an auditor    *)
(* asks (LedgerAudit) holds of them because a snapshot is still what the   *)
(* rows say when it is written: the receipts (Fresh), and the total paid,  *)
(* so that paidAmount is the sum of the payments (PaidIsFresh).            *)
(***************************************************************************)
EXTENDS LedgerAudit, TLAPS, WellFoundedInduction

(* A row in which status and paidAmount agree.                             *)
RowAgrees(row) ==
  /\ row.paid <= row.amount
  /\ row.status = "PAID" => row.paid = row.amount
  /\ row.status = "PARTIAL" => row.paid > 0 /\ row.paid < row.amount
  /\ row.status = "PENDING" => row.paid <= 0
  /\ row.status = "OVERDUE" /\ row.amount > 0 => row.paid < row.amount

RowsAgree == \A i \in Invoices : RowAgrees(invoice[i])

(* Payments, checkouts and receipts belong to issued invoices.             *)
BelongToIssued ==
  /\ \A i \in Invoices : payments[i] # <<>> => Issued(i)
  /\ \A f \in References : \A paid \in checkout[f] : Issued(paid.inv)
  /\ \A r \in Remittances, i \in Invoices :
       item[r][i].status # "NONE" => Issued(i)

(* What outlives the reading step: an invoice that was read is issued, and *)
(* what will be written to it does not exceed its amount; a collect lists  *)
(* every receipt of its remittance that is still SENT.                     *)
Snapshot(q) ==
  /\ q.op \in {"pay", "remove", "update", "rectify", "return"} => Issued(q.inv)
  /\ q.op = "pay" => q.paid + q.amount <= invoice[q.inv].amount
  /\ q.op \in {"remove", "return"} => q.paid <= invoice[q.inv].amount
  /\ q.op = "sepaXml" => \A i \in Invoices : q.amounts[i] > 0 => Issued(i)
  /\ q.op = "collect" =>
       /\ remittance[q.rem] # "NONE"
       /\ \A i \in Invoices :
            /\ q.receipts[i].sent => Issued(i)
            /\ q.receipts[i].amount > 0
                 => /\ Issued(i)
                    /\ q.receipts[i].paid + q.receipts[i].amount
                         <= invoice[i].amount
            /\ Recorded(q.rem) /\ item[q.rem][i].status = "SENT"
                 => q.receipts[i].sent

SnapshotsHold == \A s \in Slots : Snapshot(request[s])

LedgerInvariant ==
  /\ TypeOK
  /\ RowsAgree
  /\ BelongToIssued
  /\ SnapshotsHold
  /\ ReceiptHasItsPayment
  /\ CollectedLeavesNoneSent

Frozen == \A i \in Invoices : Issued(i) =>
            Issued(i)' /\ invoice'[i].amount = invoice[i].amount

Onward == \A r \in Remittances :
            /\ remittance[r] # "NONE" => remittance'[r] # "NONE"
            /\ remittance[r] # "NONE" /\ Recorded(r)' =>
                 /\ Recorded(r)
                 /\ \A i \in Invoices : item'[r][i].status = "SENT"
                                          => item[r][i].status = "SENT"

-----------------------------------------------------------------------------
(* Rows.                                                                   *)

(* Settle writes a row whose status and paidAmount agree, whatever row it  *)
(* finds, as long as the total is within the amount.                       *)
LEMMA SettledRow ==
  ASSUME NEW row \in InvoiceRows, NEW paid \in Int, NEW due \in Days,
         paid <= row.amount, row.status # "NONE"
  PROVE  /\ Settle(row, paid, due) \in InvoiceRows
         /\ RowAgrees(Settle(row, paid, due))
         /\ Settle(row, paid, due).status # "NONE"
         /\ Settle(row, paid, due).amount = row.amount
<1> DEFINE new == Settle(row, paid, due)
<1>1. computeStatus(row.amount, paid, due) \in {"PENDING", "PARTIAL", "PAID",
                                                "OVERDUE"}
  BY DEF computeStatus
<1>2. new \in InvoiceRows
  BY <1>1 DEF Settle, InvoiceRows, Statuses
<1>3. /\ new.paid = paid /\ new.amount = row.amount
      /\ new.status = computeStatus(row.amount, paid, due)
  BY DEF Settle, InvoiceRows
<1>4. RowAgrees(new)
  <2> HIDE DEF new
  <2>1. row.amount \in Nat
    BY DEF InvoiceRows
  <2> QED  BY <1>3, <2>1 DEF RowAgrees, computeStatus
<1> QED  BY <1>1, <1>2, <1>3, <1>4

(* A new invoice owes its whole amount.                                    *)
LEMMA NewRow ==
  ASSUME NEW amount \in Nat, NEW due \in Days, NEW rectifies \in SUBSET Invoices
  PROVE  /\ NewInvoice(amount, due, rectifies) \in InvoiceRows
         /\ RowAgrees(NewInvoice(amount, due, rectifies))
         /\ NewInvoice(amount, due, rectifies).status # "NONE"
BY DEF NewInvoice, InvoiceRows, RowAgrees, Statuses

(* A slot that is not idle holds a request of the kind its op says.        *)
LEMMA RequestOfItsKind ==
  ASSUME NEW q \in RequestRecords
  PROVE  /\ q.op = "pay" => q \in PayRequests
         /\ q.op = "remove" => q \in RemoveRequests
         /\ q.op = "update" => q \in UpdateRequests
         /\ q.op = "rectify" => q \in RectifyRequests
         /\ q.op = "sepaXml" => q \in SepaXmlRequests
         /\ q.op = "collect" => q \in CollectRequests
         /\ q.op = "return" => q \in ReturnRequests
         /\ q.op = "void" => q \in VoidRequests
BY DEF RequestRecords, NoRequest, PayRequests, RemoveRequests, UpdateRequests,
       RectifyRequests, SepaXmlRequests, CollectRequests, ReturnRequests,
       VoidRequests

-----------------------------------------------------------------------------
(* What payments add up to.                                                *)

(* f sums the first n payments, one after the other.                       *)
Sums(f, n, paid) ==
  f = [k \in 0..n |-> IF k = 0 THEN 0 ELSE f[k - 1] + paid[k].amount]

(* Some numbers have a least one.                                          *)
LEMMA Least ==
  ASSUME NEW S \in SUBSET Nat, S # {}
  PROVE  \E h \in S : \A i \in S : h <= i
<1> DEFINE R == {ss \in Nat \X Nat : ss[1] < ss[2]}
<1>1. IsWellFoundedOn(R, Nat)
  BY NatLessThanWellFounded DEF OpToRel
<1>2. PICK h \in S : \A i \in S : <<i, h>> \notin R
  <2> HIDE DEF R
  <2> QED  BY <1>1, WFMin
<1>3. \A i \in S : ~(i < h)
  BY <1>2
<1> QED  BY <1>3

(* Payments can be summed,                                                 *)
LEMMA SumsExist ==
  ASSUME NEW paid \in Seq(PaymentRows), NEW n \in 0..Len(paid)
  PROVE  \E f \in [0..n -> Int] : Sums(f, n, paid)
<1> DEFINE Unsummed == {m \in 0..Len(paid) : ~ \E f \in [0..m -> Int] : Sums(f, m, paid)}
<1> SUFFICES ASSUME Unsummed # {} PROVE FALSE
  OBVIOUS
<1>1. Len(paid) \in Nat /\ \A k \in 1..Len(paid) : paid[k].amount \in Nat
  <2>1. Len(paid) \in Nat /\ \A k \in 1..Len(paid) : paid[k] \in PaymentRows
    OBVIOUS
  <2> QED  BY <2>1 DEF PaymentRows
<1>2. PICK h \in Unsummed : \A m \in Unsummed : h <= m
  <2>1. Unsummed \in SUBSET Nat
    BY <1>1
  <2> HIDE DEF Unsummed
  <2> QED  BY <2>1, Least
<1>3. h \in 0..Len(paid) /\ h \in Nat
  BY <1>1
<1>4. CASE h = 0
  <2>1. PICK f : f = [k \in 0..0 |-> 0]
    OBVIOUS
  <2>2. f \in [0..0 -> Int] /\ f = [k \in 0..0 |-> IF k = 0 THEN 0 ELSE f[k - 1] + paid[k].amount]
    BY <2>1
  <2> QED  BY <1>2, <1>4, <2>2 DEF Sums
<1>5. CASE h # 0
  <2>1. h - 1 \in 0..Len(paid) /\ h - 1 \notin Unsummed
    BY <1>1, <1>2, <1>3, <1>5
  <2>2. PICK f \in [0..h - 1 -> Int] : Sums(f, h - 1, paid)
    BY <2>1
  <2>3. PICK g : g = [k \in 0..h |-> IF k = h THEN f[h - 1] + paid[h].amount ELSE f[k]]
    OBVIOUS
  <2>4. g \in [0..h -> Int]
    BY <1>1, <1>3, <1>5, <2>3
  <2>5. \A k \in 0..h : g[k] = IF k = 0 THEN 0 ELSE g[k - 1] + paid[k].amount
    <3> SUFFICES ASSUME NEW k \in 0..h
                 PROVE  g[k] = IF k = 0 THEN 0 ELSE g[k - 1] + paid[k].amount
      OBVIOUS
    <3>1. CASE k = h
      BY <1>3, <1>5, <2>3, <3>1
    <3>2. CASE k # h
      <4>1. k \in 0..h - 1 /\ (k # 0 => k - 1 \in 0..h - 1 /\ k - 1 # h /\ k - 1 \in 0..h)
        BY <1>3, <3>2
      <4>2. f[k] = IF k = 0 THEN 0 ELSE f[k - 1] + paid[k].amount
        BY <2>2, <4>1 DEF Sums
      <4> QED  BY <2>3, <3>2, <4>1, <4>2
    <3> QED  BY <3>1, <3>2
  <2>6. Sums(g, h, paid)
    BY <2>4, <2>5 DEF Sums
  <2> QED  BY <1>2, <2>4, <2>6
<1> QED  BY <1>4, <1>5

(* in one way only.                                                        *)
LEMMA SumsAgree ==
  ASSUME NEW n \in Nat, NEW paid, NEW f, NEW g, Sums(f, n, paid), Sums(g, n, paid)
  PROVE  f = g
<1> DEFINE Apart == {k \in 0..n : f[k] # g[k]}
<1>1. \A k \in 0..n : /\ f[k] = IF k = 0 THEN 0 ELSE f[k - 1] + paid[k].amount
                      /\ g[k] = IF k = 0 THEN 0 ELSE g[k - 1] + paid[k].amount
  BY DEF Sums
<1>2. Apart = {}
  <2> SUFFICES ASSUME Apart # {} PROVE FALSE
    OBVIOUS
  <2>1. PICK h \in Apart : \A m \in Apart : h <= m
    <3>1. Apart \in SUBSET Nat
      OBVIOUS
    <3> HIDE DEF Apart
    <3> QED  BY <3>1, Least
  <2>2. h # 0
    BY <1>1
  <2>3. h - 1 \in 0..n /\ h - 1 \notin Apart
    BY <2>1, <2>2
  <2>4. f[h - 1] = g[h - 1]
    BY <2>3
  <2> QED  BY <1>1, <2>2, <2>4
<1>3. f = [k \in 0..n |-> f[k]] /\ g = [k \in 0..n |-> g[k]]
  BY DEF Sums
<1> QED  BY <1>2, <1>3

(* RunningTotal is that sum.                                               *)
LEMMA Totals ==
  ASSUME NEW paid \in Seq(PaymentRows)
  PROVE  /\ RunningTotal(paid) \in [0..Len(paid) -> Int]
         /\ Sums(RunningTotal(paid), Len(paid), paid)
<1>1. RunningTotal(paid) = CHOOSE f : Sums(f, Len(paid), paid)
  BY DEF RunningTotal, Sums
<1>2. Len(paid) \in Nat /\ Len(paid) \in 0..Len(paid)
  OBVIOUS
<1>3. PICK f \in [0..Len(paid) -> Int] : Sums(f, Len(paid), paid)
  BY <1>2, SumsExist
<1>4. Sums(RunningTotal(paid), Len(paid), paid)
  BY <1>1, <1>3
<1>5. RunningTotal(paid) = f
  BY <1>2, <1>3, <1>4, SumsAgree
<1> QED  BY <1>3, <1>4, <1>5

(* Where nothing is registered nothing is paid.                            *)
LEMMA TotalOfNone == RunningTotal(<<>>)[Len(<<>>)] = 0
<1>1. <<>> \in Seq(PaymentRows) /\ Len(<<>>) = 0
  OBVIOUS
<1>2. Sums(RunningTotal(<<>>), 0, <<>>)
  BY <1>1, Totals
<1> QED  BY <1>1, <1>2 DEF Sums

(* One more payment adds its amount.                                       *)
LEMMA TotalOfOneMore ==
  ASSUME NEW paid \in Seq(PaymentRows), NEW p \in PaymentRows
  PROVE  RunningTotal(Append(paid, p))[Len(Append(paid, p))]
           = RunningTotal(paid)[Len(paid)] + p.amount
<1> PICK n \in Nat : n = Len(paid)
  OBVIOUS
<1> PICK more : more = Append(paid, p)
  OBVIOUS
<1> more \in Seq(PaymentRows)
  OBVIOUS
<1> PICK f, g : f = RunningTotal(paid) /\ g = RunningTotal(more)
  OBVIOUS
<1>1. /\ Len(more) = n + 1 /\ more[n + 1] = p
      /\ \A k \in 1..n : more[k] = paid[k]
  OBVIOUS
<1>2. /\ f \in [0..n -> Int] /\ Sums(f, n, paid)
      /\ g \in [0..n + 1 -> Int] /\ Sums(g, n + 1, more)
  BY <1>1, Totals
<1>3. Sums([k \in 0..n |-> g[k]], n, paid)
  <2> PICK h : h = [k \in 0..n |-> g[k]]
    OBVIOUS
  <2>1. \A k \in 0..n : h[k] = IF k = 0 THEN 0 ELSE h[k - 1] + paid[k].amount
    <3> SUFFICES ASSUME NEW k \in 0..n
                 PROVE  h[k] = IF k = 0 THEN 0 ELSE h[k - 1] + paid[k].amount
      OBVIOUS
    <3>1. k \in 0..n + 1 /\ (k # 0 => k - 1 \in 0..n /\ k \in 1..n)
      OBVIOUS
    <3>2. g[k] = IF k = 0 THEN 0 ELSE g[k - 1] + more[k].amount
      BY <1>2, <3>1 DEF Sums
    <3> QED  BY <1>1, <3>1, <3>2
  <2> QED  BY <2>1 DEF Sums
<1>4. f = [k \in 0..n |-> g[k]]
  BY <1>2, <1>3, SumsAgree
<1>5. g[n + 1] = g[n] + p.amount
  BY <1>1, <1>2 DEF Sums
<1> QED  BY <1>1, <1>4, <1>5

(* Deleting a payment takes its amount away.                               *)
LEMMA TotalWithoutOne ==
  ASSUME NEW paid \in Seq(PaymentRows), NEW d \in 1..Len(paid)
  PROVE  /\ Len([paid EXCEPT ![d] = Deleted]) = Len(paid)
         /\ RunningTotal([paid EXCEPT ![d] = Deleted])[Len(paid)]
              = RunningTotal(paid)[Len(paid)] - paid[d].amount
<1>1. Deleted \in PaymentRows /\ Deleted.amount = 0
  BY DEF Deleted, PaymentRows
<1> PICK n \in Nat : n = Len(paid)
  OBVIOUS
<1> PICK less : less = [paid EXCEPT ![d] = Deleted]
  OBVIOUS
<1> less \in Seq(PaymentRows)
  BY <1>1
<1> PICK f, g : f = RunningTotal(paid) /\ g = RunningTotal(less)
  OBVIOUS
<1>2. /\ Len(less) = n /\ less[d] = Deleted
      /\ \A k \in 1..n : k # d => less[k] = paid[k]
  OBVIOUS
<1>3. \A k \in 1..n : paid[k].amount \in Nat
  <2>1. \A k \in 1..n : paid[k] \in PaymentRows
    OBVIOUS
  <2> QED  BY <2>1 DEF PaymentRows
<1>4. /\ f \in [0..n -> Int] /\ Sums(f, n, paid)
      /\ g \in [0..n -> Int] /\ Sums(g, n, less)
  BY <1>2, Totals
<1>5. Sums([k \in 0..n |-> IF k >= d THEN f[k] - paid[d].amount ELSE f[k]], n, less)
  <2> PICK h : h = [k \in 0..n |-> IF k >= d THEN f[k] - paid[d].amount ELSE f[k]]
    OBVIOUS
  <2>1. \A k \in 0..n : h[k] = IF k = 0 THEN 0 ELSE h[k - 1] + less[k].amount
    <3> SUFFICES ASSUME NEW k \in 0..n
                 PROVE  h[k] = IF k = 0 THEN 0 ELSE h[k - 1] + less[k].amount
      OBVIOUS
    <3>1. k # 0 => k \in 1..n /\ k - 1 \in 0..n
      OBVIOUS
    <3>2. f[k] = IF k = 0 THEN 0 ELSE f[k - 1] + paid[k].amount
      BY <1>4 DEF Sums
    <3>3. f[k] \in Int /\ (k # 0 => f[k - 1] \in Int /\ paid[k].amount \in Nat)
      BY <1>3, <1>4, <3>1
    <3>4. /\ h[k] = IF k >= d THEN f[k] - paid[d].amount ELSE f[k]
          /\ k # 0 => h[k - 1] = IF k - 1 >= d THEN f[k - 1] - paid[d].amount ELSE f[k - 1]
      BY <3>1
    <3>5. paid[d].amount \in Nat
      BY <1>3
    <3>6. CASE k = 0
      BY <3>2, <3>4, <3>6
    <3>7. CASE k # 0 /\ k = d
      BY <1>1, <1>2, <3>2, <3>3, <3>4, <3>5, <3>7
    <3>8. CASE k # 0 /\ k # d
      <4>1. less[k] = paid[k]
        BY <1>2, <3>1, <3>8
      <4> QED  BY <4>1, <3>2, <3>3, <3>4, <3>5, <3>8
    <3> QED  BY <3>6, <3>7, <3>8
  <2> QED  BY <2>1 DEF Sums
<1>6. g = [k \in 0..n |-> IF k >= d THEN f[k] - paid[d].amount ELSE f[k]]
  BY <1>4, <1>5, SumsAgree
<1>7. n \in 0..n /\ n >= d
  OBVIOUS
<1> QED  BY <1>2, <1>6, <1>7

-----------------------------------------------------------------------------
(* Snapshots outlive the steps of other requests.                          *)

(* A step that freezes amounts and sends no receipt again leaves a         *)
(* snapshot as good as it was.                                             *)
LEMMA SnapshotOutlives ==
  ASSUME NEW q \in RequestRecords, Snapshot(q), Frozen, Onward
  PROVE  Snapshot(q)'
<1>1. ASSUME q.op \in {"pay", "remove", "update", "rectify", "return"}
      PROVE  /\ Issued(q.inv)'
             /\ invoice'[q.inv].amount = invoice[q.inv].amount
  <2>1. q.inv \in Invoices
    BY <1>1, RequestOfItsKind DEF PayRequests, RemoveRequests,
       UpdateRequests, RectifyRequests, ReturnRequests
  <2>2. Issued(q.inv)
    BY <1>1 DEF Snapshot
  <2> QED  BY <2>1, <2>2 DEF Frozen
<1>2. q.op = "sepaXml" => \A i \in Invoices : q.amounts[i] > 0 => Issued(i)'
  BY DEF Snapshot, Frozen
<1>3. ASSUME q.op = "collect"
      PROVE  /\ remittance'[q.rem] # "NONE"
             /\ \A i \in Invoices :
                  /\ q.receipts[i].sent => Issued(i)'
                  /\ q.receipts[i].amount > 0
                       => /\ Issued(i)'
                          /\ q.receipts[i].paid + q.receipts[i].amount
                               <= invoice'[i].amount
                  /\ Recorded(q.rem)' /\ item'[q.rem][i].status = "SENT"
                       => q.receipts[i].sent
  <2>1. q.rem \in Remittances /\ remittance[q.rem] # "NONE"
    BY <1>3, RequestOfItsKind DEF CollectRequests, Snapshot
  <2>2. \A i \in Invoices : Recorded(q.rem) /\ item[q.rem][i].status = "SENT"
                               => q.receipts[i].sent
    BY <1>3 DEF Snapshot
  <2>3. \A i \in Invoices : q.receipts[i].amount > 0
          => Issued(i) /\ q.receipts[i].paid + q.receipts[i].amount
                            <= invoice[i].amount
    BY <1>3 DEF Snapshot
  <2>4. remittance'[q.rem] # "NONE"
    BY <2>1 DEF Onward
  <2>5. \A i \in Invoices : Recorded(q.rem)' /\ item'[q.rem][i].status = "SENT"
                               => q.receipts[i].sent
    BY <2>1, <2>2 DEF Onward
  <2>6. \A i \in Invoices : q.receipts[i].amount > 0
          => Issued(i)' /\ q.receipts[i].paid + q.receipts[i].amount
                             <= invoice'[i].amount
    BY <2>3 DEF Frozen
  <2>7. \A i \in Invoices : q.receipts[i].sent => Issued(i)'
    BY <1>3 DEF Snapshot, Frozen
  <2> QED  BY <2>4, <2>5, <2>6, <2>7
<1>4. q.op = "pay" => q.paid + q.amount <= invoice'[q.inv].amount
  BY <1>1 DEF Snapshot
<1>5. q.op \in {"remove", "return"} => q.paid <= invoice'[q.inv].amount
  BY <1>1 DEF Snapshot
<1> QED  BY <1>1, <1>2, <1>3, <1>4, <1>5 DEF Snapshot

(* So a step that fills no slot leaves every snapshot as good as it was.   *)
LEMMA SnapshotsKept ==
  ASSUME TypeOK, SnapshotsHold, Frozen, Onward,
         \A s \in Slots : request'[s] = request[s] \/ request'[s] = NoRequest
  PROVE  SnapshotsHold'
<1> SUFFICES ASSUME NEW s \in Slots  PROVE Snapshot(request[s])'
  BY DEF SnapshotsHold
<1>1. CASE request'[s] = NoRequest
  BY <1>1 DEF Snapshot, NoRequest
<1>2. CASE request'[s] = request[s]
  <2> PICK q \in RequestRecords : q = request[s]
    BY DEF TypeOK
  <2>1. Snapshot(q)
    BY DEF SnapshotsHold
  <2>2. Snapshot(q)'
    BY <2>1, SnapshotOutlives
  <2>3. request'[s] = q
    BY <1>2
  <2> QED  BY <2>2, <2>3
<1> QED  BY <1>1, <1>2

(* The same for a reading step, which fills its slot with a good snapshot. *)
LEMMA ReadStep ==
  ASSUME LedgerInvariant, NEW s \in Slots, NEW q \in RequestRecords,
         Snapshot(q), Read(s, q)
  PROVE  LedgerInvariant'
<1> USE DEF LedgerInvariant, Read
<1>1. TypeOK'
  BY DEF TypeOK
<1>2. RowsAgree' /\ BelongToIssued'
  BY DEF RowsAgree, RowAgrees, BelongToIssued, Issued
<1>3. SnapshotsHold'
  <2> SUFFICES ASSUME NEW u \in Slots  PROVE Snapshot(request[u])'
    BY DEF SnapshotsHold
  <2>1. Snapshot(request'[u])
    BY DEF SnapshotsHold, TypeOK
  <2> QED  BY <2>1 DEF Snapshot, Issued, Recorded
<1>4. ReceiptHasItsPayment'
  BY DEF ReceiptHasItsPayment, Live
<1>5. CollectedLeavesNoneSent'
  BY DEF CollectedLeavesNoneSent
<1> QED  BY <1>1, <1>2, <1>3, <1>4, <1>5

-----------------------------------------------------------------------------
(* The reading steps: each fills its slot with a good snapshot.            *)

(* What is still pending of an invoice is at most its amount, and a        *)
(* receipt's payment is a payment of its invoice.                          *)
LEMMA RowFacts ==
  ASSUME LedgerInvariant, NEW i \in Invoices
  PROVE  /\ invoice[i] \in InvoiceRows
         /\ invoice[i].amount \in Nat /\ invoice[i].paid \in Int
         /\ invoice[i].due \in Days
         /\ invoice[i].paid <= invoice[i].amount
         /\ \A k \in 1..Len(payments[i]) :
              payments[i][k].amount \in Nat /\ Issued(i)
         /\ \A r \in Remittances :
              /\ item[r][i].amount \in Nat /\ item[r][i].payment \in Nat
              /\ item[r][i].payment # 0
                   => item[r][i].payment \in 1..Len(payments[i])
<1>1. invoice[i] \in InvoiceRows /\ payments[i] \in Seq(PaymentRows)
  BY DEF LedgerInvariant, TypeOK
<1>2. \A k \in 1..Len(payments[i]) : payments[i][k] \in PaymentRows
  BY <1>1
<1>3. \A r \in Remittances : item[r][i] \in ItemRows
  BY DEF LedgerInvariant, TypeOK
<1>4. \A k \in 1..Len(payments[i]) : payments[i] # <<>>
  BY <1>1
<1>5. \A k \in 1..Len(payments[i]) : Issued(i)
  BY <1>4 DEF LedgerInvariant, BelongToIssued
<1>6. invoice[i].paid <= invoice[i].amount
  BY DEF LedgerInvariant, RowsAgree, RowAgrees
<1>7. \A r \in Remittances : item[r][i].payment # 0
        => item[r][i].payment \in 1..Len(payments[i])
  BY DEF LedgerInvariant, ReceiptHasItsPayment, Live
<1> QED  BY <1>1, <1>2, <1>3, <1>5, <1>6, <1>7
         DEF InvoiceRows, PaymentRows, ItemRows

(* addPayment checked the new total against the amount.                    *)
LEMMA ReadAddPaymentStep ==
  ASSUME LedgerInvariant, NEW s \in Slots, ReadAddPayment(s)
  PROVE  LedgerInvariant'
<1> PICK i \in Invoices, amount \in Incoming :
      /\ invoice[i].status \notin {"NONE", "CANCELLED"}
      /\ invoice[i].paid + amount <= invoice[i].amount
      /\ Read(s, [op |-> "pay", inv |-> i, amount |-> amount,
                  method |-> "MANUAL", source |-> {}, looked |-> TRUE,
                  paid |-> invoice[i].paid, due |-> invoice[i].due])
  BY DEF ReadAddPayment
<1> PICK q : q = [op |-> "pay", inv |-> i, amount |-> amount,
                  method |-> "MANUAL", source |-> {}, looked |-> TRUE,
                  paid |-> invoice[i].paid, due |-> invoice[i].due]
  OBVIOUS
<1>1. q \in RequestRecords
  BY RowFacts, AmountAssumption DEF RequestRecords, PayRequests
<1>2. Snapshot(q)
  BY DEF Snapshot, Issued
<1> QED  BY <1>1, <1>2, ReadStep

(* recordCardPayment takes at most what is pending.                        *)
LEMMA ReadWebhookStep ==
  ASSUME LedgerInvariant, NEW s \in Slots, ReadWebhook(s)
  PROVE  LedgerInvariant'
<1> PICK f \in References : \E paid \in checkout[f] :
      /\ Pending(paid.inv) > 0
      /\ Read(s, [op |-> "pay", inv |-> paid.inv,
                  amount |-> IF paid.amount > Pending(paid.inv)
                             THEN Pending(paid.inv) ELSE paid.amount,
                  method |-> "CARD", source |-> {f}, looked |-> FALSE,
                  paid |-> invoice[paid.inv].paid,
                  due |-> invoice[paid.inv].due])
  BY DEF ReadWebhook
<1> PICK paid \in checkout[f] :
      /\ Pending(paid.inv) > 0
      /\ Read(s, [op |-> "pay", inv |-> paid.inv,
                  amount |-> IF paid.amount > Pending(paid.inv)
                             THEN Pending(paid.inv) ELSE paid.amount,
                  method |-> "CARD", source |-> {f}, looked |-> FALSE,
                  paid |-> invoice[paid.inv].paid,
                  due |-> invoice[paid.inv].due])
  OBVIOUS
<1> PICK amount : amount = IF paid.amount > Pending(paid.inv)
                           THEN Pending(paid.inv) ELSE paid.amount
  OBVIOUS
<1> PICK q : q = [op |-> "pay", inv |-> paid.inv, amount |-> amount,
                  method |-> "CARD", source |-> {f}, looked |-> FALSE,
                  paid |-> invoice[paid.inv].paid,
                  due |-> invoice[paid.inv].due]
  OBVIOUS
<1>1. paid \in [inv : Invoices, amount : Nat] /\ Issued(paid.inv)
  BY DEF LedgerInvariant, TypeOK, BelongToIssued
<1>2. paid.inv \in Invoices /\ paid.amount \in Nat
  BY <1>1
<1>3. /\ invoice[paid.inv].amount \in Nat /\ invoice[paid.inv].paid \in Int
      /\ invoice[paid.inv].due \in Days
  BY <1>2, RowFacts
<1>4. amount \in Nat
      /\ invoice[paid.inv].paid + amount <= invoice[paid.inv].amount
  BY <1>2, <1>3 DEF Pending
<1>5. q \in RequestRecords
  BY <1>2, <1>3, <1>4 DEF RequestRecords, PayRequests
<1>6. Snapshot(q)
  BY <1>1, <1>4 DEF Snapshot
<1> QED  BY <1>5, <1>6, ReadStep

(* Subtracting a payment cannot raise the total.                           *)
LEMMA ReadRemovePaymentStep ==
  ASSUME LedgerInvariant, NEW s \in Slots, ReadRemovePayment(s)
  PROVE  LedgerInvariant'
<1> PICK i \in Invoices : \E k \in 1..Len(payments[i]) :
      Read(s, [op |-> "remove", inv |-> i, payment |-> k,
               paid |-> invoice[i].paid - payments[i][k].amount,
               due |-> invoice[i].due])
  BY DEF ReadRemovePayment
<1> PICK k \in 1..Len(payments[i]) :
      Read(s, [op |-> "remove", inv |-> i, payment |-> k,
               paid |-> invoice[i].paid - payments[i][k].amount,
               due |-> invoice[i].due])
  OBVIOUS
<1> PICK q : q = [op |-> "remove", inv |-> i, payment |-> k,
                  paid |-> invoice[i].paid - payments[i][k].amount,
                  due |-> invoice[i].due]
  OBVIOUS
<1>1. k \in Nat \ {0}
  BY DEF LedgerInvariant, TypeOK
<1>2. q \in RequestRecords
  BY <1>1, RowFacts DEF RequestRecords, RemoveRequests
<1>3. Snapshot(q)
  BY RowFacts DEF Snapshot
<1> QED  BY <1>2, <1>3, ReadStep

(* update read the status of an issued invoice.                            *)
LEMMA ReadUpdateStep ==
  ASSUME LedgerInvariant, NEW s \in Slots, ReadUpdate(s)
  PROVE  LedgerInvariant'
<1> PICK i \in Invoices, cancel \in BOOLEAN, due \in DueDates \cup {NoDay} :
      /\ invoice[i].status \notin {"NONE", "CANCELLED"}
      /\ Read(s, [op |-> "update", inv |-> i, cancel |-> cancel, due |-> due])
  BY DEF ReadUpdate
<1> PICK q : q = [op |-> "update", inv |-> i, cancel |-> cancel, due |-> due]
  OBVIOUS
<1>1. q \in RequestRecords
  BY DayAssumption DEF RequestRecords, UpdateRequests, Days
<1>2. Snapshot(q)
  BY DEF Snapshot, Issued
<1> QED  BY <1>1, <1>2, ReadStep

(* createRectification read an issued invoice.                             *)
LEMMA ReadRectifyStep ==
  ASSUME LedgerInvariant, NEW s \in Slots, ReadRectify(s)
  PROVE  LedgerInvariant'
<1> PICK i \in Invoices, amount \in RectifiedTo :
      /\ invoice[i].status \notin {"NONE", "CANCELLED"}
      /\ Read(s, [op |-> "rectify", inv |-> i, amount |-> amount, looked |-> FALSE])
  BY DEF ReadRectify
<1> PICK q : q = [op |-> "rectify", inv |-> i, amount |-> amount, looked |-> FALSE]
  OBVIOUS
<1>1. q \in RequestRecords
  BY AmountAssumption DEF RequestRecords, RectifyRequests
<1>2. Snapshot(q)
  BY DEF Snapshot, Issued
<1> QED  BY <1>1, <1>2, ReadStep

(* sepaXml sends receipts of issued invoices only.                         *)
LEMMA ReadSepaXmlStep ==
  ASSUME LedgerInvariant, NEW s \in Slots, ReadSepaXml(s)
  PROVE  LedgerInvariant'
<1> PICK included \in SUBSET Collectable :
      Read(s, [op |-> "sepaXml", amounts |-> [i \in Invoices |->
                 IF i \in included THEN Pending(i) ELSE 0]])
  BY DEF ReadSepaXml
<1> PICK q : q = [op |-> "sepaXml", amounts |-> [i \in Invoices |->
                    IF i \in included THEN Pending(i) ELSE 0]]
  OBVIOUS
<1>1. \A i \in included : i \in Invoices /\ Issued(i) /\ Pending(i) > 0
  BY DEF Collectable, Issued, Owing
<1>2. \A i \in included : Pending(i) \in Nat
  BY <1>1, RowFacts DEF Pending
<1>3. q \in RequestRecords
  BY <1>2 DEF RequestRecords, SepaXmlRequests
<1>4. Snapshot(q)
  BY <1>1 DEF Snapshot
<1> QED  BY <1>3, <1>4, ReadStep

(* collect lists every receipt that is SENT, and caps each one.            *)
LEMMA ReadCollectStep ==
  ASSUME LedgerInvariant, NEW s \in Slots, ReadCollect(s)
  PROVE  LedgerInvariant'
<1> PICK r \in Remittances :
      /\ Recorded(r)
      /\ Read(s, [op |-> "collect", rem |-> r, receipts |-> [i \in Invoices |->
                    IF i \in SentItems(r) THEN Collection(r, i)
                                          ELSE NoCollection]])
  BY DEF ReadCollect
<1> PICK q : q = [op |-> "collect", rem |-> r, receipts |-> [i \in Invoices |->
                    IF i \in SentItems(r) THEN Collection(r, i)
                                          ELSE NoCollection]]
  OBVIOUS
<1>1. \A i \in Invoices :
        /\ Collection(r, i) \in [sent : BOOLEAN, amount : Int, paid : Int,
                                  due : Days]
        /\ NoCollection \in [sent : BOOLEAN, amount : Int, paid : Int, due : Days]
        /\ Collection(r, i).amount > 0
             => Collection(r, i).paid + Collection(r, i).amount
                  <= invoice[i].amount
  BY RowFacts DEF Collection, NoCollection, Pending, Days
<1>2. q \in RequestRecords
  BY <1>1 DEF RequestRecords, CollectRequests
<1>3. \A i \in SentItems(r) : Issued(i) /\ Collection(r, i).sent
  BY DEF SentItems, LedgerInvariant, BelongToIssued, Collection
<1>4. \A i \in Invoices :
        /\ q.receipts[i].sent => Issued(i)
        /\ q.receipts[i].amount > 0
             => Issued(i) /\ q.receipts[i].paid + q.receipts[i].amount
                               <= invoice[i].amount
        /\ item[r][i].status = "SENT" => q.receipts[i].sent
  BY <1>1, <1>3 DEF NoCollection, SentItems
<1>5. Snapshot(q)
  BY <1>4 DEF Snapshot, Recorded
<1> QED  BY <1>2, <1>5, ReadStep

(* returnReceipt subtracts the payment of the receipt, if it has one.      *)
LEMMA ReadReturnReceiptStep ==
  ASSUME LedgerInvariant, NEW s \in Slots, ReadReturnReceipt(s)
  PROVE  LedgerInvariant'
<1> PICK r \in Remittances, i \in Invoices, fee \in Fees \cup {0} :
      /\ item[r][i].status \in {"SENT", "COLLECTED"}
      /\ Read(s, [op |-> "return", rem |-> r, inv |-> i,
                  payment |-> item[r][i].payment,
                  paid |-> invoice[i].paid
                    - (IF item[r][i].payment = 0 THEN 0
                       ELSE payments[i][item[r][i].payment].amount),
                  due |-> invoice[i].due, fee |-> fee])
  BY DEF ReadReturnReceipt
<1> PICK paid : paid = invoice[i].paid
                    - (IF item[r][i].payment = 0 THEN 0
                       ELSE payments[i][item[r][i].payment].amount)
  OBVIOUS
<1> PICK q : q = [op |-> "return", rem |-> r, inv |-> i,
                  payment |-> item[r][i].payment, paid |-> paid,
                  due |-> invoice[i].due, fee |-> fee]
  OBVIOUS
<1>1. paid \in Int /\ paid <= invoice[i].amount
  BY RowFacts
<1>2. q \in RequestRecords
  BY <1>1, RowFacts, AmountAssumption DEF RequestRecords, ReturnRequests
<1>3. Issued(i)
  BY SMTT(40) DEF LedgerInvariant, BelongToIssued
<1>4. Snapshot(q)
  BY <1>1, <1>3 DEF Snapshot
<1> QED  BY <1>2, <1>4, ReadStep

(* void read a remittance and nothing else.                                *)
LEMMA ReadVoidStep ==
  ASSUME LedgerInvariant, NEW s \in Slots, ReadVoid(s)
  PROVE  LedgerInvariant'
<1> PICK r \in Remittances : Read(s, [op |-> "void", rem |-> r])
  BY DEF ReadVoid
<1>1. [op |-> "void", rem |-> r] \in RequestRecords
  BY DEF RequestRecords, VoidRequests
<1>2. Snapshot([op |-> "void", rem |-> r])
  BY DEF Snapshot
<1> QED  BY <1>1, <1>2, ReadStep

-----------------------------------------------------------------------------
(* What the writing steps have in common.                                  *)

(* A step that writes an issued row writes one that agrees, with the       *)
(* amount it had.                                                          *)
LEMMA RowsWritten ==
  ASSUME LedgerInvariant,
         \A i \in Invoices :
           \/ invoice'[i] = invoice[i]
           \/ /\ RowAgrees(invoice'[i])
              /\ invoice'[i].status # "NONE"
              /\ Issued(i) => invoice'[i].amount = invoice[i].amount
  PROVE  /\ RowsAgree' /\ Frozen
<1>1. RowsAgree'
  <2> SUFFICES ASSUME NEW i \in Invoices  PROVE RowAgrees(invoice'[i])
    BY DEF RowsAgree, RowAgrees
  <2> QED  BY DEF LedgerInvariant, RowsAgree
<1>2. Frozen
  BY DEF Frozen, Issued
<1> QED  BY <1>1, <1>2

(* A payment is added at the end.                                          *)
LEMMA OneMorePayment ==
  ASSUME NEW list \in Seq(PaymentRows), NEW p \in PaymentRows
  PROVE  /\ Append(list, p) \in Seq(PaymentRows)
         /\ Len(Append(list, p)) = Len(list) + 1
         /\ \A k \in 1..Len(list) : Append(list, p)[k] = list[k]
         /\ Append(list, p)[Len(list) + 1] = p
OBVIOUS

(* A payment is deleted in its place.                                      *)
LEMMA OneDeleted ==
  ASSUME NEW list \in Seq(PaymentRows), NEW k \in 1..Len(list)
  PROVE  /\ [list EXCEPT ![k] = Deleted] \in Seq(PaymentRows)
         /\ Len([list EXCEPT ![k] = Deleted]) = Len(list)
         /\ \A m \in 1..Len(list) : m # k
              => [list EXCEPT ![k] = Deleted][m] = list[m]
<1>1. Deleted \in PaymentRows
  BY DEF Deleted, PaymentRows
<1> QED  BY <1>1

(* Receipts and remittances that are not written stay as they are.         *)
LEMMA BankUntouched ==
  ASSUME LedgerInvariant, UNCHANGED <<remittance, item>>
  PROVE  Onward /\ CollectedLeavesNoneSent'
BY DEF LedgerInvariant, Onward, CollectedLeavesNoneSent, Recorded

(* ReceiptHasItsPayment, of one receipt and the payments of its invoice.    *)
Backed(receipt, list, r) ==
  receipt.payment # 0 => /\ receipt.status = "COLLECTED"
                         /\ receipt.payment \in 1..Len(list)
                         /\ list[receipt.payment] # Deleted
                         /\ list[receipt.payment].method = "DIRECT_DEBIT"
                         /\ list[receipt.payment].source = {r}

(* ReceiptHasItsPayment receipt by receipt, before and after a step.       *)
LEMMA BackedReceipts ==
  /\ ReceiptHasItsPayment
       <=> \A r \in Remittances, i \in Invoices :
             Backed(item[r][i], payments[i], r)
  /\ ReceiptHasItsPayment'
       <=> \A r \in Remittances, i \in Invoices :
             Backed(item'[r][i], payments'[i], r)
BY DEF ReceiptHasItsPayment, Backed, Live

(* An invoice that has payments, checkouts or receipts afterwards and had  *)
(* none before is issued.                                                  *)
LEMMA StillBelong ==
  ASSUME LedgerInvariant, Frozen, UNCHANGED checkout,
         \A f \in References : \A paid \in checkout[f] : paid.inv \in Invoices,
         \A i \in Invoices : payments'[i] # <<>> => payments[i] # <<>> \/ Issued(i),
         \A r \in Remittances, i \in Invoices :
           item'[r][i].status # "NONE" => item[r][i].status # "NONE" \/ Issued(i)
  PROVE  BelongToIssued'
<1>1. \A i \in Invoices : payments'[i] # <<>> => Issued(i)'
  BY DEF LedgerInvariant, BelongToIssued, Frozen
<1>2. \A f \in References : \A paid \in checkout'[f] : Issued(paid.inv)'
  <2> SUFFICES ASSUME NEW f \in References, NEW paid \in checkout[f]
               PROVE  Issued(paid.inv)'
    OBVIOUS
  <2> QED  BY DEF LedgerInvariant, BelongToIssued, Frozen
<1>3. \A r \in Remittances, i \in Invoices :
        item'[r][i].status # "NONE" => Issued(i)'
  BY DEF LedgerInvariant, BelongToIssued, Frozen
<1> QED  BY <1>1, <1>2, <1>3 DEF BelongToIssued

(* What is left of a writing step once its rows are right: the snapshots.  *)
LEMMA WriteStep ==
  ASSUME LedgerInvariant, TypeOK', RowsAgree', BelongToIssued', Frozen, Onward,
         ReceiptHasItsPayment', CollectedLeavesNoneSent',
         \A s \in Slots : request'[s] = request[s] \/ request'[s] = NoRequest
  PROVE  LedgerInvariant'
BY SnapshotsKept DEF LedgerInvariant

(* The slot of a request that ends is idle again.                          *)
LEMMA Finished ==
  ASSUME TypeOK, NEW s \in Slots, Finish(s)
  PROVE  /\ request' \in [Slots -> RequestRecords]
         /\ \A u \in Slots : request'[u] = request[u] \/ request'[u] = NoRequest
BY DEF TypeOK, Finish, RequestRecords

(* Whoever looks has a request of the same kind when he finds nothing,     *)
LEMMA Looking ==
  ASSUME TypeOK, NEW s \in Slots, LookUp(s)
  PROVE  \E was \in RequestRecords, q \in RequestRecords :
           /\ was = request[s] /\ was.op \in {"pay", "rectify"} /\ was.inv \in Invoices
           /\ q.op = was.op /\ q.inv = was.inv
           /\ q.op = "pay" => /\ q.paid = was.paid /\ q.amount = was.amount
                              /\ \A f \in q.source : ~ AlreadyRecorded(q.inv, f)
           /\ request' = [request EXCEPT ![s] = q]
<1> PICK was \in RequestRecords : was = request[s]
  BY DEF TypeOK
<1>1. /\ was \in PayRequests \/ was \in RectifyRequests
      /\ was.op \in {"pay", "rectify"}
      /\ was.op = "pay" => \A f \in was.source : ~ AlreadyRecorded(was.inv, f)
      /\ request' = [request EXCEPT ![s] = [was EXCEPT !.looked = TRUE]]
  BY RequestOfItsKind DEF LookUp, TypeOK
<1> PICK q : q = [was EXCEPT !.looked = TRUE]
  OBVIOUS
<1>2. CASE was \in PayRequests
  <2>1. /\ q \in PayRequests /\ q.op = was.op /\ q.inv = was.inv
        /\ q.paid = was.paid /\ q.amount = was.amount /\ q.source = was.source
        /\ was.inv \in Invoices
    BY <1>2 DEF PayRequests
  <2> QED  BY <1>1, <2>1 DEF RequestRecords
<1>3. CASE was \in RectifyRequests
  <2>1. /\ q \in RectifyRequests /\ q.op = was.op /\ q.inv = was.inv
        /\ was.inv \in Invoices /\ q.op = "rectify"
    BY <1>3 DEF RectifyRequests
  <2> QED  BY <1>1, <2>1 DEF RequestRecords
<1> QED  BY <1>1, <1>2, <1>3

(* with the same totals to write.                                          *)
LEMMA LookUpStep ==
  ASSUME LedgerInvariant, NEW s \in Slots, LookUp(s)
  PROVE  LedgerInvariant'
<1> USE DEF LedgerInvariant
<1> PICK was \in RequestRecords, q \in RequestRecords :
      /\ was = request[s] /\ was.op \in {"pay", "rectify"}
      /\ q.op = was.op /\ q.inv = was.inv
      /\ q.op = "pay" => q.paid = was.paid /\ q.amount = was.amount
      /\ request' = [request EXCEPT ![s] = q]
  BY Looking
<1>1. UNCHANGED <<now, invoice, payments, checkout, remittance, item>>
  BY DEF LookUp
<1>2. TypeOK'
  BY <1>1 DEF TypeOK
<1>3. RowsAgree' /\ BelongToIssued'
  BY <1>1 DEF RowsAgree, RowAgrees, BelongToIssued, Issued
<1>4. SnapshotsHold'
  <2> SUFFICES ASSUME NEW u \in Slots  PROVE Snapshot(request[u])'
    BY DEF SnapshotsHold
  <2>1. Snapshot(q)
    BY DEF SnapshotsHold, Snapshot
  <2>2. request'[u] = q \/ request'[u] = request[u]
    BY DEF TypeOK
  <2>3. Snapshot(request'[u])
    BY <2>1, <2>2 DEF SnapshotsHold
  <2> QED  BY <1>1, <2>3 DEF Snapshot, Issued, Recorded
<1>5. ReceiptHasItsPayment'
  BY <1>1 DEF ReceiptHasItsPayment, Live
<1>6. CollectedLeavesNoneSent'
  BY <1>1 DEF CollectedLeavesNoneSent
<1> QED  BY <1>2, <1>3, <1>4, <1>5, <1>6

-----------------------------------------------------------------------------
(* The committing steps.                                                   *)

(* A payment is added and its total written.                               *)
LEMMA CommitPaymentStep ==
  ASSUME LedgerInvariant, NEW s \in Slots, CommitPayment(s)
  PROVE  LedgerInvariant'
<1> PICK q \in RequestRecords : q = request[s] /\ Snapshot(q)
  BY DEF LedgerInvariant, TypeOK, SnapshotsHold
<1> PICK p : p = [amount |-> q.amount, method |-> q.method, source |-> q.source]
  OBVIOUS
<1>1. q \in PayRequests
  BY RequestOfItsKind DEF CommitPayment
<1>2. /\ q.inv \in Invoices /\ q.paid + q.amount \in Int /\ q.due \in Days
      /\ p \in PaymentRows
  BY <1>1 DEF PayRequests, PaymentRows
<1>3. /\ payments' = [payments EXCEPT ![q.inv] = Append(@, p)]
      /\ invoice' = [invoice EXCEPT ![q.inv] =
                       Settle(@, q.paid + q.amount, q.due)]
      /\ UNCHANGED <<now, checkout, remittance, item>>
  BY DEF CommitPayment
<1>4. Issued(q.inv) /\ q.paid + q.amount <= invoice[q.inv].amount
  BY <1>1 DEF Snapshot, PayRequests
<1>5. invoice[q.inv] \in InvoiceRows /\ payments[q.inv] \in Seq(PaymentRows)
  BY <1>2 DEF LedgerInvariant, TypeOK
<1>6. \A i \in Invoices : i # q.inv => /\ invoice'[i] = invoice[i]
                                       /\ payments'[i] = payments[i]
  BY <1>3 DEF LedgerInvariant, TypeOK
<1>7. /\ invoice'[q.inv] = Settle(invoice[q.inv], q.paid + q.amount, q.due)
      /\ payments'[q.inv] = Append(payments[q.inv], p)
  BY <1>2, <1>3 DEF LedgerInvariant, TypeOK
<1>8. /\ invoice'[q.inv] \in InvoiceRows
      /\ RowAgrees(invoice'[q.inv])
      /\ invoice'[q.inv].status # "NONE"
      /\ invoice'[q.inv].amount = invoice[q.inv].amount
  BY <1>2, <1>4, <1>5, <1>7, SettledRow DEF Issued
<1>9. RowsAgree' /\ Frozen
  BY <1>6, <1>8, RowsWritten
<1>10. request' \in [Slots -> RequestRecords]
       /\ \A u \in Slots : request'[u] = request[u] \/ request'[u] = NoRequest
  BY Finished DEF CommitPayment, LedgerInvariant
<1>11. TypeOK'
  <2>1. payments'[q.inv] \in Seq(PaymentRows)
    BY <1>2, <1>5, <1>7, OneMorePayment
  <2>2. invoice' \in [Invoices -> InvoiceRows]
    BY <1>3, <1>6, <1>8 DEF LedgerInvariant, TypeOK
  <2>3. payments' \in [Invoices -> Seq(PaymentRows)]
    BY <1>3, <1>6, <2>1 DEF LedgerInvariant, TypeOK
  <2> QED  BY <1>3, <1>10, <2>2, <2>3 DEF LedgerInvariant, TypeOK
<1>12. BelongToIssued'
  BY <1>3, <1>4, <1>6, <1>9 DEF LedgerInvariant, TypeOK, BelongToIssued, Frozen
<1>13. ReceiptHasItsPayment'
  <2>1. \A i \in Invoices : \A k \in 1..Len(payments[i]) :
          k \in 1..Len(payments'[i]) /\ payments'[i][k] = payments[i][k]
    BY <1>2, <1>5, <1>6, <1>7, OneMorePayment
  <2> QED  BY <1>3, <2>1 DEF LedgerInvariant, ReceiptHasItsPayment, Live
<1>14. Onward /\ CollectedLeavesNoneSent'
  BY <1>3, BankUntouched
<1> QED  BY <1>9, <1>10, <1>11, <1>12, <1>13, <1>14, WriteStep

(* The receipt of a deleted payment loses its reference to it.             *)
LEMMA UnlinkedItems ==
  ASSUME TypeOK, NEW i \in Invoices, NEW k \in Nat
  PROVE  /\ Unlink(i, k) \in [Remittances -> [Invoices -> ItemRows]]
         /\ \A r \in Remittances, j \in Invoices :
              /\ Unlink(i, k)[r][j].status = item[r][j].status
              /\ Unlink(i, k)[r][j].payment \in {0, item[r][j].payment}
              /\ j = i /\ item[r][j].payment = k
                   => Unlink(i, k)[r][j].payment = 0
              /\ j # i \/ item[r][j].payment # k
                   => Unlink(i, k)[r][j].payment = item[r][j].payment
<1>1. item \in [Remittances -> [Invoices -> ItemRows]]
  BY DEF TypeOK
<1>2. ASSUME NEW r \in Remittances
      PROVE  [item[r] EXCEPT ![i].payment = IF @ = k THEN 0 ELSE @]
               \in [Invoices -> ItemRows]
  <2> PICK receipts \in [Invoices -> ItemRows] : receipts = item[r]
    BY <1>1
  <2>1. receipts[i] \in ItemRows
    OBVIOUS
  <2>2. [receipts[i] EXCEPT !.payment = IF receipts[i].payment = k THEN 0
                                        ELSE receipts[i].payment] \in ItemRows
    BY <2>1 DEF ItemRows
  <2>3. [receipts EXCEPT ![i].payment = IF @ = k THEN 0 ELSE @]
          = [receipts EXCEPT ![i] = [receipts[i] EXCEPT !.payment =
               IF receipts[i].payment = k THEN 0 ELSE receipts[i].payment]]
    OBVIOUS
  <2> QED  BY <2>2, <2>3
<1>3. ASSUME NEW r \in Remittances, NEW j \in Invoices
      PROVE  /\ Unlink(i, k)[r][j].status = item[r][j].status
             /\ Unlink(i, k)[r][j].payment \in {0, item[r][j].payment}
             /\ j = i /\ item[r][j].payment = k
                  => Unlink(i, k)[r][j].payment = 0
             /\ j # i \/ item[r][j].payment # k
                  => Unlink(i, k)[r][j].payment = item[r][j].payment
  BY <1>1 DEF Unlink, ItemRows
<1>4. Unlink(i, k) \in [Remittances -> [Invoices -> ItemRows]]
  BY <1>2 DEF Unlink
<1> QED  BY <1>3, <1>4

(* A payment is deleted, its receipt unlinked and the lower total written. *)
LEMMA CommitRemovePaymentStep ==
  ASSUME LedgerInvariant, NEW s \in Slots, CommitRemovePayment(s)
  PROVE  LedgerInvariant'
<1> PICK q \in RequestRecords : q = request[s] /\ Snapshot(q)
  BY DEF LedgerInvariant, TypeOK, SnapshotsHold
<1>1. q \in RemoveRequests
  BY RequestOfItsKind DEF CommitRemovePayment
<1>2. /\ q.inv \in Invoices /\ q.paid \in Int /\ q.due \in Days
      /\ q.payment \in Nat /\ q.payment \in 1..Len(payments[q.inv])
  BY <1>1 DEF RemoveRequests, CommitRemovePayment, Live
<1>3. /\ payments' = [payments EXCEPT ![q.inv][q.payment] = Deleted]
      /\ invoice' = [invoice EXCEPT ![q.inv] = Settle(@, q.paid, q.due)]
      /\ item' = Unlink(q.inv, q.payment)
      /\ UNCHANGED <<now, checkout, remittance>>
  BY DEF CommitRemovePayment
<1>4. Issued(q.inv) /\ q.paid <= invoice[q.inv].amount
  BY <1>1 DEF Snapshot, RemoveRequests
<1>5. invoice[q.inv] \in InvoiceRows /\ payments[q.inv] \in Seq(PaymentRows)
  BY <1>2 DEF LedgerInvariant, TypeOK
<1>6. \A i \in Invoices : i # q.inv => /\ invoice'[i] = invoice[i]
                                       /\ payments'[i] = payments[i]
  BY <1>3 DEF LedgerInvariant, TypeOK
<1>7. /\ invoice'[q.inv] = Settle(invoice[q.inv], q.paid, q.due)
      /\ payments'[q.inv] = [payments[q.inv] EXCEPT ![q.payment] = Deleted]
  BY <1>2, <1>3 DEF LedgerInvariant, TypeOK
<1>8. /\ invoice'[q.inv] \in InvoiceRows
      /\ RowAgrees(invoice'[q.inv])
      /\ invoice'[q.inv].status # "NONE"
      /\ invoice'[q.inv].amount = invoice[q.inv].amount
  BY <1>2, <1>4, <1>5, <1>7, SettledRow DEF Issued
<1>9. RowsAgree' /\ Frozen
  BY <1>6, <1>8, RowsWritten
<1>10. request' \in [Slots -> RequestRecords]
       /\ \A u \in Slots : request'[u] = request[u] \/ request'[u] = NoRequest
  BY Finished DEF CommitRemovePayment, LedgerInvariant
<1>11. /\ item' \in [Remittances -> [Invoices -> ItemRows]]
       /\ \A r \in Remittances, j \in Invoices :
            /\ item'[r][j].status = item[r][j].status
            /\ item'[r][j].payment \in {0, item[r][j].payment}
            /\ j = q.inv /\ item[r][j].payment = q.payment
                 => item'[r][j].payment = 0
  BY <1>2, <1>3, UnlinkedItems DEF LedgerInvariant
<1>12. TypeOK'
  <2>1. payments'[q.inv] \in Seq(PaymentRows)
    BY <1>2, <1>5, <1>7, OneDeleted
  <2>2. invoice' \in [Invoices -> InvoiceRows]
    BY <1>3, <1>6, <1>8 DEF LedgerInvariant, TypeOK
  <2>3. payments' \in [Invoices -> Seq(PaymentRows)]
    BY <1>3, <1>6, <2>1 DEF LedgerInvariant, TypeOK
  <2> QED  BY <1>3, <1>10, <1>11, <2>2, <2>3 DEF LedgerInvariant, TypeOK
<1>13. BelongToIssued'
  <2>1. \A f \in References : \A paid \in checkout[f] : paid.inv \in Invoices
    BY DEF LedgerInvariant, TypeOK
  <2>2. \A i \in Invoices : payments'[i] # <<>> => payments[i] # <<>> \/ Issued(i)
    BY <1>4, <1>6
  <2> QED  BY <1>3, <1>9, <1>11, <2>1, <2>2, StillBelong
<1>14. ReceiptHasItsPayment'
  <2> SUFFICES ASSUME NEW r \in Remittances, NEW i \in Invoices
               PROVE  Backed(item'[r][i], payments'[i], r)
    BY BackedReceipts
  <2>1. CASE item'[r][i].payment = 0
    BY <2>1 DEF Backed
  <2>2. CASE item'[r][i].payment # 0
    <3>1. /\ item'[r][i].payment = item[r][i].payment
          /\ item'[r][i].status = item[r][i].status
          /\ i = q.inv => item[r][i].payment # q.payment
      BY <1>11, <2>2
    <3>2. Backed(item[r][i], payments[i], r)
      BY BackedReceipts DEF LedgerInvariant
    <3>3. item[r][i].payment \in 1..Len(payments[i])
      BY <2>2, <3>1, <3>2 DEF Backed
    <3>4. /\ Len(payments'[i]) = Len(payments[i])
          /\ payments'[i][item[r][i].payment] = payments[i][item[r][i].payment]
      BY <1>2, <1>5, <1>6, <1>7, <3>1, <3>3, OneDeleted
    <3> QED  BY <3>1, <3>2, <3>4 DEF Backed
  <2> QED  BY <2>1, <2>2
<1>15. Onward
  BY <1>3, <1>11 DEF Onward, Recorded
<1>16. CollectedLeavesNoneSent'
  BY <1>3, <1>11 DEF LedgerInvariant, CollectedLeavesNoneSent
<1> QED  BY <1>9, <1>10, <1>12, <1>13, <1>14, <1>15, <1>16, WriteStep

(* A step that writes nothing but invoice rows, each one in agreement.     *)
LEMMA RowsOnlyStep ==
  ASSUME LedgerInvariant, UNCHANGED <<payments, checkout, remittance, item>>,
         now' \in Nat, request' \in [Slots -> RequestRecords],
         \A s \in Slots : request'[s] = request[s] \/ request'[s] = NoRequest,
         invoice' \in [Invoices -> InvoiceRows],
         \A i \in Invoices :
           \/ invoice'[i] = invoice[i]
           \/ /\ RowAgrees(invoice'[i])
              /\ invoice'[i].status # "NONE"
              /\ Issued(i) => invoice'[i].amount = invoice[i].amount
  PROVE  LedgerInvariant'
<1>1. TypeOK'
  BY DEF LedgerInvariant, TypeOK
<1>2. RowsAgree' /\ Frozen
  BY RowsWritten
<1>3. BelongToIssued'
  <2>1. \A f \in References : \A paid \in checkout[f] : paid.inv \in Invoices
    BY DEF LedgerInvariant, TypeOK
  <2> QED  BY <1>2, <2>1, StillBelong
<1>4. ReceiptHasItsPayment'
  BY BackedReceipts DEF LedgerInvariant
<1>5. Onward /\ CollectedLeavesNoneSent'
  BY BankUntouched, SMTT(40)
<1> QED  BY <1>1, <1>2, <1>3, <1>4, <1>5, WriteStep

(* update keeps a row's status and amounts, or cancels it.                 *)
LEMMA CommitUpdateStep ==
  ASSUME LedgerInvariant, NEW s \in Slots, CommitUpdate(s)
  PROVE  LedgerInvariant'
<1> PICK q \in RequestRecords : q = request[s] /\ Snapshot(q)
  BY DEF LedgerInvariant, TypeOK, SnapshotsHold
<1>1. q \in UpdateRequests
  BY RequestOfItsKind DEF CommitUpdate
<1>2. q.inv \in Invoices /\ q.due \in Days /\ Issued(q.inv)
  BY <1>1 DEF UpdateRequests, Snapshot
<1>3. /\ invoice' = [invoice EXCEPT
           ![q.inv].due = IF q.due = NoDay THEN @ ELSE q.due,
           ![q.inv].status = IF q.cancel THEN "CANCELLED" ELSE @]
      /\ UNCHANGED <<now, payments, checkout, remittance, item>>
  BY DEF CommitUpdate
<1>4. invoice \in [Invoices -> InvoiceRows] /\ now \in Nat
  BY DEF LedgerInvariant, TypeOK
<1>5. /\ invoice' \in [Invoices -> InvoiceRows]
      /\ \A i \in Invoices : i # q.inv => invoice'[i] = invoice[i]
      /\ invoice'[q.inv].amount = invoice[q.inv].amount
      /\ invoice'[q.inv].paid = invoice[q.inv].paid
      /\ invoice'[q.inv].status \in {"CANCELLED", invoice[q.inv].status}
  BY <1>2, <1>3, <1>4 DEF InvoiceRows, Statuses
<1>6. RowAgrees(invoice'[q.inv])
  BY <1>2, <1>5 DEF LedgerInvariant, RowsAgree, RowAgrees
<1>7. invoice'[q.inv].status # "NONE"
  BY <1>2, <1>5 DEF Issued
<1>8. request' \in [Slots -> RequestRecords]
      /\ \A u \in Slots : request'[u] = request[u] \/ request'[u] = NoRequest
  BY Finished DEF CommitUpdate, LedgerInvariant
<1> QED  BY <1>3, <1>4, <1>5, <1>6, <1>7, <1>8, RowsOnlyStep

(* A rectification is a new row; the original is cancelled.                *)
LEMMA CommitRectifyStep ==
  ASSUME LedgerInvariant, NEW s \in Slots, CommitRectify(s)
  PROVE  LedgerInvariant'
<1> PICK q \in RequestRecords : q = request[s] /\ Snapshot(q)
  BY DEF LedgerInvariant, TypeOK, SnapshotsHold
<1>1. q \in RectifyRequests
  BY RequestOfItsKind DEF CommitRectify
<1>2. q.inv \in Invoices /\ q.amount \in Nat /\ Issued(q.inv)
  BY <1>1 DEF RectifyRequests, Snapshot
<1> PICK n \in Invoices :
      /\ ~ Issued(n)
      /\ invoice' = [invoice EXCEPT ![n] = NewInvoice(q.amount, NoDay, {q.inv}),
                                    ![q.inv].status = "CANCELLED"]
  BY DEF CommitRectify
<1>3. invoice \in [Invoices -> InvoiceRows] /\ now \in Nat
  BY DEF LedgerInvariant, TypeOK
<1>4. /\ NewInvoice(q.amount, NoDay, {q.inv}) \in InvoiceRows
      /\ RowAgrees(NewInvoice(q.amount, NoDay, {q.inv}))
      /\ NewInvoice(q.amount, NoDay, {q.inv}).status # "NONE"
  BY <1>2, NewRow DEF Days
<1>5. n # q.inv
  BY <1>2
<1>6. /\ invoice' \in [Invoices -> InvoiceRows]
      /\ \A i \in Invoices \ {n, q.inv} : invoice'[i] = invoice[i]
      /\ invoice'[n] = NewInvoice(q.amount, NoDay, {q.inv})
      /\ invoice'[q.inv].amount = invoice[q.inv].amount
      /\ invoice'[q.inv].paid = invoice[q.inv].paid
      /\ invoice'[q.inv].status = "CANCELLED"
  BY <1>2, <1>3, <1>4, <1>5 DEF InvoiceRows, Statuses
<1>7. RowAgrees(invoice'[q.inv])
  BY <1>2, <1>6 DEF LedgerInvariant, RowsAgree, RowAgrees
<1>8. request' \in [Slots -> RequestRecords]
      /\ \A u \in Slots : request'[u] = request[u] \/ request'[u] = NoRequest
  BY Finished DEF CommitRectify, LedgerInvariant
<1>9. UNCHANGED <<now, payments, checkout, remittance, item>>
  BY DEF CommitRectify
<1> QED  BY <1>3, <1>4, <1>6, <1>7, <1>8, <1>9, RowsOnlyStep

(* A request that fails writes nothing.                                    *)
LEMMA FailStep ==
  ASSUME LedgerInvariant, NEW s \in Slots, Fail(s)
  PROVE  LedgerInvariant'
<1>1. request' \in [Slots -> RequestRecords]
      /\ \A u \in Slots : request'[u] = request[u] \/ request'[u] = NoRequest
  BY Finished DEF Fail, LedgerInvariant
<1> QED  BY <1>1, RowsOnlyStep DEF Fail, LedgerInvariant, TypeOK

(* A new invoice overwrites no issued one.                                 *)
LEMMA IssueStep ==
  ASSUME LedgerInvariant, Issue
  PROVE  LedgerInvariant'
<1> PICK n \in Invoices, amount \in Amounts, due \in DueDates \cup {NoDay} :
      /\ ~ Issued(n)
      /\ invoice' = [invoice EXCEPT ![n] = NewInvoice(amount, due, {})]
  BY DEF Issue
<1>1. /\ NewInvoice(amount, due, {}) \in InvoiceRows
      /\ RowAgrees(NewInvoice(amount, due, {}))
      /\ NewInvoice(amount, due, {}).status # "NONE"
  <2>1. amount \in Nat /\ due \in Days
    BY AmountAssumption, DayAssumption DEF Days
  <2> QED  BY <2>1, NewRow
<1>2. /\ invoice' \in [Invoices -> InvoiceRows]
      /\ \A i \in Invoices \ {n} : invoice'[i] = invoice[i]
      /\ invoice'[n] = NewInvoice(amount, due, {})
  BY <1>1 DEF LedgerInvariant, TypeOK
<1> QED  BY <1>1, <1>2, RowsOnlyStep DEF Issue, LedgerInvariant, TypeOK

(* The cron flags rows that are PENDING or PARTIAL: they owe something.    *)
LEMMA MarkOverdueStep ==
  ASSUME LedgerInvariant, MarkOverdue
  PROVE  LedgerInvariant'
<1>1. ASSUME NEW i \in Invoices, Overdue(invoice[i])
      PROVE  LET row == [invoice[i] EXCEPT !.status = "OVERDUE"] IN
             /\ row \in InvoiceRows /\ RowAgrees(row)
             /\ row.status # "NONE" /\ row.amount = invoice[i].amount
  <2>1. /\ invoice[i] \in InvoiceRows /\ RowAgrees(invoice[i])
        /\ invoice[i].status \in {"PENDING", "PARTIAL"}
    BY <1>1 DEF LedgerInvariant, TypeOK, RowsAgree, Overdue
  <2> QED  BY <2>1 DEF InvoiceRows, RowAgrees, Statuses
<1>2. ASSUME NEW i \in Invoices
      PROVE  /\ invoice'[i] \in InvoiceRows
             /\ \/ invoice'[i] = invoice[i]
                \/ /\ RowAgrees(invoice'[i]) /\ invoice'[i].status # "NONE"
                   /\ invoice'[i].amount = invoice[i].amount
  BY <1>1 DEF MarkOverdue, LedgerInvariant, TypeOK
<1>3. invoice' \in [Invoices -> InvoiceRows]
  BY <1>2 DEF MarkOverdue
<1> QED  BY <1>2, <1>3, RowsOnlyStep DEF MarkOverdue, LedgerInvariant, TypeOK

(* The passing of a day writes nothing.                                    *)
LEMMA TickStep ==
  ASSUME LedgerInvariant, Tick
  PROVE  LedgerInvariant'
BY RowsOnlyStep DEF Tick, LedgerInvariant, TypeOK

(* A checkout is opened for an invoice that is issued.                     *)
LEMMA CreateCheckoutStep ==
  ASSUME LedgerInvariant, CreateCheckout
  PROVE  LedgerInvariant'
<1> PICK f \in References, i \in Invoices :
      /\ invoice[i].status \notin {"NONE", "CANCELLED", "PAID"}
      /\ Pending(i) > 0
      /\ checkout' = [checkout EXCEPT ![f] =
                        {[inv |-> i, amount |-> Pending(i)]}]
  BY DEF CreateCheckout
<1>1. UNCHANGED <<now, invoice, payments, remittance, item, request>>
  BY DEF CreateCheckout
<1>2. Pending(i) \in Nat
  BY RowFacts DEF Pending
<1>3. /\ checkout' \in [References -> SUBSET [inv : Invoices, amount : Nat]]
      /\ checkout'[f] = {[inv |-> i, amount |-> Pending(i)]}
      /\ \A g \in References \ {f} : checkout'[g] = checkout[g]
  BY <1>2 DEF LedgerInvariant, TypeOK
<1>4. TypeOK'
  BY <1>1, <1>3 DEF LedgerInvariant, TypeOK
<1>5. RowsAgree' /\ Frozen
  BY <1>1, RowsWritten
<1>6. BelongToIssued'
  <2>1. \A g \in References : \A paid \in checkout'[g] : Issued(paid.inv)
    BY <1>3 DEF LedgerInvariant, BelongToIssued, Issued
  <2>2. \A g \in References : \A paid \in checkout'[g] : Issued(paid.inv)'
    BY <1>1, <2>1 DEF Issued
  <2> QED  BY <1>1, <2>2 DEF LedgerInvariant, BelongToIssued, Issued
<1>7. ReceiptHasItsPayment'
  BY <1>1, BackedReceipts DEF LedgerInvariant
<1>8. Onward /\ CollectedLeavesNoneSent'
  BY <1>1, BankUntouched
<1> QED  BY <1>1, <1>4, <1>5, <1>6, <1>7, <1>8, WriteStep

-----------------------------------------------------------------------------
(* The committing steps of the remittances.                                *)

(* A step that writes only a remittance and its receipts.                  *)
LEMMA BankOnlyStep ==
  ASSUME LedgerInvariant, UNCHANGED <<now, invoice, payments, checkout>>,
         \A s \in Slots : request'[s] = request[s] \/ request'[s] = NoRequest,
         TypeOK', Onward, ReceiptHasItsPayment', CollectedLeavesNoneSent',
         \A r \in Remittances, i \in Invoices :
           item'[r][i].status # "NONE" => item[r][i].status # "NONE" \/ Issued(i)
  PROVE  LedgerInvariant'
<1>1. RowsAgree' /\ Frozen
  BY RowsWritten
<1>2. BelongToIssued'
  <2>1. \A f \in References : \A paid \in checkout[f] : paid.inv \in Invoices
    BY DEF LedgerInvariant, TypeOK
  <2> QED  BY <1>1, <2>1, StillBelong
<1> QED  BY <1>1, <1>2, WriteStep

(* A new remittance is SENT, and so are its receipts, none of them paid.   *)
LEMMA CommitSepaXmlStep ==
  ASSUME LedgerInvariant, NEW s \in Slots, CommitSepaXml(s)
  PROVE  LedgerInvariant'
<1> PICK q \in RequestRecords : q = request[s] /\ Snapshot(q)
  BY DEF LedgerInvariant, TypeOK, SnapshotsHold
<1>1. /\ q \in SepaXmlRequests
      /\ \A i \in Invoices : q.amounts[i] > 0 => Issued(i)
  BY RequestOfItsKind DEF CommitSepaXml, Snapshot
<1> PICK row : row = [i \in Invoices |->
       IF q.amounts[i] > 0
         THEN [status |-> "SENT", amount |-> q.amounts[i], payment |-> 0]
         ELSE NoItem]
  OBVIOUS
<1> PICK r \in Remittances : /\ remittance[r] = "NONE"
                             /\ remittance' = [remittance EXCEPT ![r] = "SENT"]
                             /\ item' = [item EXCEPT ![r] = row]
  BY DEF CommitSepaXml
<1>2. /\ row \in [Invoices -> ItemRows]
      /\ \A i \in Invoices : /\ row[i].payment = 0
                             /\ row[i].status # "NONE" => Issued(i)
  BY <1>1 DEF SepaXmlRequests, ItemRows, NoItem
<1>3. /\ item' \in [Remittances -> [Invoices -> ItemRows]]
      /\ item'[r] = row
      /\ \A u \in Remittances \ {r} : item'[u] = item[u]
  BY <1>2 DEF LedgerInvariant, TypeOK
<1>4. /\ remittance' \in [Remittances -> {"NONE", "SENT", "COLLECTED", "VOIDED"}]
      /\ remittance'[r] = "SENT"
      /\ \A u \in Remittances \ {r} : remittance'[u] = remittance[u]
  BY DEF LedgerInvariant, TypeOK
<1>5. UNCHANGED <<now, invoice, payments, checkout>>
  BY DEF CommitSepaXml
<1>6. request' \in [Slots -> RequestRecords]
      /\ \A u \in Slots : request'[u] = request[u] \/ request'[u] = NoRequest
  BY Finished DEF CommitSepaXml, LedgerInvariant
<1>7. TypeOK'
  BY <1>3, <1>4, <1>5, <1>6 DEF LedgerInvariant, TypeOK
<1>8. Onward
  BY <1>3, <1>4 DEF Onward, Recorded
<1>9. ReceiptHasItsPayment'
  <2> SUFFICES ASSUME NEW u \in Remittances, NEW i \in Invoices
               PROVE  Backed(item'[u][i], payments'[i], u)
    BY BackedReceipts
  <2>1. CASE u = r
    BY <1>2, <1>3, <2>1 DEF Backed
  <2>2. CASE u # r
    BY <1>3, <1>5, <2>2, BackedReceipts DEF LedgerInvariant
  <2> QED  BY <2>1, <2>2
<1>10. CollectedLeavesNoneSent'
  BY <1>3, <1>4 DEF LedgerInvariant, CollectedLeavesNoneSent
<1>11. \A u \in Remittances, i \in Invoices :
         item'[u][i].status # "NONE" => item[u][i].status # "NONE" \/ Issued(i)
  BY <1>2, <1>3
<1> QED  BY <1>5, <1>6, <1>7, <1>8, <1>9, <1>10, <1>11, BankOnlyStep

(* A voided remittance has no receipts left.                               *)
LEMMA CommitVoidStep ==
  ASSUME LedgerInvariant, NEW s \in Slots, CommitVoid(s)
  PROVE  LedgerInvariant'
<1> PICK q \in RequestRecords : q = request[s]
  BY DEF LedgerInvariant, TypeOK
<1> PICK r \in Remittances :
      /\ remittance' = [remittance EXCEPT ![r] = "VOIDED"]
      /\ item' = [item EXCEPT ![r] = [i \in Invoices |-> NoItem]]
  <2>1. q.rem \in Remittances
    BY RequestOfItsKind DEF CommitVoid, VoidRequests
  <2> QED  BY <2>1 DEF CommitVoid
<1>1. NoItem \in ItemRows /\ NoItem.payment = 0 /\ NoItem.status = "NONE"
  BY DEF NoItem, ItemRows
<1>2. /\ item' \in [Remittances -> [Invoices -> ItemRows]]
      /\ \A i \in Invoices : item'[r][i] = NoItem
      /\ \A u \in Remittances \ {r} : item'[u] = item[u]
  BY <1>1 DEF LedgerInvariant, TypeOK
<1>3. /\ remittance' \in [Remittances -> {"NONE", "SENT", "COLLECTED", "VOIDED"}]
      /\ remittance'[r] = "VOIDED"
      /\ \A u \in Remittances \ {r} : remittance'[u] = remittance[u]
  BY DEF LedgerInvariant, TypeOK
<1>4. UNCHANGED <<now, invoice, payments, checkout>>
  BY DEF CommitVoid
<1>5. request' \in [Slots -> RequestRecords]
      /\ \A u \in Slots : request'[u] = request[u] \/ request'[u] = NoRequest
  BY Finished DEF CommitVoid, LedgerInvariant
<1>6. TypeOK'
  BY <1>2, <1>3, <1>4, <1>5 DEF LedgerInvariant, TypeOK
<1>7. Onward
  BY <1>2, <1>3 DEF Onward, Recorded
<1>8. ReceiptHasItsPayment'
  <2> SUFFICES ASSUME NEW u \in Remittances, NEW i \in Invoices
               PROVE  Backed(item'[u][i], payments'[i], u)
    BY BackedReceipts
  <2>1. CASE u = r
    BY <1>1, <1>2, <2>1 DEF Backed
  <2>2. CASE u # r
    BY <1>2, <1>4, <2>2, BackedReceipts DEF LedgerInvariant
  <2> QED  BY <2>1, <2>2
<1>9. CollectedLeavesNoneSent'
  BY <1>2, <1>3 DEF LedgerInvariant, CollectedLeavesNoneSent
<1>10. \A u \in Remittances, i \in Invoices :
         item'[u][i].status # "NONE" => item[u][i].status # "NONE" \/ Issued(i)
  BY <1>1, <1>2
<1> QED  BY <1>4, <1>5, <1>6, <1>7, <1>8, <1>9, <1>10, BankOnlyStep

(* What collect writes on one invoice: nothing, or a direct debit of its   *)
(* remittance and the total that goes with it.                             *)
LEMMA CollectedInvoice ==
  ASSUME LedgerInvariant, NEW q \in CollectRequests, Snapshot(q),
         NEW i \in Invoices, q.receipts[i].amount > 0
  PROVE  LET p == [amount |-> q.receipts[i].amount, method |-> "DIRECT_DEBIT",
                   source |-> {q.rem}]
             row == Settle(invoice[i], q.receipts[i].paid + q.receipts[i].amount,
                           q.receipts[i].due)
         IN /\ p \in PaymentRows /\ p # Deleted
            /\ p.method = "DIRECT_DEBIT" /\ p.source = {q.rem}
            /\ row \in InvoiceRows /\ RowAgrees(row)
            /\ row.status # "NONE" /\ row.amount = invoice[i].amount
<1>1. /\ q.rem \in Remittances /\ q.op = "collect"
      /\ q.receipts[i] \in [sent : BOOLEAN, amount : Int, paid : Int, due : Days]
  BY DEF CollectRequests
<1>2. /\ q.receipts[i].amount \in Nat
      /\ q.receipts[i].paid + q.receipts[i].amount \in Int
      /\ q.receipts[i].due \in Days
  BY <1>1
<1>3. /\ Issued(i)
      /\ q.receipts[i].paid + q.receipts[i].amount <= invoice[i].amount
  BY <1>1 DEF Snapshot
<1>4. invoice[i] \in InvoiceRows
  BY DEF LedgerInvariant, TypeOK
<1>5. /\ [amount |-> q.receipts[i].amount, method |-> "DIRECT_DEBIT",
          source |-> {q.rem}] \in PaymentRows
      /\ [amount |-> q.receipts[i].amount, method |-> "DIRECT_DEBIT",
          source |-> {q.rem}] # Deleted
  BY <1>1, <1>2 DEF PaymentRows, Deleted
<1> QED  BY <1>2, <1>3, <1>4, <1>5, SettledRow DEF Issued

(* collect: every receipt read becomes COLLECTED, and those that owed      *)
(* something get their payment.                                            *)
LEMMA CommitCollectStep ==
  ASSUME LedgerInvariant, NEW s \in Slots, CommitCollect(s)
  PROVE  LedgerInvariant'
<1> PICK q \in RequestRecords : q = request[s] /\ Snapshot(q)
  BY DEF LedgerInvariant, TypeOK, SnapshotsHold
<1>1. q \in CollectRequests /\ q.op = "collect"
  BY RequestOfItsKind DEF CommitCollect
<1> PICK r \in Remittances : r = q.rem
  BY <1>1 DEF CollectRequests
<1> DEFINE paying(i) == q.receipts[i].amount > 0
           payment(i) == [amount |-> q.receipts[i].amount,
                          method |-> "DIRECT_DEBIT", source |-> {r}]
           settled(i) == Settle(invoice[i],
                                q.receipts[i].paid + q.receipts[i].amount,
                                q.receipts[i].due)
           receipt(i) == IF q.receipts[i].sent
                           THEN [item[r][i] EXCEPT
                                   !.status = "COLLECTED",
                                   !.payment = IF paying(i)
                                               THEN Len(payments[i]) + 1 ELSE 0]
                           ELSE item[r][i]
<1>2. /\ payments' = [i \in Invoices |->
            IF paying(i) THEN Append(payments[i], payment(i)) ELSE payments[i]]
      /\ invoice' = [i \in Invoices |->
            IF paying(i) THEN settled(i) ELSE invoice[i]]
      /\ item' = [item EXCEPT ![r] = [i \in Invoices |-> receipt(i)]]
      /\ remittance' = [remittance EXCEPT ![r] = "COLLECTED"]
      /\ UNCHANGED <<now, checkout>>
      /\ Recorded(r)
  BY DEF CommitCollect
<1>3. \A i \in Invoices : paying(i) =>
        /\ payment(i) \in PaymentRows /\ payment(i) # Deleted
        /\ payment(i).method = "DIRECT_DEBIT" /\ payment(i).source = {r}
        /\ settled(i) \in InvoiceRows /\ RowAgrees(settled(i))
        /\ settled(i).status # "NONE" /\ settled(i).amount = invoice[i].amount
  BY <1>1, CollectedInvoice
<1>4. \A i \in Invoices : /\ q.receipts[i].sent => Issued(i)
                          /\ paying(i) => Issued(i)
                          /\ item[r][i].status = "SENT" => q.receipts[i].sent
  BY <1>1, <1>2 DEF Snapshot
<1>5. \A i \in Invoices : /\ payments[i] \in Seq(PaymentRows)
                          /\ invoice[i] \in InvoiceRows
                          /\ item[r][i] \in ItemRows
  BY DEF LedgerInvariant, TypeOK
<1>6. \A i \in Invoices :
        /\ receipt(i) \in ItemRows
        /\ q.receipts[i].sent =>
             /\ receipt(i).status = "COLLECTED"
             /\ receipt(i).payment = IF paying(i) THEN Len(payments[i]) + 1 ELSE 0
        /\ ~ q.receipts[i].sent => receipt(i) = item[r][i]
  <2> SUFFICES ASSUME NEW i \in Invoices
               PROVE  /\ receipt(i) \in ItemRows
                      /\ q.receipts[i].sent =>
                           /\ receipt(i).status = "COLLECTED"
                           /\ receipt(i).payment =
                                IF paying(i) THEN Len(payments[i]) + 1 ELSE 0
                      /\ ~ q.receipts[i].sent => receipt(i) = item[r][i]
    OBVIOUS
  <2> PICK old \in ItemRows : old = item[r][i]
    BY <1>5
  <2> PICK k : k = IF paying(i) THEN Len(payments[i]) + 1 ELSE 0
    OBVIOUS
  <2>1. k \in Nat
    BY <1>5
  <2>2. LET new == [old EXCEPT !.status = "COLLECTED", !.payment = k] IN
        new \in ItemRows /\ new.status = "COLLECTED" /\ new.payment = k
    BY <2>1 DEF ItemRows
  <2> QED  BY <2>2, SMTT(40)
<1>7. /\ item' \in [Remittances -> [Invoices -> ItemRows]]
      /\ \A i \in Invoices : item'[r][i] = receipt(i)
      /\ \A u \in Remittances \ {r} : item'[u] = item[u]
  BY <1>2, <1>6 DEF LedgerInvariant, TypeOK
<1>8. \A i \in Invoices :
        /\ payments'[i] = IF paying(i) THEN Append(payments[i], payment(i))
                                       ELSE payments[i]
        /\ invoice'[i] = IF paying(i) THEN settled(i) ELSE invoice[i]
  BY <1>2
<1> HIDE DEF paying, payment, settled, receipt
<1>9. \A i \in Invoices :
        /\ payments'[i] \in Seq(PaymentRows)
        /\ \A k \in 1..Len(payments[i]) :
             k \in 1..Len(payments'[i]) /\ payments'[i][k] = payments[i][k]
        /\ paying(i) =>
             /\ Len(payments[i]) + 1 \in 1..Len(payments'[i])
             /\ payments'[i][Len(payments[i]) + 1] = payment(i)
  <2> SUFFICES ASSUME NEW i \in Invoices
               PROVE  /\ payments'[i] \in Seq(PaymentRows)
                      /\ \A k \in 1..Len(payments[i]) :
                           /\ k \in 1..Len(payments'[i])
                           /\ payments'[i][k] = payments[i][k]
                      /\ paying(i) =>
                           /\ Len(payments[i]) + 1 \in 1..Len(payments'[i])
                           /\ payments'[i][Len(payments[i]) + 1] = payment(i)
    OBVIOUS
  <2>1. CASE paying(i)
    <3>1. payments'[i] = Append(payments[i], payment(i))
      BY <1>8, <2>1
    <3> QED  BY <1>3, <1>5, <2>1, <3>1, OneMorePayment
  <2>2. CASE ~ paying(i)
    BY <1>5, <1>8, <2>2
  <2> QED  BY <2>1, <2>2
<1>10. RowsAgree' /\ Frozen
  BY <1>3, <1>8, RowsWritten
<1>11. request' \in [Slots -> RequestRecords]
       /\ \A u \in Slots : request'[u] = request[u] \/ request'[u] = NoRequest
  BY Finished DEF CommitCollect, LedgerInvariant
<1>12. TypeOK'
  <2>1. invoice' \in [Invoices -> InvoiceRows]
    <3>1. \A i \in Invoices : invoice'[i] \in InvoiceRows
      BY <1>3, <1>5, <1>8
    <3> QED  BY <1>2, <3>1
  <2>2. payments' \in [Invoices -> Seq(PaymentRows)]
    BY <1>2, <1>9
  <2>3. remittance' \in [Remittances -> {"NONE", "SENT", "COLLECTED", "VOIDED"}]
    BY <1>2 DEF LedgerInvariant, TypeOK
  <2> QED  BY <1>2, <1>7, <1>11, <2>1, <2>2, <2>3 DEF LedgerInvariant, TypeOK
<1>13. BelongToIssued'
  <2>1. \A f \in References : \A paid \in checkout[f] : paid.inv \in Invoices
    BY DEF LedgerInvariant, TypeOK
  <2>2. \A i \in Invoices : payments'[i] # <<>> => payments[i] # <<>> \/ Issued(i)
    BY <1>4, <1>8
  <2>3. \A u \in Remittances, i \in Invoices :
          item'[u][i].status # "NONE" => item[u][i].status # "NONE" \/ Issued(i)
    BY <1>4, <1>6, <1>7
  <2> QED  BY <1>2, <1>10, <2>1, <2>2, <2>3, StillBelong
<1>14. ReceiptHasItsPayment'
  <2> SUFFICES ASSUME NEW u \in Remittances, NEW i \in Invoices
               PROVE  Backed(item'[u][i], payments'[i], u)
    BY BackedReceipts
  <2>1. CASE u = r /\ q.receipts[i].sent
    <3>1. item'[u][i].payment # 0 =>
            /\ paying(i) /\ item'[u][i].payment = Len(payments[i]) + 1
            /\ item'[u][i].status = "COLLECTED"
      BY <1>6, <1>7, <2>1
    <3> QED  BY <1>3, <1>9, <2>1, <3>1 DEF Backed
  <2>2. CASE ~ (u = r /\ q.receipts[i].sent)
    <3>1. item'[u][i] = item[u][i]
      BY <1>6, <1>7, <2>2
    <3>2. Backed(item[u][i], payments[i], u)
      BY BackedReceipts DEF LedgerInvariant
    <3> QED  BY <1>9, <3>1, <3>2 DEF Backed
  <2> QED  BY <2>1, <2>2
<1>15. Onward
  <2>1. /\ remittance'[r] = "COLLECTED"
        /\ \A u \in Remittances \ {r} : remittance'[u] = remittance[u]
    BY <1>2 DEF LedgerInvariant, TypeOK
  <2>2. \A i \in Invoices : item'[r][i].status = "SENT"
                             => item[r][i].status = "SENT"
    BY <1>6, <1>7
  <2> QED  BY <1>2, <1>7, <2>1, <2>2 DEF Onward, Recorded
<1>16. CollectedLeavesNoneSent'
  <2>1. \A i \in Invoices : item'[r][i].status # "SENT"
    BY <1>4, <1>6, <1>7
  <2>2. \A u \in Remittances \ {r} : remittance'[u] = remittance[u]
    BY <1>2 DEF LedgerInvariant, TypeOK
  <2> QED  BY <1>7, <2>1, <2>2 DEF LedgerInvariant, CollectedLeavesNoneSent
<1> QED  BY <1>10, <1>11, <1>12, <1>13, <1>14, <1>15, <1>16, WriteStep

(* The receipts after a return: this one is RETURNED and without payment,  *)
(* the others have at most lost a reference to the deleted payment.        *)
Returned(r, i, k) ==
  [Unlink(i, k) EXCEPT ![r][i].status = "RETURNED", ![r][i].payment = 0]

(* It keeps every other receipt as the deletion left it.                   *)
LEMMA ReturnedItems ==
  ASSUME TypeOK, NEW r \in Remittances, NEW i \in Invoices, NEW k \in Nat
  PROVE  /\ Returned(r, i, k) \in [Remittances -> [Invoices -> ItemRows]]
         /\ Returned(r, i, k)[r][i].status = "RETURNED"
         /\ Returned(r, i, k)[r][i].payment = 0
         /\ \A u \in Remittances, j \in Invoices : u # r \/ j # i =>
              Returned(r, i, k)[u][j].status = item[u][j].status
         /\ \A u \in Remittances, j \in Invoices :
              /\ Returned(r, i, k)[u][j].payment \in {0, item[u][j].payment}
              /\ j = i /\ item[u][j].payment = k
                   => Returned(r, i, k)[u][j].payment = 0
              /\ (u # r \/ j # i) /\ (j # i \/ item[u][j].payment # k)
                   => Returned(r, i, k)[u][j].payment = item[u][j].payment
<1> PICK table \in [Remittances -> [Invoices -> ItemRows]] :
      /\ table = Unlink(i, k)
      /\ \A u \in Remittances, j \in Invoices :
           /\ table[u][j].status = item[u][j].status
           /\ table[u][j].payment \in {0, item[u][j].payment}
           /\ j = i /\ item[u][j].payment = k => table[u][j].payment = 0
           /\ j # i \/ item[u][j].payment # k
                => table[u][j].payment = item[u][j].payment
  BY UnlinkedItems
<1> PICK old \in ItemRows : old = table[r][i]
  OBVIOUS
<1> PICK row : row = [old EXCEPT !.status = "RETURNED", !.payment = 0]
  OBVIOUS
<1>1. row \in ItemRows /\ row.status = "RETURNED" /\ row.payment = 0
  BY DEF ItemRows
<1> PICK base \in [Invoices -> ItemRows] : base = table[r]
  OBVIOUS
<1> PICK line : line = [base EXCEPT ![i] = row]
  OBVIOUS
<1>2. /\ line \in [Invoices -> ItemRows] /\ line[i] = row
      /\ \A j \in Invoices \ {i} : line[j] = base[j]
  BY <1>1
<1> PICK after : after = [table EXCEPT ![r] = line]
  OBVIOUS
<1>3. Returned(r, i, k) = after
  BY DEF Returned
<1>4. /\ after \in [Remittances -> [Invoices -> ItemRows]]
      /\ after[r] = line
      /\ \A u \in Remittances \ {r} : after[u] = table[u]
  BY <1>2
<1>5. /\ after[r][i] = row
      /\ \A u \in Remittances, j \in Invoices :
           u # r \/ j # i => after[u][j] = table[u][j]
  BY <1>2, <1>4
<1> QED  BY <1>1, <1>3, <1>4, <1>5

(* returnReceipt: the payment of the receipt is deleted, the lower total   *)
(* written, and the fee, if any, invoiced.                                 *)
LEMMA CommitReturnReceiptStep ==
  ASSUME LedgerInvariant, NEW s \in Slots, CommitReturnReceipt(s)
  PROVE  LedgerInvariant'
<1> PICK q \in RequestRecords : q = request[s] /\ Snapshot(q)
  BY DEF LedgerInvariant, TypeOK, SnapshotsHold
<1>1. q \in ReturnRequests /\ q.op = "return"
  BY RequestOfItsKind DEF CommitReturnReceipt
<1>2. /\ q.rem \in Remittances /\ q.inv \in Invoices /\ q.paid \in Int
      /\ q.due \in Days /\ q.payment \in Nat /\ q.fee \in Nat
  BY <1>1 DEF ReturnRequests
<1>3. Issued(q.inv) /\ q.paid <= invoice[q.inv].amount
  BY <1>1 DEF Snapshot
<1> PICK settled : settled = [invoice EXCEPT ![q.inv] = Settle(@, q.paid, q.due)]
  OBVIOUS
<1>4. /\ q.payment # 0 => q.payment \in 1..Len(payments[q.inv])
      /\ payments' = IF q.payment # 0
                       THEN [payments EXCEPT ![q.inv][q.payment] = Deleted]
                       ELSE payments
      /\ item' = [Unlink(q.inv, q.payment) EXCEPT
                    ![q.rem][q.inv].status = "RETURNED",
                    ![q.rem][q.inv].payment = 0]
      /\ \/ invoice' = settled
         \/ \E n \in Invoices :
              /\ ~ Issued(n)
              /\ invoice' = [settled EXCEPT ![n] =
                   NewInvoice(q.fee, now + FEE_DUE_DAYS, {})]
      /\ UNCHANGED <<now, checkout, remittance>>
  BY DEF CommitReturnReceipt, Live
<1>5. /\ invoice \in [Invoices -> InvoiceRows] /\ now \in Nat
      /\ payments \in [Invoices -> Seq(PaymentRows)]
  BY DEF LedgerInvariant, TypeOK
<1>6. /\ settled \in [Invoices -> InvoiceRows]
      /\ \A i \in Invoices \ {q.inv} : settled[i] = invoice[i]
      /\ RowAgrees(settled[q.inv])
      /\ settled[q.inv].status # "NONE"
      /\ settled[q.inv].amount = invoice[q.inv].amount
  BY <1>2, <1>3, <1>5, SettledRow, SMTT(40) DEF Issued
<1>7. /\ invoice' \in [Invoices -> InvoiceRows]
      /\ \A i \in Invoices :
           \/ invoice'[i] = invoice[i]
           \/ /\ RowAgrees(invoice'[i])
              /\ invoice'[i].status # "NONE"
              /\ Issued(i) => invoice'[i].amount = invoice[i].amount
  <2>1. CASE invoice' = settled
    BY <1>6, <2>1
  <2>2. ASSUME NEW n \in Invoices, ~ Issued(n),
               invoice' = [settled EXCEPT ![n] =
                             NewInvoice(q.fee, now + FEE_DUE_DAYS, {})]
        PROVE  <1>7
    <3> PICK fee : fee = NewInvoice(q.fee, now + FEE_DUE_DAYS, {})
      OBVIOUS
    <3>1. fee \in InvoiceRows /\ RowAgrees(fee) /\ fee.status # "NONE"
      <4>1. now + FEE_DUE_DAYS \in Days
        BY <1>5 DEF FEE_DUE_DAYS, Days
      <4> QED  BY <1>2, <4>1, NewRow
    <3>2. /\ invoice' \in [Invoices -> InvoiceRows]
          /\ invoice'[n] = fee
          /\ \A i \in Invoices \ {n} : invoice'[i] = settled[i]
      BY <1>6, <2>2, <3>1
    <3> QED  BY <1>6, <2>2, <3>1, <3>2
  <2> QED  BY <1>4, <2>1, <2>2
<1>8. RowsAgree' /\ Frozen
  BY <1>7, RowsWritten
<1>9. /\ item' \in [Remittances -> [Invoices -> ItemRows]]
      /\ item'[q.rem][q.inv].status = "RETURNED"
      /\ item'[q.rem][q.inv].payment = 0
      /\ \A u \in Remittances, j \in Invoices : u # q.rem \/ j # q.inv =>
           item'[u][j].status = item[u][j].status
      /\ \A u \in Remittances, j \in Invoices :
           /\ item'[u][j].payment \in {0, item[u][j].payment}
           /\ j = q.inv /\ item[u][j].payment = q.payment
                => item'[u][j].payment = 0
  <2>1. item' = Returned(q.rem, q.inv, q.payment)
    BY <1>4 DEF Returned
  <2>2. TypeOK
    BY DEF LedgerInvariant
  <2> QED  BY <1>2, <2>1, <2>2, ReturnedItems
<1>10. /\ payments' \in [Invoices -> Seq(PaymentRows)]
       /\ \A i \in Invoices \ {q.inv} : payments'[i] = payments[i]
       /\ Len(payments'[q.inv]) = Len(payments[q.inv])
       /\ \A k \in 1..Len(payments[q.inv]) : k # q.payment
            => payments'[q.inv][k] = payments[q.inv][k]
  <2>1. CASE q.payment = 0
    BY <1>4, <1>5, <2>1
  <2>2. CASE q.payment # 0
    <3> PICK list \in Seq(PaymentRows) : list = payments[q.inv]
      BY <1>2, <1>5
    <3> PICK after : after = [list EXCEPT ![q.payment] = Deleted]
      OBVIOUS
    <3>1. payments' = [payments EXCEPT ![q.inv] = after]
      BY <1>4, <2>2
    <3>2. /\ after \in Seq(PaymentRows) /\ Len(after) = Len(list)
          /\ \A k \in 1..Len(list) : k # q.payment => after[k] = list[k]
      BY <1>4, <2>2, OneDeleted
    <3>3. /\ payments' \in [Invoices -> Seq(PaymentRows)]
          /\ payments'[q.inv] = after
          /\ \A i \in Invoices \ {q.inv} : payments'[i] = payments[i]
      BY <1>2, <1>5, <3>1, <3>2
    <3> QED  BY <3>2, <3>3
  <2> QED  BY <2>1, <2>2
<1>11. request' \in [Slots -> RequestRecords]
       /\ \A u \in Slots : request'[u] = request[u] \/ request'[u] = NoRequest
  BY Finished DEF CommitReturnReceipt, LedgerInvariant
<1>12. TypeOK'
  BY <1>4, <1>7, <1>9, <1>10, <1>11, ZenonT(60) DEF LedgerInvariant, TypeOK
<1>13. BelongToIssued'
  <2>1. \A f \in References : \A paid \in checkout[f] : paid.inv \in Invoices
    BY DEF LedgerInvariant, TypeOK
  <2>2. \A i \in Invoices : payments'[i] # <<>> => payments[i] # <<>> \/ Issued(i)
    BY <1>3, <1>10
  <2>3. \A u \in Remittances, i \in Invoices :
          item'[u][i].status # "NONE" => item[u][i].status # "NONE" \/ Issued(i)
    BY <1>3, <1>9
  <2> QED  BY <1>4, <1>8, <2>1, <2>2, <2>3, StillBelong
<1>14. ReceiptHasItsPayment'
  <2> SUFFICES ASSUME NEW u \in Remittances, NEW i \in Invoices,
                      item'[u][i].payment # 0
               PROVE  Backed(item'[u][i], payments'[i], u)
    BY BackedReceipts DEF Backed
  <2>1. /\ item'[u][i].payment = item[u][i].payment
        /\ item'[u][i].status = item[u][i].status
        /\ i = q.inv => item[u][i].payment # q.payment
    BY <1>9
  <2>2. Backed(item[u][i], payments[i], u)
    BY BackedReceipts DEF LedgerInvariant
  <2>3. item[u][i].payment \in 1..Len(payments[i])
    BY <2>1, <2>2 DEF Backed
  <2>4. /\ Len(payments'[i]) = Len(payments[i])
        /\ payments'[i][item[u][i].payment] = payments[i][item[u][i].payment]
    BY <1>10, <2>1, <2>3, SMTT(40)
  <2> QED  BY <2>1, <2>2, <2>4 DEF Backed
<1>15. Onward
  BY <1>4, <1>9, ZenonT(60) DEF Onward, Recorded
<1>16. CollectedLeavesNoneSent'
  <2> SUFFICES ASSUME NEW u \in Remittances, NEW i \in Invoices,
                      remittance[u] = "COLLECTED"
               PROVE  item'[u][i].status # "SENT"
    BY <1>4 DEF CollectedLeavesNoneSent
  <2>1. item[u][i].status # "SENT"
    BY DEF LedgerInvariant, CollectedLeavesNoneSent
  <2> QED  BY <1>9, <2>1
<1> QED  BY <1>8, <1>11, <1>12, <1>13, <1>14, <1>15, <1>16, WriteStep

-----------------------------------------------------------------------------
(* Every step, and the theorems.                                           *)

(* A database without rows satisfies the invariant.                        *)
LEMMA InitialLedger == Init => LedgerInvariant
<1> SUFFICES ASSUME Init  PROVE LedgerInvariant
  OBVIOUS
<1>1. TypeOK
  BY DEF Init, TypeOK, Unissued, InvoiceRows, Statuses, Days, NoItem, ItemRows,
     RequestRecords
<1>2. RowsAgree
  BY DEF Init, RowsAgree, RowAgrees, Unissued
<1>3. BelongToIssued
  BY DEF Init, BelongToIssued, NoItem
<1>4. SnapshotsHold
  BY DEF Init, SnapshotsHold, Snapshot, NoRequest
<1>5. ReceiptHasItsPayment /\ CollectedLeavesNoneSent
  BY DEF Init, ReceiptHasItsPayment, CollectedLeavesNoneSent, NoItem
<1> QED  BY <1>1, <1>2, <1>3, <1>4, <1>5 DEF LedgerInvariant

(* Every step of every request, of the cron and of the clock keeps it.     *)
LEMMA EveryStep == LedgerInvariant /\ [Next]_vars => LedgerInvariant'
<1> SUFFICES ASSUME LedgerInvariant, [Next]_vars  PROVE LedgerInvariant'
  OBVIOUS
<1>1. ASSUME NEW s \in Slots,
             \/ ReadAddPayment(s) \/ ReadWebhook(s) \/ ReadRemovePayment(s)
             \/ ReadUpdate(s) \/ ReadRectify(s) \/ ReadSepaXml(s)
             \/ ReadCollect(s) \/ ReadReturnReceipt(s) \/ ReadVoid(s) \/ LookUp(s)
      PROVE  LedgerInvariant'
  BY <1>1, ReadAddPaymentStep, ReadWebhookStep, ReadRemovePaymentStep,
     ReadUpdateStep, ReadRectifyStep, ReadSepaXmlStep, ReadCollectStep,
     ReadReturnReceiptStep, ReadVoidStep, LookUpStep
<1>2. ASSUME NEW s \in Slots,
             \/ CommitPayment(s) \/ CommitRemovePayment(s) \/ CommitUpdate(s)
             \/ CommitRectify(s) \/ CommitSepaXml(s) \/ CommitCollect(s)
             \/ CommitReturnReceipt(s) \/ CommitVoid(s) \/ Fail(s)
      PROVE  LedgerInvariant'
  BY <1>2, CommitPaymentStep, CommitRemovePaymentStep, CommitUpdateStep,
     CommitRectifyStep, CommitSepaXmlStep, CommitCollectStep,
     CommitReturnReceiptStep, CommitVoidStep, FailStep
<1>3. ASSUME Issue \/ CreateCheckout \/ MarkOverdue \/ Tick
      PROVE  LedgerInvariant'
  BY <1>3, IssueStep, CreateCheckoutStep, MarkOverdueStep, TickStep
<1>4. CASE UNCHANGED vars
  <2>1. UNCHANGED <<now, invoice, payments, checkout, remittance, item, request>>
    BY <1>4 DEF vars
  <2> QED  BY <2>1, RowsOnlyStep DEF LedgerInvariant, TypeOK
<1> QED  BY <1>1, <1>2, <1>3, <1>4 DEF Next

(* However many requests overlap, snapshots stay good enough to write.     *)
THEOREM LedgerInvariantHolds == Spec => []LedgerInvariant
BY InitialLedger, EveryStep, PTL DEF Spec

(* The rows and the requests in progress have their types, whatever is     *)
(* interleaved with what (invoices, stripe and billing services).          *)
THEOREM LedgerTypes == Spec => []TypeOK
<1>1. LedgerInvariant => TypeOK
  BY DEF LedgerInvariant
<1> QED  BY <1>1, LedgerInvariantHolds, PTL

(* paidAmount never exceeds the amount of the invoice, for any number of   *)
(* concurrent payments, webhooks, collections and returns.                 *)
THEOREM NeverPaidBeyondAmount == Spec => []PaidWithinAmount
<1>1. LedgerInvariant => PaidWithinAmount
  BY DEF LedgerInvariant, RowsAgree, RowAgrees, PaidWithinAmount
<1> QED  BY <1>1, LedgerInvariantHolds, PTL

(* The status computeStatus wrote, or the cron, never contradicts          *)
(* paidAmount.                                                             *)
THEOREM StatusAgreesWithPaid == Spec => []StatusMatchesPaid
<1>1. LedgerInvariant => StatusMatchesPaid
  BY DEF LedgerInvariant, RowsAgree, RowAgrees, StatusMatchesPaid
<1> QED  BY <1>1, LedgerInvariantHolds, PTL

(* A receipt's payment is always a live direct debit of its remittance:    *)
(* what returnReceipt will delete is what collect registered.              *)
THEOREM ReceiptsPointToTheirPayments == Spec => []ReceiptHasItsPayment
<1>1. LedgerInvariant => ReceiptHasItsPayment
  BY DEF LedgerInvariant
<1> QED  BY <1>1, LedgerInvariantHolds, PTL

(* collect leaves no receipt SENT, however it overlaps with returns, other *)
(* collections and voids of the same remittance.                           *)
THEOREM NoneLeftSent == Spec => []CollectedLeavesNoneSent
<1>1. LedgerInvariant => CollectedLeavesNoneSent
  BY DEF LedgerInvariant
<1> QED  BY <1>1, LedgerInvariantHolds, PTL

-----------------------------------------------------------------------------
(* One request at a time.                                                  *)

Alone == \A s, t \in Slots : s = t

(* A snapshot that nobody has outdated when it is written.                 *)
Fresh(q) ==
  /\ q.op = "pay" /\ q.looked => \A f \in q.source : ~ AlreadyRecorded(q.inv, f)
  /\ q.op = "collect" => \A i \in Invoices :
       /\ q.receipts[i].sent => item[q.rem][i].status = "SENT"
       /\ q.receipts[i].amount > 0 => q.receipts[i].sent
  /\ q.op = "return" => q.payment = item[q.rem][q.inv].payment
  /\ q.op = "void" => Voidable(q.rem)

(* A checkout of Stripe's is not a remittance.                             *)
TwoKinds == References \cap Remittances = {}

(* A remittance that was not made yet has no receipts.                     *)
NewAreEmpty == \A r \in Remittances : remittance[r] = "NONE" => \A i \in Invoices : item[r][i].status = "NONE"

SerialHolds ==
  /\ DirectDebitHasReceipt /\ CardRecordedOnce /\ NewAreEmpty
  /\ \A s \in Slots : Fresh(request[s])

(* Steps that move no money and no receipt.                                *)
LEMMA SameBank ==
  ASSUME SerialHolds, UNCHANGED <<payments, remittance, item>>
  PROVE  DirectDebitHasReceipt' /\ CardRecordedOnce' /\ NewAreEmpty'
BY DEF SerialHolds, DirectDebitHasReceipt, CardRecordedOnce, NewAreEmpty

LEMMA FreshStays ==
  ASSUME NEW q, Fresh(q), UNCHANGED <<payments, remittance, item>>
  PROVE  Fresh(q)'
BY DEF Fresh, AlreadyRecorded, Voidable

(* Whoever works alone reads what is there                                 *)
LEMMA ReadingAlone ==
  ASSUME LedgerInvariant, SerialHolds, Alone, NEW s \in Slots,
         \/ ReadAddPayment(s) \/ ReadWebhook(s) \/ ReadRemovePayment(s)
         \/ ReadUpdate(s) \/ ReadRectify(s) \/ ReadSepaXml(s) \/ ReadCollect(s)
         \/ ReadReturnReceipt(s) \/ ReadVoid(s)
  PROVE  SerialHolds'
<1>1. \E q : Read(s, q) /\ Fresh(q)
  <2>1. CASE ReadSepaXml(s)
    <3> PICK included \in SUBSET Collectable \ {{}} :
          Read(s, [op |-> "sepaXml", amounts |-> [i \in Invoices |-> IF i \in included THEN Pending(i) ELSE 0]])
      BY <2>1 DEF ReadSepaXml
    <3> PICK q : q = [op |-> "sepaXml", amounts |-> [i \in Invoices |-> IF i \in included THEN Pending(i) ELSE 0]]
      OBVIOUS
    <3>1. \A i \in Invoices : q.amounts[i] > 0 => i \in included
      OBVIOUS
    <3>2. Fresh(q)
      BY <3>1 DEF Fresh, Collectable
    <3> QED  BY <3>2
  <2>2. CASE ReadCollect(s)
    <3> PICK r \in Remittances :
          Read(s, [op |-> "collect", rem |-> r, receipts |-> [i \in Invoices |->
                     IF i \in SentItems(r) THEN Collection(r, i) ELSE NoCollection]])
      BY <2>2 DEF ReadCollect
    <3> PICK q : q = [op |-> "collect", rem |-> r, receipts |-> [i \in Invoices |->
                        IF i \in SentItems(r) THEN Collection(r, i) ELSE NoCollection]]
      OBVIOUS
    <3>1. \A i \in Invoices : /\ i \in SentItems(r) => q.receipts[i].sent
                              /\ i \notin SentItems(r) => ~ q.receipts[i].sent /\ q.receipts[i].amount = 0
      BY DEF Collection, NoCollection
    <3>2. \A i \in SentItems(r) : item[r][i].status = "SENT"
      BY DEF SentItems
    <3>3. q.op = "collect" /\ q.rem = r
      OBVIOUS
    <3> HIDE DEF Read
    <3>4. Fresh(q)
      BY <3>1, <3>2, <3>3 DEF Fresh
    <3> QED  BY <3>4
  <2>3. CASE ReadReturnReceipt(s)
    <3> PICK r \in Remittances, i \in Invoices, fee \in Fees \cup {0} :
          Read(s, [op |-> "return", rem |-> r, inv |-> i,
                   payment |-> item[r][i].payment,
                   paid |-> invoice[i].paid
                              - (IF item[r][i].payment = 0 THEN 0
                                 ELSE payments[i][item[r][i].payment].amount),
                   due |-> invoice[i].due, fee |-> fee])
      BY <2>3 DEF ReadReturnReceipt
    <3> PICK paid, q :
          /\ q = [op |-> "return", rem |-> r, inv |-> i,
                  payment |-> item[r][i].payment, paid |-> paid,
                  due |-> invoice[i].due, fee |-> fee]
          /\ Read(s, q)
      OBVIOUS
    <3>1. Fresh(q)
      BY DEF Fresh
    <3> QED  BY <3>1
  <2>4. CASE ReadVoid(s)
    <3> PICK r \in Remittances : /\ Voidable(r)
                                 /\ Read(s, [op |-> "void", rem |-> r])
      BY <2>4 DEF ReadVoid
    <3> PICK q : q = [op |-> "void", rem |-> r]
      OBVIOUS
    <3>1. Fresh(q)
      BY DEF Fresh
    <3> QED  BY <3>1
  <2>5. CASE ReadWebhook(s)
    <3> PICK f \in References : \E paid \in checkout[f] :
             Read(s, [op |-> "pay", inv |-> paid.inv,
                      amount |-> IF paid.amount > Pending(paid.inv)
                                 THEN Pending(paid.inv) ELSE paid.amount,
                      method |-> "CARD", source |-> {f}, looked |-> FALSE,
                      paid |-> invoice[paid.inv].paid,
                      due |-> invoice[paid.inv].due])
      BY <2>5 DEF ReadWebhook
    <3> PICK i, amount, paid, due, q :
          /\ q = [op |-> "pay", inv |-> i, amount |-> amount,
                  method |-> "CARD", source |-> {f}, looked |-> FALSE,
                  paid |-> paid, due |-> due]
          /\ Read(s, q)
      OBVIOUS
    <3>1. Fresh(q)
      BY DEF Fresh
    <3> QED  BY <3>1
  <2>6. CASE ReadAddPayment(s)
    <3> PICK i, amount, paid, due, q :
          /\ q = [op |-> "pay", inv |-> i, amount |-> amount,
                  method |-> "MANUAL", source |-> {}, looked |-> TRUE,
                  paid |-> paid, due |-> due]
          /\ Read(s, q)
      BY <2>6 DEF ReadAddPayment
    <3>1. Fresh(q)
      BY DEF Fresh
    <3> QED  BY <3>1
  <2>7. CASE ReadRemovePayment(s)
    <3> PICK i, k, paid, due, q :
          /\ q = [op |-> "remove", inv |-> i, payment |-> k,
                  paid |-> paid, due |-> due]
          /\ Read(s, q)
      BY <2>7 DEF ReadRemovePayment
    <3>1. Fresh(q)
      BY DEF Fresh
    <3> QED  BY <3>1
  <2>8. CASE ReadUpdate(s)
    <3> PICK i, cancel, due, q :
          /\ q = [op |-> "update", inv |-> i, cancel |-> cancel, due |-> due]
          /\ Read(s, q)
      BY <2>8 DEF ReadUpdate
    <3>1. Fresh(q)
      BY DEF Fresh
    <3> QED  BY <3>1
  <2>9. CASE ReadRectify(s)
    <3> PICK i, amount, q :
          /\ q = [op |-> "rectify", inv |-> i, amount |-> amount, looked |-> FALSE]
          /\ Read(s, q)
      BY <2>9 DEF ReadRectify
    <3>1. Fresh(q)
      BY DEF Fresh
    <3> QED  BY <3>1
  <2> QED  BY <2>1, <2>2, <2>3, <2>4, <2>5, <2>6, <2>7, <2>8,
         <2>9
<1> PICK q : Read(s, q) /\ Fresh(q)
  BY <1>1
<1>2. UNCHANGED <<payments, remittance, item>> /\ request'[s] = q
  BY DEF Read, LedgerInvariant, TypeOK
<1>3. Fresh(q)'
  BY <1>2, FreshStays
<1>4. \A t \in Slots : Fresh(request[t])'
  BY <1>2, <1>3 DEF Alone
<1> QED  BY <1>2, <1>4, SameBank DEF SerialHolds

(* and looks,                                                              *)
LEMMA LookingAlone ==
  ASSUME LedgerInvariant, SerialHolds, Alone, NEW s \in Slots, LookUp(s)
  PROVE  SerialHolds'
<1> PICK was \in RequestRecords, q \in RequestRecords :
      /\ q.op = was.op /\ was.op \in {"pay", "rectify"}
      /\ q.op = "pay" => \A f \in q.source : ~ AlreadyRecorded(q.inv, f)
      /\ request' = [request EXCEPT ![s] = q]
  BY Looking DEF LedgerInvariant
<1>1. UNCHANGED <<payments, remittance, item>>
  BY DEF LookUp
<1>2. Fresh(q)
  BY DEF Fresh
<1>3. Fresh(q)'
  BY <1>1, <1>2, FreshStays
<1>4. \A t \in Slots : request'[t] = q
  BY DEF Alone, LedgerInvariant, TypeOK
<1>5. \A t \in Slots : Fresh(request[t])'
  BY <1>3, <1>4
<1> QED  BY <1>1, <1>5, SameBank DEF SerialHolds

(* and what is written leaves nobody with a snapshot.                      *)
LEMMA WritingAlone ==
  ASSUME LedgerInvariant, Alone, NEW s \in Slots, Finish(s)
  PROVE  \A t \in Slots : Fresh(request[t])'
<1>1. request'[s] = NoRequest
  BY DEF Finish, LedgerInvariant, TypeOK
<1>2. \A t \in Slots : request'[t].op = "idle"
  BY <1>1 DEF Alone, NoRequest
<1> QED  BY <1>2 DEF Fresh

-----------------------------------------------------------------------------
(* The transactions.                                                       *)

(* A payment registered by hand or by Stripe comes from no remittance, and *)
(* its checkout was not on the books when it was read.                     *)
LEMMA PaymentAlone ==
  ASSUME LedgerInvariant, SerialHolds, Alone, TwoKinds,
         NEW s \in Slots, CommitPayment(s)
  PROVE  SerialHolds'
<1> PICK q \in RequestRecords : q = request[s]
  BY DEF LedgerInvariant, TypeOK
<1>1. q \in PayRequests /\ q.inv \in Invoices /\ q.source \subseteq References
  BY RequestOfItsKind DEF CommitPayment, PayRequests
<1> PICK p : p = [amount |-> q.amount, method |-> q.method, source |-> q.source]
  OBVIOUS
<1>2. /\ payments' = [payments EXCEPT ![q.inv] = Append(@, p)]
      /\ UNCHANGED <<remittance, item>> /\ Finish(s)
  BY DEF CommitPayment
<1>3. /\ \A i \in Invoices : payments[i] \in Seq(PaymentRows)
      /\ payments \in [Invoices -> Seq(PaymentRows)]
  BY DEF LedgerInvariant, TypeOK
<1>4. /\ Len(payments'[q.inv]) = Len(payments[q.inv]) + 1
      /\ \A k \in 1..Len(payments[q.inv]) : payments'[q.inv][k] = payments[q.inv][k]
      /\ payments'[q.inv][Len(payments[q.inv]) + 1] = p
      /\ \A i \in Invoices \ {q.inv} : payments'[i] = payments[i]
      /\ \A i \in Invoices : Len(payments[i]) \in Nat
  BY <1>1, <1>2, <1>3
<1>5. \A k \in 1..Len(payments[q.inv]) : payments[q.inv][k].source \cap q.source = {}
  BY <1>1 DEF SerialHolds, Fresh, AlreadyRecorded, CommitPayment
<1>6. NewAreEmpty'
  BY <1>2 DEF SerialHolds, NewAreEmpty
<1>7. DirectDebitHasReceipt'
  <2> SUFFICES ASSUME NEW i \in Invoices, NEW r \in Remittances,
                      NEW k \in 1..Len(payments'[i]),
                      r \in payments'[i][k].source
               PROVE  item[r][i].payment = k
    BY <1>2 DEF DirectDebitHasReceipt
  <2>1. r \notin p.source
    BY <1>1 DEF TwoKinds
  <2>2. k \in 1..Len(payments[i]) /\ payments'[i][k] = payments[i][k]
    BY <1>4, <2>1
  <2> QED  BY <2>2 DEF SerialHolds, DirectDebitHasReceipt
<1>8. CardRecordedOnce'
  <2> SUFFICES ASSUME NEW f \in References, NEW i \in Invoices,
                      NEW k \in 1..Len(payments'[i]),
                      NEW m \in 1..Len(payments'[i]),
                      f \in payments'[i][k].source,
                      f \in payments'[i][m].source
               PROVE  k = m
    BY DEF CardRecordedOnce
  <2>1. CASE i # q.inv
    BY <1>4, <2>1 DEF SerialHolds, CardRecordedOnce
  <2>2. CASE i = q.inv /\ f \in q.source
    <3>1. \A j \in 1..Len(payments[i]) : f \notin payments'[i][j].source
      BY <1>4, <1>5, <2>2
    <3>2. k = Len(payments[i]) + 1 /\ m = Len(payments[i]) + 1
      BY <1>4, <2>2, <3>1
    <3> QED  BY <3>2
  <2>3. CASE i = q.inv /\ f \notin q.source
    <3>1. \A j \in 1..Len(payments'[i]) :
            j \in 1..Len(payments[i]) \/ j = Len(payments[i]) + 1
      BY <1>4, <2>3
    <3>2. f \notin payments'[i][Len(payments[i]) + 1].source
      BY <1>4, <2>3
    <3>3. k \in 1..Len(payments[i]) /\ m \in 1..Len(payments[i])
      BY <3>1, <3>2
    <3>4. f \in payments[i][k].source /\ f \in payments[i][m].source
      BY <1>4, <2>3, <3>3
    <3> QED  BY <3>3, <3>4 DEF SerialHolds, CardRecordedOnce
  <2> QED  BY <2>1, <2>2, <2>3
<1> QED  BY <1>2, <1>6, <1>7, <1>8, WritingAlone DEF SerialHolds

(* Deleting a payment undoes the reference of its own receipt and of no    *)
(* other.                                                                  *)
LEMMA DeletedAlone ==
  ASSUME LedgerInvariant, SerialHolds,
         NEW i \in Invoices, NEW k \in 1..Len(payments[i]),
         payments' = [payments EXCEPT ![i][k] = Deleted],
         UNCHANGED remittance,
         \A r \in Remittances, j \in Invoices :
           /\ item'[r][j].payment = IF j = i /\ item[r][j].payment = k THEN 0
                                    ELSE item[r][j].payment
           /\ item'[r][j].status \in {item[r][j].status, "RETURNED"}
           /\ item[r][j].status = "NONE" => item'[r][j].status = "NONE"
  PROVE  DirectDebitHasReceipt' /\ CardRecordedOnce' /\ NewAreEmpty'
<1>1. /\ \A j \in Invoices : payments[j] \in Seq(PaymentRows)
      /\ payments \in [Invoices -> Seq(PaymentRows)]
  BY DEF LedgerInvariant, TypeOK
<1>2. /\ \A j \in Invoices : Len(payments'[j]) = Len(payments[j])
      /\ payments'[i][k] = Deleted
      /\ \A j \in Invoices : \A m \in 1..Len(payments[j]) :
           j # i \/ m # k => payments'[j][m] = payments[j][m]
  BY <1>1
<1>3. \A j \in Invoices : \A m \in 1..Len(payments[j]) :
        /\ payments'[j][m].source \subseteq payments[j][m].source
        /\ j = i /\ m = k => payments'[j][m].source = {}
  BY <1>2 DEF Deleted
<1>4. NewAreEmpty'
  BY DEF SerialHolds, NewAreEmpty
<1>5. DirectDebitHasReceipt'
  <2> SUFFICES ASSUME NEW j \in Invoices, NEW r \in Remittances,
                      NEW m \in 1..Len(payments'[j]),
                      r \in payments'[j][m].source
               PROVE  item'[r][j].payment = m
    BY DEF DirectDebitHasReceipt
  <2>1. m \in 1..Len(payments[j]) /\ r \in payments[j][m].source
        /\ (j # i \/ m # k)
    BY <1>2, <1>3
  <2>2. item[r][j].payment = m
    BY <2>1 DEF SerialHolds, DirectDebitHasReceipt
  <2> QED  BY <2>1, <2>2
<1>6. CardRecordedOnce'
  BY <1>2, <1>3 DEF SerialHolds, CardRecordedOnce
<1> QED  BY <1>4, <1>5, <1>6

(* removePayment deletes one payment.                                      *)
LEMMA RemovedAlone ==
  ASSUME LedgerInvariant, SerialHolds, Alone, NEW s \in Slots,
         CommitRemovePayment(s)
  PROVE  SerialHolds'
<1> PICK q \in RequestRecords : q = request[s]
  BY DEF LedgerInvariant, TypeOK
<1>1. q \in RemoveRequests /\ q.inv \in Invoices
  BY RequestOfItsKind DEF CommitRemovePayment, RemoveRequests
<1> PICK i, k : i = q.inv /\ k = q.payment
  OBVIOUS
<1>2. /\ payments' = [payments EXCEPT ![i][k] = Deleted]
      /\ item' = Unlink(i, k) /\ Live(i, k)
      /\ UNCHANGED remittance /\ Finish(s)
  BY DEF CommitRemovePayment
<1>3. k \in 1..Len(payments[i]) /\ i \in Invoices
  BY <1>1, <1>2 DEF Live
<1>4. item \in [Remittances -> [Invoices -> ItemRows]]
  BY DEF LedgerInvariant, TypeOK
<1>5. \A r \in Remittances, j \in Invoices :
        /\ item'[r][j].payment = IF j = i /\ item[r][j].payment = k THEN 0
                                 ELSE item[r][j].payment
        /\ item'[r][j].status \in {item[r][j].status, "RETURNED"}
        /\ item[r][j].status = "NONE" => item'[r][j].status = "NONE"
  BY <1>2, <1>3, <1>4 DEF Unlink, ItemRows
<1>6. DirectDebitHasReceipt' /\ CardRecordedOnce' /\ NewAreEmpty'
  BY <1>2, <1>3, <1>5, DeletedAlone, ZenonT(60)
<1> QED  BY <1>2, <1>6, WritingAlone DEF SerialHolds

(* A receipt is made in a remittance that had no receipts, so that no      *)
(* payment comes from it yet.                                              *)
LEMMA SentAlone ==
  ASSUME LedgerInvariant, SerialHolds, Alone, NEW s \in Slots,
         CommitSepaXml(s)
  PROVE  SerialHolds'
<1> PICK q \in RequestRecords : q = request[s]
  BY DEF LedgerInvariant, TypeOK
<1> PICK r \in Remittances :
      /\ remittance[r] = "NONE"
      /\ remittance' = [remittance EXCEPT ![r] = "SENT"]
      /\ item' = [item EXCEPT ![r] = [i \in Invoices |->
           IF q.amounts[i] > 0
             THEN [status |-> "SENT", amount |-> q.amounts[i], payment |-> 0]
             ELSE NoItem]]
  BY DEF CommitSepaXml
<1>1. UNCHANGED payments /\ Finish(s)
  BY DEF CommitSepaXml
<1>3. /\ item \in [Remittances -> [Invoices -> ItemRows]]
      /\ remittance \in [Remittances -> {"NONE", "SENT", "COLLECTED", "VOIDED"}]
  BY DEF LedgerInvariant, TypeOK
<1>4. /\ \A i \in Invoices : /\ item'[r][i].payment = 0
                             /\ item'[r][i].status = "SENT" => q.amounts[i] > 0
      /\ \A o \in Remittances \ {r} : item'[o] = item[o] /\ remittance'[o] = remittance[o]
      /\ remittance'[r] = "SENT"
  BY <1>3 DEF NoItem
<1>5. \A i \in Invoices : item[r][i].payment = 0
  BY DEF LedgerInvariant, ReceiptHasItsPayment, SerialHolds, NewAreEmpty
<1>7. DirectDebitHasReceipt'
  BY <1>1, <1>4, <1>5 DEF SerialHolds, DirectDebitHasReceipt
<1>8. CardRecordedOnce'
  BY <1>1 DEF SerialHolds, CardRecordedOnce
<1>9. NewAreEmpty'
  BY <1>4 DEF SerialHolds, NewAreEmpty
<1> QED  BY <1>1, <1>7, <1>8, <1>9, WritingAlone DEF SerialHolds

(* No receipt of a remittance that is voided has a payment: all of them    *)
(* were at the bank still.                                                 *)
LEMMA VoidedAlone ==
  ASSUME LedgerInvariant, SerialHolds, Alone, NEW s \in Slots,
         CommitVoid(s)
  PROVE  SerialHolds'
<1> PICK q \in RequestRecords : q = request[s]
  BY DEF LedgerInvariant, TypeOK
<1>1. q.rem \in Remittances
  BY RequestOfItsKind DEF CommitVoid, VoidRequests
<1> PICK r \in Remittances : r = q.rem
  BY <1>1
<1>2. /\ UNCHANGED payments /\ Finish(s)
      /\ remittance' = [remittance EXCEPT ![r] = "VOIDED"]
      /\ item' = [item EXCEPT ![r] = [i \in Invoices |-> NoItem]]
  BY DEF CommitVoid
<1>3. Voidable(r)
  BY DEF SerialHolds, Fresh, CommitVoid
<1>4. /\ item \in [Remittances -> [Invoices -> ItemRows]]
      /\ remittance \in [Remittances -> {"NONE", "SENT", "COLLECTED", "VOIDED"}]
  BY DEF LedgerInvariant, TypeOK
<1>5. /\ \A i \in Invoices : item'[r][i] = NoItem
      /\ \A o \in Remittances \ {r} : item'[o] = item[o] /\ remittance'[o] = remittance[o]
  BY <1>2, <1>4
<1>6. \A i \in Invoices : item[r][i].payment = 0
  BY <1>3 DEF LedgerInvariant, ReceiptHasItsPayment, Voidable
<1>7. NewAreEmpty'
  BY <1>5 DEF SerialHolds, NewAreEmpty, NoItem
<1>8. DirectDebitHasReceipt'
  BY <1>2, <1>5, <1>6 DEF SerialHolds, DirectDebitHasReceipt, NoItem
<1>9. CardRecordedOnce'
  BY <1>2 DEF SerialHolds, CardRecordedOnce
<1> QED  BY <1>2, <1>7, <1>8, <1>9, WritingAlone DEF SerialHolds

(* A receipt that is collected was at the bank, so that no payment comes   *)
(* from it yet: the one registered now is the one it points to.            *)
LEMMA CollectedAlone ==
  ASSUME LedgerInvariant, SerialHolds, Alone, TwoKinds, NEW s \in Slots,
         CommitCollect(s)
  PROVE  SerialHolds'
<1> PICK q \in RequestRecords : q = request[s]
  BY DEF LedgerInvariant, TypeOK
<1>1. q \in CollectRequests /\ q.rem \in Remittances
  BY RequestOfItsKind DEF CommitCollect, CollectRequests
<1> PICK r \in Remittances : r = q.rem
  BY <1>1
<1> PICK paying : paying = {i \in Invoices : q.receipts[i].amount > 0}
  OBVIOUS
<1>2. /\ payments' = [i \in Invoices |->
           IF i \in paying
             THEN Append(payments[i], [amount |-> q.receipts[i].amount,
                                       method |-> "DIRECT_DEBIT",
                                       source |-> {r}])
             ELSE payments[i]]
      /\ item' = [item EXCEPT ![r] = [i \in Invoices |->
           IF q.receipts[i].sent
             THEN [@[i] EXCEPT !.status = "COLLECTED",
                               !.payment = IF i \in paying
                                             THEN Len(payments[i]) + 1 ELSE 0]
             ELSE @[i]]]
      /\ remittance' = [remittance EXCEPT ![r] = "COLLECTED"]
      /\ remittance[r] # "NONE"
      /\ Finish(s)
  BY DEF CommitCollect, Recorded
<1>3. \A i \in Invoices : /\ q.receipts[i].sent => item[r][i].status = "SENT"
                          /\ i \in paying => q.receipts[i].sent
  BY DEF SerialHolds, Fresh, CommitCollect
<1>4. /\ item \in [Remittances -> [Invoices -> ItemRows]]
      /\ remittance \in [Remittances -> {"NONE", "SENT", "COLLECTED", "VOIDED"}]
      /\ \A i \in Invoices : payments[i] \in Seq(PaymentRows)
  BY DEF LedgerInvariant, TypeOK
<1>5. \A i \in Invoices :
        /\ q.receipts[i].sent =>
             /\ item'[r][i].status = "COLLECTED"
             /\ item'[r][i].payment = IF i \in paying THEN Len(payments[i]) + 1
                                      ELSE 0
        /\ ~ q.receipts[i].sent => item'[r][i] = item[r][i]
  <2> SUFFICES ASSUME NEW i \in Invoices
               PROVE  /\ q.receipts[i].sent =>
                           /\ item'[r][i].status = "COLLECTED"
                           /\ item'[r][i].payment =
                                IF i \in paying THEN Len(payments[i]) + 1 ELSE 0
                      /\ ~ q.receipts[i].sent => item'[r][i] = item[r][i]
    OBVIOUS
  <2> PICK k : k = IF i \in paying THEN Len(payments[i]) + 1 ELSE 0
    OBVIOUS
  <2>1. item'[r][i] = IF q.receipts[i].sent
                        THEN [item[r][i] EXCEPT !.status = "COLLECTED",
                                                !.payment = k]
                        ELSE item[r][i]
    BY <1>2, <1>4
  <2>2. item[r][i] \in ItemRows
    BY <1>4
  <2> QED  BY <2>1, <2>2 DEF ItemRows
<1>6. \A o \in Remittances \ {r} : item'[o] = item[o] /\ remittance'[o] = remittance[o]
  BY <1>2, <1>4
<1>7. \A i \in Invoices :
        \/ payments'[i] = payments[i] /\ i \notin paying
        \/ /\ i \in paying
           /\ Len(payments'[i]) = Len(payments[i]) + 1
           /\ Len(payments[i]) \in Nat
           /\ payments'[i][Len(payments[i]) + 1].source = {r}
           /\ \A k \in 1..Len(payments[i]) : payments'[i][k] = payments[i][k]
  <2> SUFFICES ASSUME NEW i \in Invoices, i \in paying
               PROVE  /\ Len(payments'[i]) = Len(payments[i]) + 1
                      /\ Len(payments[i]) \in Nat
                      /\ payments'[i][Len(payments[i]) + 1].source = {r}
                      /\ \A k \in 1..Len(payments[i]) :
                           payments'[i][k] = payments[i][k]
    BY <1>2
  <2> PICK registered : registered = [amount |-> q.receipts[i].amount,
                                      method |-> "DIRECT_DEBIT",
                                      source |-> {r}]
    OBVIOUS
  <2>1. payments'[i] = Append(payments[i], registered)
    BY <1>2
  <2>2. registered.source = {r}
    OBVIOUS
  <2>3. payments[i] \in Seq(PaymentRows)
    BY <1>4
  <2> QED  BY <2>1, <2>2, <2>3
<1>8. \A i \in Invoices : q.receipts[i].sent =>
        \A k \in 1..Len(payments[i]) : r \notin payments[i][k].source
  <2> SUFFICES ASSUME NEW i \in Invoices, q.receipts[i].sent,
                      NEW k \in 1..Len(payments[i]),
                      r \in payments[i][k].source
               PROVE  FALSE
    OBVIOUS
  <2>1. item[r][i].payment = k /\ k # 0
    BY <1>4 DEF SerialHolds, DirectDebitHasReceipt
  <2>2. item[r][i].status = "COLLECTED"
    BY <2>1 DEF LedgerInvariant, ReceiptHasItsPayment
  <2> QED  BY <1>3, <2>2
<1>9. NewAreEmpty'
  <2>1. \A o \in Remittances, i \in Invoices :
          item'[o][i].status = "SENT" => item[o][i].status = "SENT"
    BY <1>5, <1>6
  <2>2. remittance'[r] # "NONE"
    BY <1>2, <1>4
  <2> QED  BY <1>6, <2>1, <2>2 DEF SerialHolds, NewAreEmpty
<1>10. DirectDebitHasReceipt'
  <2> SUFFICES ASSUME NEW i \in Invoices, NEW o \in Remittances,
                      NEW k \in 1..Len(payments'[i]),
                      o \in payments'[i][k].source
               PROVE  item'[o][i].payment = k
    BY DEF DirectDebitHasReceipt
  <2>1. CASE k \in 1..Len(payments[i]) /\ payments'[i][k] = payments[i][k]
    <3>1. item[o][i].payment = k
      BY <2>1 DEF SerialHolds, DirectDebitHasReceipt
    <3>2. o = r => ~ q.receipts[i].sent
      BY <1>8, <2>1
    <3> QED  BY <1>5, <1>6, <3>1, <3>2
  <2>2. CASE ~ (k \in 1..Len(payments[i]) /\ payments'[i][k] = payments[i][k])
    <3>1. i \in paying /\ k = Len(payments[i]) + 1
          /\ payments'[i][k].source = {r}
      BY <1>7, <2>2
    <3> QED  BY <1>3, <1>5, <3>1
  <2> QED  BY <2>1, <2>2
<1>11. CardRecordedOnce'
  <2> SUFFICES ASSUME NEW f \in References, NEW i \in Invoices,
                      NEW k \in 1..Len(payments'[i]),
                      NEW m \in 1..Len(payments'[i]),
                      f \in payments'[i][k].source,
                      f \in payments'[i][m].source
               PROVE  k = m
    BY DEF CardRecordedOnce
  <2>1. f # r
    BY DEF TwoKinds
  <2>2. \A j \in 1..Len(payments'[i]) : f \in payments'[i][j].source =>
          j \in 1..Len(payments[i]) /\ payments'[i][j] = payments[i][j]
    BY <1>7, <2>1
  <2> QED  BY <2>2 DEF SerialHolds, CardRecordedOnce
<1> QED  BY <1>2, <1>9, <1>10, <1>11, WritingAlone DEF SerialHolds

(* A return deletes the payment its receipt points to still.               *)
LEMMA ReturnedAlone ==
  ASSUME LedgerInvariant, SerialHolds, Alone, NEW s \in Slots,
         CommitReturnReceipt(s)
  PROVE  SerialHolds'
<1> PICK q \in RequestRecords : q = request[s]
  BY DEF LedgerInvariant, TypeOK
<1>1. q \in ReturnRequests /\ q.rem \in Remittances /\ q.inv \in Invoices
      /\ q.payment \in Nat
  BY RequestOfItsKind DEF CommitReturnReceipt, ReturnRequests
<1> PICK r \in Remittances, i \in Invoices, k \in Nat :
      r = q.rem /\ i = q.inv /\ k = q.payment
  BY <1>1
<1>2. /\ k # 0 => Live(i, k)
      /\ payments' = IF k # 0 THEN [payments EXCEPT ![i][k] = Deleted]
                     ELSE payments
      /\ item' = [Unlink(i, k) EXCEPT ![r][i].status = "RETURNED",
                                      ![r][i].payment = 0]
      /\ UNCHANGED remittance /\ Finish(s) /\ Recorded(r)
  BY DEF CommitReturnReceipt
<1>3. item[r][i].payment = k
  BY DEF SerialHolds, Fresh, CommitReturnReceipt
<1>4. item \in [Remittances -> [Invoices -> ItemRows]]
  BY DEF LedgerInvariant, TypeOK
<1>5. /\ item'[r][i].payment = 0 /\ item'[r][i].status = "RETURNED"
      /\ \A o \in Remittances, j \in Invoices : o # r \/ j # i =>
           /\ item'[o][j].payment = IF j = i /\ item[o][j].payment = k THEN 0
                                    ELSE item[o][j].payment
           /\ item'[o][j].status = item[o][j].status
  <2>1. item' = Returned(r, i, k)
    BY <1>2 DEF Returned
  <2> QED  BY <2>1, ReturnedItems DEF LedgerInvariant
<1>6. CASE k # 0
  <2>1. k \in 1..Len(payments[i])
    BY <1>2, <1>6 DEF Live
  <2>2. item[r][i].status # "NONE"
    BY <1>3, <1>6 DEF LedgerInvariant, ReceiptHasItsPayment
  <2>3. \A o \in Remittances, j \in Invoices :
          /\ item'[o][j].payment = IF j = i /\ item[o][j].payment = k THEN 0
                                   ELSE item[o][j].payment
          /\ item'[o][j].status \in {item[o][j].status, "RETURNED"}
          /\ item[o][j].status = "NONE" => item'[o][j].status = "NONE"
    BY <1>3, <1>5, <2>2
  <2>4. DirectDebitHasReceipt' /\ CardRecordedOnce' /\ NewAreEmpty'
    <3>1. payments' = [payments EXCEPT ![i][k] = Deleted] /\ UNCHANGED remittance
      BY <1>2, <1>6
    <3> QED  BY <2>1, <2>3, <3>1, DeletedAlone, ZenonT(60)
  <2> QED  BY <1>2, <2>4, WritingAlone DEF SerialHolds
<1>7. CASE k = 0
  <2>1. UNCHANGED payments
    BY <1>2, <1>7
  <2>2. \A o \in Remittances, j \in Invoices :
          /\ item'[o][j].payment = item[o][j].payment
          /\ item'[o][j].status \in {item[o][j].status, "RETURNED"}
    BY <1>3, <1>5, <1>7
  <2>4. DirectDebitHasReceipt' /\ CardRecordedOnce'
    BY <2>1, <2>2 DEF SerialHolds, DirectDebitHasReceipt, CardRecordedOnce
  <2>5. NewAreEmpty'
    <3>1. remittance[r] # "NONE"
      BY <1>2 DEF Recorded
    <3>2. \A o \in Remittances, j \in Invoices :
            o # r => item'[o][j].status = item[o][j].status
      BY <1>5
    <3> QED  BY <1>2, <3>1, <3>2, ZenonT(60) DEF SerialHolds, NewAreEmpty
  <2> QED  BY <1>2, <2>4, <2>5, WritingAlone DEF SerialHolds
<1> QED  BY <1>6, <1>7

(* The others move no payment and no receipt.                              *)
LEMMA RestAlone ==
  ASSUME LedgerInvariant, SerialHolds, Alone, NEW s \in Slots,
         CommitUpdate(s) \/ CommitRectify(s) \/ Fail(s)
  PROVE  SerialHolds'
<1>1. UNCHANGED <<payments, remittance, item>> /\ Finish(s)
  BY DEF CommitUpdate, CommitRectify, Fail
<1> QED  BY <1>1, SameBank, WritingAlone DEF SerialHolds

(* What the office, the cron and the clock do moves none either,           *)
LEMMA OutsideRequests ==
  ASSUME SerialHolds, UNCHANGED <<payments, remittance, item, request>>
  PROVE  SerialHolds'
<1>1. \A s \in Slots : Fresh(request[s])'
  <2> TAKE s \in Slots
  <2> PICK q : q = request[s]
    OBVIOUS
  <2>1. Fresh(q)'
    BY FreshStays DEF SerialHolds
  <2> QED  BY <2>1
<1> QED  BY <1>1, SameBank DEF SerialHolds

(* so that every step keeps what holds of requests that do not overlap,    *)
LEMMA EveryStepAlone ==
  ASSUME LedgerInvariant, SerialHolds, Alone, TwoKinds, [Next]_vars
  PROVE  SerialHolds'
<1>1. ASSUME NEW s \in Slots,
             \/ ReadAddPayment(s) \/ ReadWebhook(s) \/ ReadRemovePayment(s)
             \/ ReadUpdate(s) \/ ReadRectify(s) \/ ReadSepaXml(s)
             \/ ReadCollect(s) \/ ReadReturnReceipt(s) \/ ReadVoid(s) \/ LookUp(s)
      PROVE  SerialHolds'
  BY <1>1, ReadingAlone, LookingAlone
<1>2. ASSUME NEW s \in Slots,
             \/ CommitPayment(s) \/ CommitRemovePayment(s) \/ CommitUpdate(s)
             \/ CommitRectify(s) \/ CommitSepaXml(s) \/ CommitCollect(s)
             \/ CommitReturnReceipt(s) \/ CommitVoid(s) \/ Fail(s)
      PROVE  SerialHolds'
  BY <1>2, PaymentAlone, RemovedAlone, SentAlone, CollectedAlone,
     ReturnedAlone, VoidedAlone, RestAlone
<1>3. CASE Issue \/ CreateCheckout \/ MarkOverdue \/ Tick \/ UNCHANGED vars
  <2>1. UNCHANGED <<payments, remittance, item, request>>
    BY <1>3 DEF Issue, CreateCheckout, MarkOverdue, Tick, vars
  <2> QED  BY <2>1, OutsideRequests
<1> QED  BY <1>1, <1>2, <1>3 DEF Next

(* and it holds when there is nothing yet.                                 *)
LEMMA InitialAlone == Init => SerialHolds
BY DEF Init, SerialHolds, DirectDebitHasReceipt, CardRecordedOnce,
       NewAreEmpty, Fresh, NoItem, NoRequest

(* Where requests do not overlap, what each has read is still so when it   *)
(* writes.                                                                 *)
THEOREM SerialHoldsAlone ==
  ASSUME Alone, TwoKinds
  PROVE  Spec => []SerialHolds
<1>1. LedgerInvariant /\ SerialHolds /\ [Next]_vars => SerialHolds'
  BY EveryStepAlone
<1> QED  BY <1>1, InitialAlone, LedgerInvariantHolds, PTL DEF Spec

(* Where requests do not overlap, every direct debit on the books is the   *)
(* payment its receipt points to, so that returnReceipt can undo it, and   *)
(* no receipt is collected twice.                                          *)
THEOREM DirectDebitsHaveReceipts ==
  ASSUME Alone, TwoKinds
  PROVE  Spec => []DirectDebitHasReceipt
<1>1. SerialHolds => DirectDebitHasReceipt
  BY DEF SerialHolds
<1> QED  BY <1>1, SerialHoldsAlone, PTL

(* Where requests do not overlap, a checkout is recorded once however      *)
(* often its webhook arrives: the check for an earlier record needs no     *)
(* constraint of the database then, only when two deliveries overlap.      *)
THEOREM CardsAreRecordedOnce ==
  ASSUME Alone, TwoKinds
  PROVE  Spec => []CardRecordedOnce
<1>1. SerialHolds => CardRecordedOnce
  BY DEF SerialHolds
<1> QED  BY <1>1, SerialHoldsAlone, PTL

-----------------------------------------------------------------------------
(* The books: paidAmount is the sum of the payments, as long as nobody     *)
(* writes a total that was computed from an older one.                     *)

(* The total a request will write is what is paid now and what it does.    *)
PaidIsFresh(q) ==
  /\ q.op = "pay" => q.paid = invoice[q.inv].paid
  /\ q.op = "remove" =>
       q.paid = invoice[q.inv].paid - payments[q.inv][q.payment].amount
  /\ q.op = "collect" => \A i \in Invoices :
       q.receipts[i].amount > 0 => q.receipts[i].paid = invoice[i].paid
  /\ q.op = "return" =>
       q.paid = invoice[q.inv].paid
                  - (IF q.payment = 0 THEN 0
                     ELSE payments[q.inv][q.payment].amount)

BalanceHolds == LedgerBalanced /\ \A s \in Slots : PaidIsFresh(request[s])

SamePaid == \A i \in Invoices : invoice'[i].paid = invoice[i].paid

(* Settle writes the total it is given.                                    *)
LEMMA SettledPaid ==
  ASSUME NEW row \in InvoiceRows, NEW paid, NEW due
  PROVE  Settle(row, paid, due).paid = paid
BY DEF Settle, InvoiceRows

(* Nothing is paid of an invoice that is not issued.                       *)
LEMMA NothingPaidYet ==
  ASSUME LedgerInvariant, LedgerBalanced, NEW i \in Invoices, ~ Issued(i)
  PROVE  invoice[i].paid = 0
<1>1. payments[i] = <<>>
  BY DEF LedgerInvariant, BelongToIssued
<1> QED  BY <1>1, TotalOfNone DEF LedgerBalanced, Registered

(* Where no total and no payment changes, the books balance as before and  *)
(* what was read is as fresh.                                              *)
LEMMA SameBalance ==
  ASSUME LedgerBalanced, SamePaid, UNCHANGED payments
  PROVE  LedgerBalanced'
BY DEF LedgerBalanced, Registered, SamePaid

LEMMA PaidStaysFresh ==
  ASSUME NEW q \in RequestRecords, PaidIsFresh(q), SamePaid, UNCHANGED payments
  PROVE  PaidIsFresh(q)'
<1>1. q.op \in {"pay", "remove", "return"} => q.inv \in Invoices
  BY RequestOfItsKind DEF PayRequests, RemoveRequests, ReturnRequests
<1> QED  BY <1>1 DEF PaidIsFresh, SamePaid

(* Whoever works alone computes with what is paid now,                     *)
LEMMA ReadingFreshPaid ==
  ASSUME LedgerInvariant, BalanceHolds, Alone, NEW s \in Slots,
         \/ ReadAddPayment(s) \/ ReadWebhook(s) \/ ReadRemovePayment(s)
         \/ ReadUpdate(s) \/ ReadRectify(s) \/ ReadSepaXml(s) \/ ReadCollect(s)
         \/ ReadReturnReceipt(s) \/ ReadVoid(s)
  PROVE  BalanceHolds'
<1>1. \E q : Read(s, q) /\ PaidIsFresh(q)
  <2>1. CASE ReadAddPayment(s)
    <3> PICK i, amount, due, q :
          /\ q = [op |-> "pay", inv |-> i, amount |-> amount,
                  method |-> "MANUAL", source |-> {}, looked |-> TRUE,
                  paid |-> invoice[i].paid, due |-> due]
          /\ Read(s, q)
      BY <2>1 DEF ReadAddPayment
    <3>1. PaidIsFresh(q)
      BY DEF PaidIsFresh
    <3> QED  BY <3>1
  <2>2. CASE ReadWebhook(s)
    <3> PICK i, amount, f, due, q :
          /\ q = [op |-> "pay", inv |-> i, amount |-> amount,
                  method |-> "CARD", source |-> {f}, looked |-> FALSE,
                  paid |-> invoice[i].paid, due |-> due]
          /\ Read(s, q)
      BY <2>2 DEF ReadWebhook
    <3>1. PaidIsFresh(q)
      BY DEF PaidIsFresh
    <3> QED  BY <3>1
  <2>3. CASE ReadRemovePayment(s)
    <3> PICK i, k, due, q :
          /\ q = [op |-> "remove", inv |-> i, payment |-> k,
                  paid |-> invoice[i].paid - payments[i][k].amount,
                  due |-> due]
          /\ Read(s, q)
      BY <2>3 DEF ReadRemovePayment
    <3>1. PaidIsFresh(q)
      BY DEF PaidIsFresh
    <3> QED  BY <3>1
  <2>4. CASE ReadReturnReceipt(s)
    <3> PICK r, i, k, due, fee, q :
          /\ q = [op |-> "return", rem |-> r, inv |-> i, payment |-> k,
                  paid |-> invoice[i].paid
                             - (IF k = 0 THEN 0 ELSE payments[i][k].amount),
                  due |-> due, fee |-> fee]
          /\ Read(s, q)
      BY <2>4 DEF ReadReturnReceipt
    <3>1. PaidIsFresh(q)
      BY DEF PaidIsFresh
    <3> QED  BY <3>1
  <2>5. CASE ReadCollect(s)
    <3> PICK r \in Remittances :
          Read(s, [op |-> "collect", rem |-> r, receipts |-> [i \in Invoices |->
                     IF i \in SentItems(r) THEN Collection(r, i) ELSE NoCollection]])
      BY <2>5 DEF ReadCollect
    <3> PICK q : q = [op |-> "collect", rem |-> r, receipts |-> [i \in Invoices |->
                        IF i \in SentItems(r) THEN Collection(r, i) ELSE NoCollection]]
      OBVIOUS
    <3>1. \A i \in Invoices : /\ i \in SentItems(r) => q.receipts[i].paid = invoice[i].paid
                              /\ i \notin SentItems(r) => q.receipts[i].amount = 0
      BY DEF Collection, NoCollection
    <3>2. q.op = "collect" /\ Read(s, q)
      OBVIOUS
    <3> HIDE DEF Read
    <3>3. PaidIsFresh(q)
      BY <3>1, <3>2 DEF PaidIsFresh
    <3> QED  BY <3>2, <3>3
  <2>6. CASE ReadUpdate(s) \/ ReadRectify(s) \/ ReadSepaXml(s) \/ ReadVoid(s)
    <3> PICK q : Read(s, q) /\ q.op \in {"update", "rectify", "sepaXml", "void"}
      <4>1. CASE ReadUpdate(s)
        <5> PICK i, cancel, due, q :
              /\ q = [op |-> "update", inv |-> i, cancel |-> cancel, due |-> due]
              /\ Read(s, q)
          BY <4>1 DEF ReadUpdate
        <5>1. q.op = "update"
          OBVIOUS
        <5> QED  BY <5>1
      <4>2. CASE ReadRectify(s)
        <5> PICK i, amount, q :
              /\ q = [op |-> "rectify", inv |-> i, amount |-> amount, looked |-> FALSE]
              /\ Read(s, q)
          BY <4>2 DEF ReadRectify
        <5>1. q.op = "rectify"
          OBVIOUS
        <5> QED  BY <5>1
      <4>3. CASE ReadSepaXml(s)
        <5> PICK amounts, q : /\ q = [op |-> "sepaXml", amounts |-> amounts]
                              /\ Read(s, q)
          BY <4>3 DEF ReadSepaXml
        <5>1. q.op = "sepaXml"
          OBVIOUS
        <5> QED  BY <5>1
      <4>4. CASE ReadVoid(s)
        <5> PICK r, q : q = [op |-> "void", rem |-> r] /\ Read(s, q)
          BY <4>4 DEF ReadVoid
        <5>1. q.op = "void"
          OBVIOUS
        <5> QED  BY <5>1
      <4> QED  BY <2>6, <4>1, <4>2, <4>3, <4>4
    <3>1. PaidIsFresh(q)
      BY DEF PaidIsFresh
    <3> QED  BY <3>1
  <2> QED  BY <2>1, <2>2, <2>3, <2>4, <2>5, <2>6
<1> PICK q : Read(s, q) /\ PaidIsFresh(q)
  BY <1>1
<1>2. UNCHANGED <<invoice, payments>> /\ request'[s] = q
  BY DEF Read, LedgerInvariant, TypeOK
<1>3. PaidIsFresh(q)'
  BY <1>2 DEF PaidIsFresh
<1>4. \A t \in Slots : PaidIsFresh(request[t])'
  BY <1>2, <1>3 DEF Alone
<1>5. LedgerBalanced'
  BY <1>2, SameBalance DEF SamePaid, BalanceHolds
<1> QED  BY <1>4, <1>5 DEF BalanceHolds

(* and looks with the same total,                                          *)
LEMMA LookingFreshPaid ==
  ASSUME LedgerInvariant, BalanceHolds, Alone, NEW s \in Slots, LookUp(s)
  PROVE  BalanceHolds'
<1> PICK was \in RequestRecords, q \in RequestRecords :
      /\ was = request[s] /\ was.op \in {"pay", "rectify"}
      /\ q.op = was.op /\ q.inv = was.inv
      /\ q.op = "pay" => q.paid = was.paid
      /\ request' = [request EXCEPT ![s] = q]
  BY Looking DEF LedgerInvariant
<1>1. UNCHANGED <<invoice, payments>>
  BY DEF LookUp
<1>2. PaidIsFresh(q)
  BY DEF PaidIsFresh, BalanceHolds
<1>3. PaidIsFresh(q)'
  BY <1>1, <1>2 DEF PaidIsFresh
<1>4. \A t \in Slots : request'[t] = q
  BY DEF Alone, LedgerInvariant, TypeOK
<1>5. \A t \in Slots : PaidIsFresh(request[t])'
  BY <1>3, <1>4
<1>6. LedgerBalanced'
  BY <1>1, SameBalance DEF SamePaid, BalanceHolds
<1> QED  BY <1>5, <1>6 DEF BalanceHolds

(* and nobody is left with an older total.                                 *)
LEMMA NobodyComputes ==
  ASSUME LedgerInvariant, Alone, NEW s \in Slots, Finish(s)
  PROVE  \A t \in Slots : PaidIsFresh(request[t])'
<1>1. request'[s] = NoRequest
  BY DEF Finish, LedgerInvariant, TypeOK
<1>2. \A t \in Slots : request'[t].op = "idle"
  BY <1>1 DEF Alone, NoRequest
<1> QED  BY <1>2 DEF PaidIsFresh

(* A payment raises the total by its amount.                               *)
LEMMA PaymentBalances ==
  ASSUME LedgerInvariant, BalanceHolds, Alone, NEW s \in Slots,
         CommitPayment(s)
  PROVE  BalanceHolds'
<1> PICK q \in RequestRecords : q = request[s]
  BY DEF LedgerInvariant, TypeOK
<1>1. q \in PayRequests /\ q.inv \in Invoices /\ PaidIsFresh(q) /\ q.op = "pay"
  BY RequestOfItsKind DEF CommitPayment, PayRequests, BalanceHolds
<1> PICK i \in Invoices : i = q.inv
  BY <1>1
<1> PICK p : p = [amount |-> q.amount, method |-> q.method, source |-> q.source]
  OBVIOUS
<1>2. /\ payments' = [payments EXCEPT ![i] = Append(@, p)]
      /\ invoice' = [invoice EXCEPT ![i] = Settle(@, q.paid + q.amount, q.due)]
      /\ Finish(s)
  BY DEF CommitPayment
<1>3. /\ payments \in [Invoices -> Seq(PaymentRows)]
      /\ invoice \in [Invoices -> InvoiceRows]
  BY DEF LedgerInvariant, TypeOK
<1>4. p \in PaymentRows /\ p.amount = q.amount
  BY <1>1 DEF PayRequests, PaymentRows
<1>5. /\ payments'[i] = Append(payments[i], p)
      /\ invoice'[i] = Settle(invoice[i], q.paid + q.amount, q.due)
      /\ \A j \in Invoices \ {i} : invoice'[j] = invoice[j] /\ payments'[j] = payments[j]
  BY <1>2, <1>3
<1>6. Registered(i)' = Registered(i) + q.amount
  BY <1>3, <1>4, <1>5, TotalOfOneMore DEF Registered
<1>7. invoice'[i].paid = Registered(i)'
  <2>1. invoice'[i].paid = q.paid + q.amount
    BY <1>3, <1>5, SettledPaid
  <2> QED  BY <1>1, <1>6, <2>1 DEF PaidIsFresh, LedgerBalanced, BalanceHolds
<1>8. LedgerBalanced'
  BY <1>5, <1>7 DEF BalanceHolds, LedgerBalanced, Registered
<1> QED  BY <1>2, <1>8, NobodyComputes DEF BalanceHolds

(* Deleting a payment lowers the total by its amount.                      *)
LEMMA DeletionBalances ==
  ASSUME LedgerInvariant, LedgerBalanced,
         NEW i \in Invoices, NEW k \in 1..Len(payments[i]),
         payments' = [payments EXCEPT ![i][k] = Deleted],
         invoice'[i].paid = invoice[i].paid - payments[i][k].amount,
         \A j \in Invoices \ {i} : invoice'[j].paid = invoice[j].paid
  PROVE  LedgerBalanced'
<1>1. /\ payments \in [Invoices -> Seq(PaymentRows)]
  BY DEF LedgerInvariant, TypeOK
<1>2. /\ payments'[i] = [payments[i] EXCEPT ![k] = Deleted]
      /\ \A j \in Invoices \ {i} : payments'[j] = payments[j]
  BY <1>1
<1> PICK paid \in Seq(PaymentRows) : paid = payments[i]
  BY <1>1
<1> PICK less : less = [paid EXCEPT ![k] = Deleted]
  OBVIOUS
<1>3. Registered(i)' = Registered(i) - payments[i][k].amount
  <2>1. /\ Len(less) = Len(paid)
        /\ RunningTotal(less)[Len(paid)] = RunningTotal(paid)[Len(paid)] - paid[k].amount
    BY TotalWithoutOne
  <2>2. payments'[i] = less
    BY <1>2
  <2> QED  BY <2>1, <2>2 DEF Registered
<1>4. invoice'[i].paid = Registered(i)'
  BY <1>3 DEF LedgerBalanced
<1> QED  BY <1>2, <1>4 DEF LedgerBalanced, Registered

LEMMA RemovalBalances ==
  ASSUME LedgerInvariant, BalanceHolds, Alone, NEW s \in Slots,
         CommitRemovePayment(s)
  PROVE  BalanceHolds'
<1> PICK q \in RequestRecords : q = request[s]
  BY DEF LedgerInvariant, TypeOK
<1>1. q \in RemoveRequests /\ q.inv \in Invoices /\ PaidIsFresh(q) /\ q.op = "remove"
  BY RequestOfItsKind DEF CommitRemovePayment, RemoveRequests, BalanceHolds
<1> PICK i \in Invoices : i = q.inv
  BY <1>1
<1> PICK k : k = q.payment
  OBVIOUS
<1>2. /\ payments' = [payments EXCEPT ![i][k] = Deleted]
      /\ invoice' = [invoice EXCEPT ![i] = Settle(@, q.paid, q.due)]
      /\ Live(i, k) /\ Finish(s)
  BY DEF CommitRemovePayment
<1>3. k \in 1..Len(payments[i])
  BY <1>2 DEF Live
<1>4. invoice \in [Invoices -> InvoiceRows]
  BY DEF LedgerInvariant, TypeOK
<1>5. /\ invoice'[i].paid = invoice[i].paid - payments[i][k].amount
      /\ \A j \in Invoices \ {i} : invoice'[j].paid = invoice[j].paid
  BY <1>1, <1>2, <1>4, SettledPaid DEF PaidIsFresh
<1>6. LedgerBalanced'
  BY <1>2, <1>3, <1>5, DeletionBalances DEF BalanceHolds
<1> QED  BY <1>2, <1>6, NobodyComputes DEF BalanceHolds

(* A collection raises the total of every invoice it registers a payment   *)
(* on, and of no other.                                                    *)
LEMMA CollectionBalances ==
  ASSUME LedgerInvariant, BalanceHolds, Alone, NEW s \in Slots,
         CommitCollect(s)
  PROVE  BalanceHolds'
<1> PICK q \in RequestRecords : q = request[s]
  BY DEF LedgerInvariant, TypeOK
<1>1. /\ q \in CollectRequests /\ q.rem \in Remittances
      /\ PaidIsFresh(q) /\ q.op = "collect"
  BY RequestOfItsKind DEF CommitCollect, CollectRequests, BalanceHolds
<1> PICK paying : paying = {i \in Invoices : q.receipts[i].amount > 0}
  OBVIOUS
<1>2. /\ payments' = [i \in Invoices |->
           IF i \in paying
             THEN Append(payments[i], [amount |-> q.receipts[i].amount,
                                       method |-> "DIRECT_DEBIT",
                                       source |-> {q.rem}])
             ELSE payments[i]]
      /\ invoice' = [i \in Invoices |->
           IF i \in paying
             THEN Settle(invoice[i], q.receipts[i].paid + q.receipts[i].amount,
                         q.receipts[i].due)
             ELSE invoice[i]]
      /\ Finish(s)
  BY DEF CommitCollect
<1>3. /\ \A i \in Invoices : payments[i] \in Seq(PaymentRows)
      /\ \A i \in Invoices : invoice[i] \in InvoiceRows
  BY DEF LedgerInvariant, TypeOK
<1>4. ASSUME NEW i \in Invoices
      PROVE  invoice'[i].paid = Registered(i)'
  <2>1. CASE i \notin paying
    <3>1. invoice'[i] = invoice[i] /\ payments'[i] = payments[i]
      BY <1>2, <2>1
    <3> QED  BY <3>1 DEF BalanceHolds, LedgerBalanced, Registered
  <2>2. CASE i \in paying
    <3> PICK p : p = [amount |-> q.receipts[i].amount,
                      method |-> "DIRECT_DEBIT", source |-> {q.rem}]
      OBVIOUS
    <3>1. q.receipts[i].amount \in Nat
      BY <1>1, <2>2 DEF CollectRequests
    <3>2. p \in PaymentRows /\ p.amount = q.receipts[i].amount
      BY <1>1, <3>1 DEF PaymentRows
    <3>3. /\ payments'[i] = Append(payments[i], p)
          /\ invoice'[i].paid = q.receipts[i].paid + q.receipts[i].amount
      BY <1>2, <1>3, <2>2, SettledPaid
    <3>4. q.receipts[i].paid = invoice[i].paid
      BY <1>1, <2>2 DEF PaidIsFresh
    <3>5. Registered(i)' = Registered(i) + q.receipts[i].amount
      BY <1>3, <3>2, <3>3, TotalOfOneMore DEF Registered
    <3> QED  BY <3>3, <3>4, <3>5 DEF BalanceHolds, LedgerBalanced
  <2> QED  BY <2>1, <2>2
<1>5. LedgerBalanced'
  BY <1>4 DEF LedgerBalanced
<1> QED  BY <1>2, <1>5, NobodyComputes DEF BalanceHolds

(* A return lowers it by the payment it deletes; the invoice of the fee is *)
(* another one, and nothing is paid of it.                                 *)
LEMMA ReturnBalances ==
  ASSUME LedgerInvariant, BalanceHolds, Alone, NEW s \in Slots,
         CommitReturnReceipt(s)
  PROVE  BalanceHolds'
<1> PICK q \in RequestRecords : q = request[s]
  BY DEF LedgerInvariant, TypeOK
<1>1. /\ q \in ReturnRequests /\ q.inv \in Invoices
      /\ PaidIsFresh(q) /\ q.op = "return"
  BY RequestOfItsKind DEF CommitReturnReceipt, ReturnRequests, BalanceHolds
<1> PICK i \in Invoices : i = q.inv
  BY <1>1
<1> PICK k : k = q.payment
  OBVIOUS
<1> PICK settled : settled = [invoice EXCEPT ![i] = Settle(@, q.paid, q.due)]
  OBVIOUS
<1>2. /\ k # 0 => Live(i, k)
      /\ payments' = IF k # 0 THEN [payments EXCEPT ![i][k] = Deleted]
                     ELSE payments
      /\ \/ invoice' = settled
         \/ \E n \in Invoices :
              /\ ~ Issued(n)
              /\ invoice' = [settled EXCEPT ![n] =
                               NewInvoice(q.fee, now + FEE_DUE_DAYS, {})]
      /\ Finish(s)
  BY DEF CommitReturnReceipt
<1>3. invoice \in [Invoices -> InvoiceRows]
  BY DEF LedgerInvariant, TypeOK
<1>4. /\ settled[i].paid = q.paid
      /\ \A j \in Invoices \ {i} : settled[j] = invoice[j]
      /\ DOMAIN settled = Invoices
  BY <1>3, SettledPaid
<1>5. Issued(i)
  BY <1>1 DEF LedgerInvariant, SnapshotsHold, Snapshot
<1>6. /\ invoice'[i].paid = q.paid
      /\ \A j \in Invoices \ {i} : invoice'[j].paid = invoice[j].paid
  <2>1. CASE invoice' = settled
    BY <1>4, <2>1
  <2>2. ASSUME NEW n \in Invoices, ~ Issued(n),
               invoice' = [settled EXCEPT ![n] =
                             NewInvoice(q.fee, now + FEE_DUE_DAYS, {})]
        PROVE  /\ invoice'[i].paid = q.paid
               /\ \A j \in Invoices \ {i} : invoice'[j].paid = invoice[j].paid
    <3>1. n # i /\ invoice[n].paid = 0
      BY <1>5, <2>2, NothingPaidYet DEF BalanceHolds
    <3>2. NewInvoice(q.fee, now + FEE_DUE_DAYS, {}).paid = 0
      BY DEF NewInvoice
    <3> QED  BY <1>4, <2>2, <3>1, <3>2
  <2> QED  BY <1>2, <2>1, <2>2
<1>7. CASE k # 0
  <2>1. k \in 1..Len(payments[i]) /\ payments' = [payments EXCEPT ![i][k] = Deleted]
    BY <1>2, <1>7 DEF Live
  <2>2. invoice'[i].paid = invoice[i].paid - payments[i][k].amount
    BY <1>1, <1>6, <1>7 DEF PaidIsFresh
  <2>3. LedgerBalanced'
    BY <1>6, <2>1, <2>2, DeletionBalances DEF BalanceHolds
  <2> QED  BY <1>2, <2>3, NobodyComputes DEF BalanceHolds
<1>8. CASE k = 0
  <2>1. q.paid = invoice[i].paid
    <3>1. invoice[i].paid \in Int
      BY <1>3 DEF InvoiceRows
    <3> QED  BY <1>1, <1>8, <3>1 DEF PaidIsFresh
  <2>2. LedgerBalanced'
    BY <1>2, <1>6, <1>8, <2>1, SameBalance DEF SamePaid, BalanceHolds
  <2> QED  BY <1>2, <2>2, NobodyComputes DEF BalanceHolds
<1> QED  BY <1>7, <1>8

(* What changes no payment changes no total: an invoice that is issued,    *)
(* by the office or as a rectification, is one nothing was paid of.        *)
LEMMA RowsKeepPaid ==
  ASSUME LedgerInvariant, LedgerBalanced,
         \/ Issue \/ MarkOverdue \/ UNCHANGED invoice
         \/ \E s \in Slots : CommitUpdate(s) \/ CommitRectify(s)
  PROVE  SamePaid
<1>1. invoice \in [Invoices -> InvoiceRows] /\ request \in [Slots -> RequestRecords]
  BY DEF LedgerInvariant, TypeOK
<1>2. CASE Issue
  <2> PICK n, amount, due :
        /\ n \in Invoices /\ ~ Issued(n)
        /\ invoice' = [invoice EXCEPT ![n] = NewInvoice(amount, due, {})]
    BY <1>2 DEF Issue
  <2>1. invoice[n].paid = 0 /\ NewInvoice(amount, due, {}).paid = 0
    BY NothingPaidYet DEF NewInvoice
  <2> QED  BY <1>1, <2>1 DEF SamePaid
<1>3. CASE MarkOverdue
  <2>1. \A i \in Invoices :
          [invoice[i] EXCEPT !.status = "OVERDUE"].paid = invoice[i].paid
    BY <1>1 DEF InvoiceRows
  <2>2. \A i \in Invoices :
          \/ invoice'[i] = invoice[i]
          \/ invoice'[i] = [invoice[i] EXCEPT !.status = "OVERDUE"]
    BY <1>3 DEF MarkOverdue
  <2> QED  BY <2>1, <2>2 DEF SamePaid
<1>4. ASSUME NEW s \in Slots, CommitUpdate(s)
      PROVE  SamePaid
  <2> PICK q : q = request[s]
    OBVIOUS
  <2> PICK cancel, due :
        invoice' = [invoice EXCEPT
          ![q.inv].due = IF q.due = NoDay THEN @ ELSE due,
          ![q.inv].status = IF cancel THEN "CANCELLED" ELSE @]
    BY <1>4 DEF CommitUpdate
  <2> QED  BY <1>1 DEF SamePaid, InvoiceRows
<1>5. ASSUME NEW s \in Slots, CommitRectify(s)
      PROVE  SamePaid
  <2> PICK q \in RequestRecords : q = request[s]
    BY <1>1
  <2>1. q.inv \in Invoices
    BY <1>5, RequestOfItsKind DEF CommitRectify, RectifyRequests
  <2> PICK m \in Invoices : m = q.inv
    BY <2>1
  <2> PICK n \in Invoices :
        /\ ~ Issued(n)
        /\ invoice' = [invoice EXCEPT
             ![n] = NewInvoice(q.amount, NoDay, {m}),
             ![m].status = "CANCELLED"]
    BY <1>5 DEF CommitRectify
  <2> PICK new : new = NewInvoice(q.amount, NoDay, {m})
    OBVIOUS
  <2>2. invoice[n].paid = 0 /\ new.paid = 0
    BY NothingPaidYet DEF NewInvoice
  <2>3. m # n
    <3>1. Issued(m)
      BY <1>5 DEF LedgerInvariant, SnapshotsHold, Snapshot, CommitRectify
    <3> QED  BY <3>1
  <2>4. [invoice[m] EXCEPT !.status = "CANCELLED"].paid = invoice[m].paid
    BY <1>1 DEF InvoiceRows
  <2>5. \A i \in Invoices :
          invoice'[i] = IF i = n THEN new
                        ELSE IF i = m THEN [invoice[m] EXCEPT !.status = "CANCELLED"]
                        ELSE invoice[i]
    BY <1>1, <2>3
  <2> QED  BY <2>2, <2>4, <2>5 DEF SamePaid
<1>6. CASE UNCHANGED invoice
  BY <1>6 DEF SamePaid
<1> QED  BY <1>2, <1>3, <1>4, <1>5, <1>6

(* Every step keeps the books balanced where requests do not overlap,      *)
LEMMA EveryStepBalances ==
  ASSUME LedgerInvariant, BalanceHolds, Alone, [Next]_vars
  PROVE  BalanceHolds'
<1>1. ASSUME NEW s \in Slots,
             \/ ReadAddPayment(s) \/ ReadWebhook(s) \/ ReadRemovePayment(s)
             \/ ReadUpdate(s) \/ ReadRectify(s) \/ ReadSepaXml(s)
             \/ ReadCollect(s) \/ ReadReturnReceipt(s) \/ ReadVoid(s) \/ LookUp(s)
      PROVE  BalanceHolds'
  BY <1>1, ReadingFreshPaid, LookingFreshPaid
<1>2. ASSUME NEW s \in Slots,
             \/ CommitPayment(s) \/ CommitRemovePayment(s)
             \/ CommitCollect(s) \/ CommitReturnReceipt(s)
      PROVE  BalanceHolds'
  BY <1>2, PaymentBalances, RemovalBalances, CollectionBalances, ReturnBalances
<1>3. ASSUME NEW s \in Slots,
             \/ CommitUpdate(s) \/ CommitRectify(s) \/ CommitSepaXml(s)
             \/ CommitVoid(s) \/ Fail(s)
      PROVE  BalanceHolds'
  <2>1. UNCHANGED payments /\ Finish(s)
    BY <1>3 DEF CommitUpdate, CommitRectify, CommitSepaXml, CommitVoid, Fail
  <2>2. SamePaid
    <3>1. CASE CommitUpdate(s) \/ CommitRectify(s)
      BY <3>1, RowsKeepPaid DEF BalanceHolds
    <3>2. CASE CommitSepaXml(s) \/ CommitVoid(s) \/ Fail(s)
      BY <3>2, RowsKeepPaid DEF BalanceHolds, CommitSepaXml, CommitVoid, Fail
    <3> QED  BY <1>3, <3>1, <3>2
  <2> QED  BY <2>1, <2>2, SameBalance, NobodyComputes DEF BalanceHolds
<1>4. CASE Issue \/ CreateCheckout \/ MarkOverdue \/ Tick \/ UNCHANGED vars
  <2>1. UNCHANGED <<payments, request>>
    BY <1>4 DEF Issue, CreateCheckout, MarkOverdue, Tick, vars
  <2>2. SamePaid
    <3>1. CASE Issue \/ MarkOverdue
      BY <3>1, RowsKeepPaid DEF BalanceHolds
    <3>2. CASE CreateCheckout \/ Tick \/ UNCHANGED vars
      BY <3>2, RowsKeepPaid DEF BalanceHolds, CreateCheckout, Tick, vars
    <3> QED  BY <1>4, <3>1, <3>2
  <2>3. \A s \in Slots : PaidIsFresh(request[s])'
    <3> TAKE s \in Slots
    <3> PICK q \in RequestRecords : q = request[s]
      BY DEF LedgerInvariant, TypeOK
    <3>1. PaidIsFresh(q)'
      BY <2>1, <2>2, PaidStaysFresh DEF BalanceHolds
    <3> QED  BY <2>1, <3>1
  <2> QED  BY <2>1, <2>2, <2>3, SameBalance DEF BalanceHolds
<1> QED  BY <1>1, <1>2, <1>3, <1>4 DEF Next

(* and they are when nothing is paid yet.                                  *)
LEMMA InitialBalance == Init => BalanceHolds
<1> SUFFICES ASSUME Init PROVE BalanceHolds
  OBVIOUS
<1>1. \A i \in Invoices : invoice[i].paid = 0 /\ payments[i] = <<>>
  BY DEF Init, Unissued
<1>2. LedgerBalanced
  BY <1>1, TotalOfNone DEF LedgerBalanced, Registered
<1>3. \A s \in Slots : PaidIsFresh(request[s])
  BY DEF Init, NoRequest, PaidIsFresh
<1> QED  BY <1>2, <1>3 DEF BalanceHolds

(* Where requests do not overlap, paidAmount is at all times the sum of    *)
(* the payments registered on the invoice, through manual payments, cards, *)
(* collections, returns, rectifications and deletions.                     *)
THEOREM BooksBalanceAlone ==
  ASSUME Alone
  PROVE  Spec => []LedgerBalanced
<1>1. LedgerInvariant /\ BalanceHolds /\ [Next]_vars => BalanceHolds'
  BY EveryStepBalances
<1>2. BalanceHolds => LedgerBalanced
  BY DEF BalanceHolds
<1> QED  BY <1>1, <1>2, InitialBalance, LedgerInvariantHolds, PTL DEF Spec
=============================================================================
