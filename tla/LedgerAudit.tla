---------------------------- MODULE LedgerAudit -----------------------------
(***************************************************************************)
(* What an auditor would ask of Ledger: that its columns agree with the    *)
(* payments behind them and that nothing is charged or returned twice.     *)
(* The code makes these true when requests are served one at a     *)
(* time; most of them do not survive two requests in progress at once,     *)
(* because the checks are made before the transaction.                     *)
(***************************************************************************)
EXTENDS Ledger

(* What payments add up to, after each of them.                            *)
RunningTotal(paid) ==
  LET sum[k \in 0..Len(paid)] == IF k = 0 THEN 0 ELSE sum[k - 1] + paid[k].amount
  IN  sum

Registered(i) == RunningTotal(payments[i])[Len(payments[i])]

(* paidAmount is the sum of the payments registered on the invoice.        *)
LedgerBalanced == \A i \in Invoices : invoice[i].paid = Registered(i)

(* A Stripe checkout is recorded once, however often its webhook arrives.  *)
CardRecordedOnce ==
  \A f \in References, i \in Invoices :
    \A k, m \in 1..Len(payments[i]) :
      f \in payments[i][k].source \cap payments[i][m].source => k = m

(* Every direct debit on the books is the payment of a receipt of the      *)
(* remittance it came from, so that the bank's return can undo it.         *)
DirectDebitHasReceipt ==
  \A i \in Invoices, r \in Remittances :
    \A k \in 1..Len(payments[i]) :
      r \in payments[i][k].source => item[r][i].payment = k

(* A rectified invoice stays cancelled: the rectification replaced it.     *)
RectifiedIsCancelled ==
  \A m, n \in Invoices :
    n \in invoice[m].rectifies => invoice[n].status = "CANCELLED"

(* An unpaid invoice past its due date does not stay unflagged.            *)
OverdueIsFlagged ==
  \A i \in Invoices :
    invoice[i].status \in {"PENDING", "PARTIAL"} /\ Past(invoice[i].due)
      ~> ~ (/\ invoice[i].status \in {"PENDING", "PARTIAL"}
            /\ Past(invoice[i].due))
=============================================================================
