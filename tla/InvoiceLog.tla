----------------------------- MODULE InvoiceLog -----------------------------
(***************************************************************************)
(* What the invoicing of one academy promises the tax office, and nothing  *)
(* else: an append-only log of invoices, numbered 1, 2, 3, ... without a   *)
(* gap, in which every entry carries the fingerprint of the entry before   *)
(* it.  InvoiceChain, with its concurrent transactions, row locks,         *)
(* rollbacks and deadlocks, implements this specification.                 *)
(***************************************************************************)
EXTENDS Naturals, Sequences

CONSTANTS Amounts,          \* the amounts an invoice can have
          TaxIds,           \* the fiscal identities the academy can have
          NoHash,           \* what the first invoice has for a predecessor
          Hash(_, _, _, _)  \* fingerprint of issuer, number, amount, previous

VARIABLE log

(* The fingerprint the next entry must carry.                              *)
Tip == IF log = <<>> THEN NoHash ELSE log[Len(log)].hash

Entry(taxId, amount) ==
  [number       |-> Len(log) + 1,
   amount       |-> amount,
   previousHash |-> Tip,
   hash         |-> Hash(taxId, Len(log) + 1, amount, Tip)]

Init == log = <<>>

Issue == \E taxId \in TaxIds, amount \in Amounts :
            log' = Append(log, Entry(taxId, amount))

Spec == Init /\ [][Issue]_log
=============================================================================
