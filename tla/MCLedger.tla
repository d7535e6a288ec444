------------------------------ MODULE MCLedger ------------------------------
(* Instances of Ledger for TLC.  Requests and invoices are interchangeable *)
(* in every safety property.                                               *)
EXTENDS LedgerAudit, TLC
Symmetry == Permutations(Slots) \cup Permutations(Invoices)
=============================================================================
