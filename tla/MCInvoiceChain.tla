--------------------------- MODULE MCInvoiceChain ---------------------------
(* Instances of InvoiceChain for TLC; the .cfg files give the constants.   *)
EXTENDS InvoiceChain
=============================================================================
