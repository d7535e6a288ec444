---------------------------- MODULE InvoiceChain ----------------------------
(***************************************************************************)
(* Issuing chained (Veri*factu) invoices in one academy: the database      *)
(* transactions around createChainedInvoice, statement by statement, under *)
(* READ COMMITTED with row locks.                                          *)
(*                                                                         *)
(* A request is one HTTP call or cron step that issues an invoice, in a    *)
(* transaction of one of three shapes:                                     *)
(*   create   academy's row, insert                (create, monthly        *)
(*            billing, group charges, enrollment fees)                     *)
(*   rectify  academy's row, insert, original's row (createRectification,  *)
(*            whose checks are made before the transaction starts)         *)
(*   return   invoice's row, academy's row, insert (returnReceipt with a   *)
(*            bank fee)                                                    *)
(* The last two take their two row locks in opposite orders, so PostgreSQL *)
(* may have to break a deadlock.                                           *)
(*                                                                         *)
(* tenant, invoices and cancelled are the committed rows.  What a          *)
(* transaction has written and not committed follows from args and read,   *)
(* and no one else sees it: the rows are locked, and PostgreSQL shows      *)
(* nobody uncommitted data.                                                *)
(***************************************************************************)
EXTENDS Naturals, Sequences

CONSTANTS Requests,   \* the requests made, one transaction each
          Amounts,    \* invoice amounts
          TaxIds,     \* values of tenants.taxId
          Periods,    \* unique keys (enrollmentId, billingPeriod)
          NoPeriod,   \* an invoice that has no billing period
          NoHash      \* lastInvoiceHash of an academy without invoices

ASSUME NoPeriodAssumption == NoPeriod \notin Periods

VARIABLES tenant,      \* [counter, lastHash, taxId]: the academy's row
          invoices,    \* the committed invoices, in commit order
          cancelled,   \* positions of the invoices with status CANCELLED
          pc,          \* what each request does next
          args,        \* what each request asks for
          locks,       \* the kinds of row each transaction has locked
          read         \* the academy's row as each transaction read it

vars == <<tenant, invoices, cancelled, pc, args, locks, read>>

(* SHA-256 of the joined fields, taken as collision-free.                  *)
computeInvoiceHash(taxId, number, amount, previousHash) ==
  <<taxId, number, amount, previousHash>>

(* Mutant: the counter goes down.                                          *)
NextTenantDown(row, amount) ==
  [row EXCEPT !.counter = @ - 1,
              !.lastHash = computeInvoiceHash(row.taxId, row.counter + 1,
                                              amount, row.lastHash)]

(* The academy's row after one more invoice, as its transaction writes it. *)
NextTenant(row, amount) ==
  [row EXCEPT !.counter = @ + 1,
              !.lastHash = computeInvoiceHash(row.taxId, row.counter + 1,
                                              amount, row.lastHash)]

(* Mutants: every invoice is inserted as if it were the first one; its     *)
(* hash is computed as if it were.                                         *)
InvoiceRowUnchained(row, a) ==
  [number |-> row.counter + 1, amount |-> a.amount, period |-> a.period,
   rectifies |-> IF a.kind = "rectify" THEN a.target ELSE 0,
   previousHash |-> NoHash, hash |-> NextTenant(row, a.amount).lastHash]

(* The invoice that goes with that row; rectifies is 0 for an ORIGINAL.    *)
InvoiceRow(row, a) ==
  [number       |-> row.counter + 1,
   amount       |-> a.amount,
   period       |-> a.period,
   rectifies    |-> IF a.kind = "rectify" THEN a.target ELSE 0,
   previousHash |-> row.lastHash,
   hash         |-> NextTenant(row, a.amount).lastHash]

NoArgs == [kind |-> "create", amount |-> 0, period |-> NoPeriod, target |-> 0]

Init == /\ tenant \in [counter : {0}, lastHash : {NoHash}, taxId : TaxIds]
        /\ invoices = <<>>
        /\ cancelled = {}
        /\ pc = [r \in Requests |-> "new"]
        /\ args = [r \in Requests |-> NoArgs]
        /\ locks = [r \in Requests |-> {}]
        /\ read = [r \in Requests |-> tenant]

-----------------------------------------------------------------------------
(* Beginning a request.                                                    *)

Begin(r, first, kind, amount, period, target) ==
  /\ pc[r] = "new"
  /\ pc' = [pc EXCEPT ![r] = first]
  /\ args' = [args EXCEPT ![r] = [kind |-> kind, amount |-> amount,
                                  period |-> period, target |-> target]]
  /\ UNCHANGED <<tenant, invoices, cancelled, locks, read>>

BeginCreate(r) ==
  \E amount \in Amounts, period \in Periods \cup {NoPeriod} :
    Begin(r, "tenant", "create", amount, period, 0)

(* createRectification reads the original and looks for an earlier         *)
(* rectification before it opens its transaction.                          *)
BeginRectify(r) ==
  \E amount \in Amounts, n \in 1..Len(invoices) :
    /\ invoices[n].rectifies = 0
    /\ n \notin cancelled
    /\ \A m \in 1..Len(invoices) : invoices[m].rectifies # n
    /\ Begin(r, "tenant", "rectify", amount, NoPeriod, n)

BeginReturn(r) ==
  \E fee \in Amounts, n \in 1..Len(invoices) :
    Begin(r, "invoice", "return", fee, NoPeriod, n)

-----------------------------------------------------------------------------
(* The statements of a transaction.                                        *)

(* Mutant: the academy's row is read without its lock.                     *)
TenantUnlocked == TRUE

TenantFree == \A r \in Requests : "tenant" \notin locks[r]

RowFree(n) ==
  \A r \in Requests : "invoice" \in locks[r] => args[r].target # n

(* UPDATE tenants SET invoiceCounter = invoiceCounter + 1 ... RETURNING:   *)
(* waits for the row, then sees its last committed version.  The hash and  *)
(* the second UPDATE follow under the same lock.                           *)
LockTenant(r) ==
  /\ pc[r] = "tenant"
  /\ TenantFree
  /\ pc' = [pc EXCEPT ![r] = "insert"]
  /\ locks' = [locks EXCEPT ![r] = @ \cup {"tenant"}]
  /\ read' = [read EXCEPT ![r] = tenant]
  /\ UNCHANGED <<tenant, invoices, cancelled, args>>

PeriodFree(period) ==
  period = NoPeriod
    \/ \A n \in 1..Len(invoices) : invoices[n].period # period

(* INSERT INTO invoices; the unique (enrollmentId, billingPeriod) may      *)
(* refuse it, which throws out of the transaction.                         *)
Insert(r) ==
  /\ pc[r] = "insert"
  /\ PeriodFree(args[r].period)
  /\ pc' = [pc EXCEPT ![r] = IF args[r].kind = "rectify" THEN "invoice"
                                                         ELSE "commit"]
  /\ UNCHANGED <<tenant, invoices, cancelled, args, locks, read>>

(* UPDATE invoices: the original of a rectification (last statement) or    *)
(* the invoice of a returned receipt (first statements).                   *)
LockInvoice(r) ==
  /\ pc[r] = "invoice"
  /\ RowFree(args[r].target)
  /\ pc' = [pc EXCEPT ![r] = IF args[r].kind = "rectify" THEN "commit"
                                                         ELSE "tenant"]
  /\ locks' = [locks EXCEPT ![r] = @ \cup {"invoice"}]
  /\ UNCHANGED <<tenant, invoices, cancelled, args, read>>

(* A returned receipt's invoice gets a status from computeStatus, which is *)
(* never CANCELLED.                                                        *)
Commit(r) ==
  /\ pc[r] = "commit"
  /\ tenant' = NextTenant(read[r], args[r].amount)
  /\ invoices' = Append(invoices, InvoiceRow(read[r], args[r]))
  /\ cancelled' =
       CASE args[r].kind = "rectify" -> cancelled \cup {args[r].target}
         [] args[r].kind = "return"  -> cancelled \ {args[r].target}
         [] OTHER                    -> cancelled
  /\ pc' = [pc EXCEPT ![r] = "committed"]
  /\ locks' = [locks EXCEPT ![r] = {}]
  /\ UNCHANGED <<args, read>>

Active(r) == pc[r] \in {"tenant", "insert", "invoice", "commit"}

(* Mutant: the counter is incremented outside the transaction.             *)
AbortLeavesGap(r) ==
  /\ pc' = [pc EXCEPT ![r] = "aborted"]
  /\ locks' = [locks EXCEPT ![r] = {}]
  /\ tenant' = IF "tenant" \in locks[r]
                 THEN [tenant EXCEPT !.counter = @ + 1] ELSE tenant
  /\ UNCHANGED <<invoices, cancelled, args, read>>

Abort(r) ==
  /\ pc' = [pc EXCEPT ![r] = "aborted"]
  /\ locks' = [locks EXCEPT ![r] = {}]
  /\ UNCHANGED <<tenant, invoices, cancelled, args, read>>

(* The insert breaks the unique index (Prisma's P2002).                    *)
InsertRefused(r) ==
  /\ pc[r] = "insert"
  /\ ~ PeriodFree(args[r].period)
  /\ Abort(r)

WaitsFor(r, u) ==
  \/ pc[r] = "tenant" /\ "tenant" \in locks[u]
  \/ /\ pc[r] = "invoice"
     /\ "invoice" \in locks[u]
     /\ args[r].target = args[u].target

(* Mutant: nobody breaks the cycle.                                        *)
DeadlockForEver(r) == FALSE

(* PostgreSQL breaks a cycle of waits by failing one of its transactions.  *)
(* There is one academy row, so every cycle has two transactions.          *)
DeadlockVictim(r) ==
  /\ \E u \in Requests \ {r} : WaitsFor(r, u) /\ WaitsFor(u, r)
  /\ Abort(r)

(* The process dies, the connection drops or Prisma's transaction timeout  *)
(* expires: the database rolls the transaction back.                       *)
Rollback(r) == Active(r) /\ Abort(r)

(* SettingsService.update writes the academy's row, in a statement of its  *)
(* own that waits for the same lock.                                       *)
UpdateSettings ==
  /\ TenantFree
  /\ \E id \in TaxIds : tenant' = [tenant EXCEPT !.taxId = id]
  /\ UNCHANGED <<invoices, cancelled, pc, args, locks, read>>

-----------------------------------------------------------------------------
Statement(r) ==
  LockTenant(r) \/ Insert(r) \/ InsertRefused(r) \/ LockInvoice(r)
    \/ Commit(r) \/ DeadlockVictim(r)

Next ==
  \/ \E r \in Requests : \/ BeginCreate(r) \/ BeginRectify(r) \/ BeginReturn(r)
                         \/ LockTenant(r) \/ Insert(r) \/ InsertRefused(r)
                         \/ LockInvoice(r) \/ Commit(r)
                         \/ DeadlockVictim(r) \/ Rollback(r)
  \/ UpdateSettings

(* The database answers every statement that waits for nothing, and        *)
(* detects every deadlock.  Nothing obliges a client to begin a request,   *)
(* nor a transaction to be rolled back by accident.                        *)
Fairness == \A r \in Requests : WF_vars(Statement(r))

Spec == Init /\ [][Next]_vars /\ Fairness

-----------------------------------------------------------------------------
Steps == {"new", "tenant", "insert", "invoice", "commit", "committed",
          "aborted"}

(* Rows have their types, and every reference to an invoice (of a request  *)
(* or of a cancellation) is to one that is committed.                      *)
TypeOK ==
  /\ tenant.counter \in Nat /\ tenant.taxId \in TaxIds
  /\ cancelled \subseteq 1..Len(invoices)
  /\ pc \in [Requests -> Steps]
  /\ args \in [Requests -> [kind   : {"create", "rectify", "return"},
                            amount : Amounts \cup {0},
                            period : Periods \cup {NoPeriod},
                            target : 0..Len(invoices)]]
  /\ \A r \in Requests : /\ args[r].kind # "create" => args[r].target # 0
                         /\ pc[r] # "new" => args[r].amount \in Amounts
  /\ locks \in [Requests -> SUBSET {"tenant", "invoice"}]
  /\ DOMAIN read = Requests

(* One transaction at a time holds the academy's row, and the version it   *)
(* read when it took the lock is still the committed one when it writes:   *)
(* no update of the counter or of lastInvoiceHash is lost.                 *)
NoLostUpdate ==
  \A r \in Requests :
    /\ pc[r] \in {"insert", "commit"} => "tenant" \in locks[r]
    /\ pc[r] = "invoice" /\ args[r].kind = "rectify"
         => "tenant" \in locks[r]
    /\ "tenant" \in locks[r]
         => /\ read[r] = tenant
            /\ \A u \in Requests : "tenant" \in locks[u] => u = r

(* The numbering is correlative: the n-th invoice to commit has number n   *)
(* and the counter counts exactly the committed invoices, whatever was     *)
(* rolled back, refused or killed by a deadlock on the way.                *)
Correlative ==
  /\ tenant.counter = Len(invoices)
  /\ \A n \in 1..Len(invoices) : invoices[n].number = n

(* The chain is linear: every invoice holds the hash of the one before it, *)
(* and its own hash covers its number, amount and predecessor.             *)
Linked ==
  \A n \in 1..Len(invoices) :
    /\ invoices[n].previousHash = IF n = 1 THEN NoHash ELSE invoices[n - 1].hash
    /\ \E id \in TaxIds :
         invoices[n].hash = computeInvoiceHash(id, invoices[n].number,
                                invoices[n].amount, invoices[n].previousHash)

(* lastInvoiceHash is the hash of the last invoice that committed: the     *)
(* next one will chain onto it.                                            *)
TipIsLast ==
  tenant.lastHash = IF invoices = <<>> THEN NoHash
                                       ELSE invoices[Len(invoices)].hash

(* Every transaction that begins ends, in a commit or a rollback: the two  *)
(* lock orders of rectify and return cannot hang the invoicing.            *)
EveryTransactionEnds ==
  \A r \in Requests : Active(r) ~> pc[r] \in {"committed", "aborted"}

(* The issued invoices are the append-only log of InvoiceLog.              *)
issued == [n \in 1..Len(invoices) |->
             [number       |-> invoices[n].number,
              amount       |-> invoices[n].amount,
              previousHash |-> invoices[n].previousHash,
              hash         |-> invoices[n].hash]]

Log == INSTANCE InvoiceLog WITH Hash <- computeInvoiceHash, log <- issued

ImplementsLog == Log!Spec

=============================================================================
