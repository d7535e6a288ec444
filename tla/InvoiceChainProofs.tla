------------------------- MODULE InvoiceChainProofs -------------------------
(***************************************************************************)
(* Proofs about InvoiceChain, for any set of requests, amounts, fiscal     *)
(* identities and billing periods.                                         *)
(*                                                                         *)
(* The inductive invariant is IInv: the rows keep their shape (Shape,      *)
(* TypeOK), the row lock makes the version a transaction read the current  *)
(* one (NoLostUpdate), and with that the committed invoices are numbered   *)
(* (Correlative) and linked (Linked, TipIsLast).                           *)
(***************************************************************************)
EXTENDS InvoiceChain, SequenceTheorems, TLAPS

(* Shapes only: nothing is said of what a hash is.                         *)
Shape ==
  /\ tenant = [counter |-> tenant.counter, lastHash |-> tenant.lastHash,
               taxId |-> tenant.taxId]
  /\ \E S : invoices \in Seq(S)
  /\ read = [r \in Requests |-> read[r]]

IInv == Shape /\ TypeOK /\ NoLostUpdate /\ Correlative /\ Linked /\ TipIsLast

-----------------------------------------------------------------------------
(* Appending one element, whatever the elements are.                       *)
LEMMA AppendShape ==
  ASSUME NEW s, \E S : s \in Seq(S), NEW e
  PROVE  /\ \E S : Append(s, e) \in Seq(S)
         /\ Len(s) \in Nat
         /\ Len(Append(s, e)) = Len(s) + 1
         /\ \A n \in 1..Len(s) : Append(s, e)[n] = s[n]
         /\ Append(s, e)[Len(s) + 1] = e
         /\ Append(s, e) # <<>>
         /\ s = <<>> <=> Len(s) = 0
<1>1. PICK S : s \in Seq(S)
  OBVIOUS
<1>2. s \in Seq(S \cup {e}) /\ e \in S \cup {e}
  BY <1>1
<1>3. Append(s, e) \in Seq(S \cup {e})
  BY <1>2, AppendProperties
<1> QED
  BY <1>2, <1>3, AppendProperties, EmptySeq, LenProperties

(* An academy without invoices satisfies the invariant.                    *)
LEMMA InitInvariant == Init => IInv
<1> SUFFICES ASSUME Init PROVE IInv
  OBVIOUS
<1>1. Shape
  <2>1. invoices \in Seq({})
    BY DEF Init
  <2> QED
    BY <2>1 DEF Init, Shape
<1>2. Len(invoices) = 0
  BY DEF Init
<1>3. TypeOK
  BY <1>2 DEF Init, TypeOK, NoArgs, Steps
<1>4. NoLostUpdate
  BY DEF Init, NoLostUpdate
<1>5. Correlative /\ Linked /\ TipIsLast
  BY <1>2 DEF Init, Correlative, Linked, TipIsLast
<1> QED
  BY <1>1, <1>3, <1>4, <1>5 DEF IInv

-----------------------------------------------------------------------------
(* A step that writes no committed row disturbs nothing that is said of    *)
(* the committed rows.                                                     *)
LEMMA CommittedUnchanged ==
  ASSUME IInv, UNCHANGED <<tenant, invoices, cancelled>>
  PROVE  Correlative' /\ Linked' /\ TipIsLast'
BY DEF IInv, Correlative, Linked, TipIsLast, computeInvoiceHash

(* Beginning a request takes no lock and writes no row.                    *)
LEMMA BeginStep ==
  ASSUME IInv, NEW r \in Requests, NEW first \in {"tenant", "invoice"},
         NEW kind \in {"create", "rectify", "return"},
         first = "invoice" => kind # "rectify",
         NEW amount \in Amounts, NEW period \in Periods \cup {NoPeriod},
         NEW target \in 0..Len(invoices), kind # "create" => target # 0,
         Begin(r, first, kind, amount, period, target)
  PROVE  IInv'
<1>1. Shape' /\ TypeOK'
  BY DEF Begin, IInv, Shape, TypeOK, Steps
<1>2. NoLostUpdate'
  BY DEF Begin, IInv, NoLostUpdate, TypeOK
<1> QED
  BY <1>1, <1>2, CommittedUnchanged DEF IInv, Begin

(* Reading the academy's row under its lock: the first UPDATE of           *)
(* createChainedInvoice.                                                   *)
LEMMA LockTenantStep ==
  ASSUME IInv, NEW r \in Requests, LockTenant(r) PROVE IInv'
<1>1. Shape' /\ TypeOK'
  BY DEF LockTenant, IInv, Shape, TypeOK, Steps
<1>2. NoLostUpdate'
  BY DEF LockTenant, TenantFree, IInv, NoLostUpdate, TypeOK, Shape
<1> QED
  BY <1>1, <1>2, CommittedUnchanged DEF IInv, LockTenant

(* Inserting the invoice shows nothing to others before the commit.        *)
LEMMA InsertStep ==
  ASSUME IInv, NEW r \in Requests, Insert(r) PROVE IInv'
<1>1. Shape' /\ TypeOK'
  BY DEF Insert, IInv, Shape, TypeOK, Steps
<1>2. NoLostUpdate'
  BY DEF Insert, IInv, NoLostUpdate, TypeOK
<1> QED
  BY <1>1, <1>2, CommittedUnchanged DEF IInv, Insert

(* Locking an invoice does not touch the chain.                            *)
LEMMA LockInvoiceStep ==
  ASSUME IInv, NEW r \in Requests, LockInvoice(r) PROVE IInv'
<1>1. Shape' /\ TypeOK'
  <2>1. Shape'
    BY DEF LockInvoice, IInv, Shape
  <2>2. pc' \in [Requests -> Steps] /\ \A u \in Requests : pc[u] = "new" <=> pc'[u] = "new"
    BY DEF LockInvoice, IInv, TypeOK, Steps
  <2>3. locks' \in [Requests -> SUBSET {"tenant", "invoice"}]
    BY DEF LockInvoice, IInv, TypeOK
  <2> QED
    BY <2>1, <2>2, <2>3 DEF LockInvoice, IInv, TypeOK
<1>2. NoLostUpdate'
  BY DEF LockInvoice, IInv, NoLostUpdate, TypeOK
<1> QED
  BY <1>1, <1>2, CommittedUnchanged DEF IInv, LockInvoice

(* Rolling back leaves the committed chain as it was.                      *)
LEMMA AbortStep ==
  ASSUME IInv, NEW r \in Requests, Active(r), Abort(r) PROVE IInv'
<1>1. Shape' /\ TypeOK'
  BY DEF Active, Abort, IInv, Shape, TypeOK, Steps
<1>2. NoLostUpdate'
  BY DEF Abort, IInv, NoLostUpdate, TypeOK
<1> QED
  BY <1>1, <1>2, CommittedUnchanged DEF IInv, Abort

(* Only the holder of the academy's lock can be at its commit, so it       *)
(* writes what follows the current row and appends one invoice to the log. *)
LEMMA CommitWrites ==
  ASSUME IInv, NEW r \in Requests, Commit(r)
  PROVE  LET row == InvoiceRow(tenant, args[r]) IN
         /\ "tenant" \in locks[r]
         /\ tenant' = NextTenant(tenant, args[r].amount)
         /\ tenant'.counter = tenant.counter + 1
         /\ tenant'.lastHash = row.hash
         /\ tenant'.taxId = tenant.taxId
         /\ row.number = Len(invoices) + 1
         /\ row.amount = args[r].amount
         /\ row.previousHash = tenant.lastHash
         /\ row.hash = computeInvoiceHash(tenant.taxId, row.number, row.amount,
                                          row.previousHash)
         /\ invoices' = Append(invoices, row)
<1>1. "tenant" \in locks[r] /\ read[r] = tenant
  BY DEF Commit, IInv, NoLostUpdate
<1>2. tenant' = NextTenant(tenant, args[r].amount)
  BY <1>1 DEF Commit
<1>3. DOMAIN tenant = {"counter", "lastHash", "taxId"}
  BY DEF IInv, Shape
<1>4. /\ tenant'.counter = tenant.counter + 1
      /\ tenant'.taxId = tenant.taxId
      /\ tenant'.lastHash = computeInvoiceHash(tenant.taxId, tenant.counter + 1,
                                               args[r].amount, tenant.lastHash)
  BY <1>2, <1>3 DEF NextTenant
<1>5. tenant.counter = Len(invoices)
  BY DEF IInv, Correlative
<1> QED
  BY <1>1, <1>2, <1>4, <1>5 DEF Commit, InvoiceRow

(* Committing appends one linked, numbered invoice and moves the tip to    *)
(* it.                                                                     *)
LEMMA CommitStep ==
  ASSUME IInv, NEW r \in Requests, Commit(r) PROVE IInv'
<1> DEFINE row == InvoiceRow(tenant, args[r])
           N   == Len(invoices)
<1>1. /\ "tenant" \in locks[r]
      /\ tenant'.counter = tenant.counter + 1
      /\ tenant'.lastHash = row.hash
      /\ tenant'.taxId = tenant.taxId
      /\ row.number = N + 1
      /\ row.previousHash = tenant.lastHash
      /\ row.hash = computeInvoiceHash(tenant.taxId, row.number, row.amount,
                                       row.previousHash)
      /\ invoices' = Append(invoices, row)
  BY CommitWrites
<1>2. tenant' = NextTenant(tenant, args[r].amount)
  BY CommitWrites
<1> HIDE DEF row
<1>3. /\ \E S : invoices' \in Seq(S)
      /\ N \in Nat /\ Len(invoices') = N + 1
      /\ \A n \in 1..N : invoices'[n] = invoices[n]
      /\ invoices'[N + 1] = row
      /\ invoices' # <<>>
      /\ invoices = <<>> <=> N = 0
  <2>1. \E S : invoices \in Seq(S)
    BY DEF IInv, Shape
  <2>2. /\ \E S : Append(invoices, row) \in Seq(S)
        /\ Len(invoices) \in Nat
        /\ Len(Append(invoices, row)) = Len(invoices) + 1
        /\ \A n \in 1..Len(invoices) : Append(invoices, row)[n] = invoices[n]
        /\ Append(invoices, row)[Len(invoices) + 1] = row
        /\ Append(invoices, row) # <<>>
        /\ invoices = <<>> <=> Len(invoices) = 0
    BY <2>1, AppendShape
  <2>3. invoices' = Append(invoices, row)
    BY <1>1
  <2> QED
    BY <2>2, <2>3, Zenon
<1> HIDE DEF N
<1>4. Shape'
  <2>1. tenant' = [counter |-> tenant'.counter, lastHash |-> tenant'.lastHash,
                   taxId |-> tenant'.taxId]
    BY <1>2 DEF NextTenant, IInv, Shape
  <2> QED
    BY <1>3, <2>1 DEF Shape, IInv, Commit
<1>5. TypeOK'
  <2>1. 0..N \subseteq 0..Len(invoices') /\ 1..N \subseteq 1..Len(invoices')
    BY <1>3
  <2>2. args[r].kind # "create" => args[r].target \in 1..N
    BY DEF IInv, TypeOK, N
  <2>3. cancelled' \subseteq 1..N
    BY <2>2 DEF Commit, IInv, TypeOK, N
  <2> QED
    BY <1>1, <1>3, <2>1, <2>3 DEF Commit, IInv, TypeOK, Steps, N
<1>6. NoLostUpdate'
  BY <1>1 DEF Commit, IInv, NoLostUpdate, TypeOK
<1>7. Correlative'
  BY <1>1, <1>3 DEF IInv, Correlative, N
<1>8. tenant.lastHash = IF N = 0 THEN NoHash ELSE invoices[N].hash
  BY <1>3 DEF IInv, TipIsLast, N
<1>9. Linked'
  <2> SUFFICES ASSUME NEW n \in 1..(N + 1)
      PROVE  /\ invoices'[n].previousHash =
                  IF n = 1 THEN NoHash ELSE invoices'[n - 1].hash
             /\ \E id \in TaxIds :
                  invoices'[n].hash = computeInvoiceHash(id, invoices'[n].number,
                        invoices'[n].amount, invoices'[n].previousHash)
    BY <1>3 DEF Linked, computeInvoiceHash
  <2>1. CASE n \in 1..N
    <3>1. n = 1 \/ (n # 1 /\ n - 1 \in 1..N)
      BY <1>3, <2>1
    <3> QED
      BY <1>3, <2>1, <3>1, ZenonT(60) DEF IInv, Linked, N
  <2>2. CASE n = N + 1
    <3>1. n = 1 \/ (n - 1 = N /\ N \in 1..N)
      BY <1>3, <2>2
    <3>2. tenant.taxId \in TaxIds
      BY DEF IInv, TypeOK
    <3> QED
      BY <1>1, <1>3, <1>8, <2>2, <3>1, <3>2
  <2> QED
    BY <1>3, <2>1, <2>2
<1>10. TipIsLast'
  BY <1>1, <1>3 DEF TipIsLast
<1> QED
  BY <1>4, <1>5, <1>6, <1>7, <1>9, <1>10 DEF IInv

(* The settings are written only while no transaction holds the row.       *)
LEMMA UpdateSettingsStep ==
  ASSUME IInv, UpdateSettings PROVE IInv'
<1>1. PICK id \in TaxIds : tenant' = [tenant EXCEPT !.taxId = id]
  BY DEF UpdateSettings
<1>2. /\ tenant'.counter = tenant.counter
      /\ tenant'.lastHash = tenant.lastHash
      /\ tenant'.taxId = id
      /\ tenant' = [counter |-> tenant'.counter, lastHash |-> tenant'.lastHash,
                    taxId |-> tenant'.taxId]
  BY <1>1 DEF IInv, Shape
<1>3. Shape' /\ TypeOK'
  BY <1>2 DEF UpdateSettings, IInv, Shape, TypeOK
<1>4. NoLostUpdate'
  BY DEF UpdateSettings, TenantFree, IInv, NoLostUpdate
<1>5. Correlative' /\ Linked' /\ TipIsLast'
  BY <1>2 DEF UpdateSettings, IInv, Correlative, Linked, TipIsLast,
              computeInvoiceHash
<1> QED
  BY <1>3, <1>4, <1>5 DEF IInv

(* Every step of every request keeps the invariant.                        *)
LEMMA StepInvariant == IInv /\ [Next]_vars => IInv'
<1> SUFFICES ASSUME IInv, [Next]_vars PROVE IInv'
  OBVIOUS
<1>1. ASSUME NEW r \in Requests, BeginCreate(r) PROVE IInv'
  <2>1. Len(invoices) \in Nat
    BY AppendShape DEF IInv, Shape
  <2> QED
    BY <1>1, <2>1, BeginStep DEF BeginCreate
<1>2. ASSUME NEW r \in Requests, BeginRectify(r) PROVE IInv'
  BY <1>2, BeginStep DEF BeginRectify
<1>3. ASSUME NEW r \in Requests, BeginReturn(r) PROVE IInv'
  BY <1>3, BeginStep DEF BeginReturn
<1>4. ASSUME NEW r \in Requests,
             InsertRefused(r) \/ DeadlockVictim(r) \/ Rollback(r)
      PROVE  IInv'
  BY <1>4, AbortStep
     DEF InsertRefused, DeadlockVictim, WaitsFor, Rollback, Active
<1>5. CASE UNCHANGED vars
  <2>1. Shape' /\ TypeOK' /\ NoLostUpdate'
    BY <1>5 DEF vars, IInv, Shape, TypeOK, NoLostUpdate
  <2> QED
    BY <1>5, <2>1, CommittedUnchanged DEF vars, IInv
<1> QED
  BY <1>1, <1>2, <1>3, <1>4, <1>5, LockTenantStep, InsertStep,
     LockInvoiceStep, CommitStep, UpdateSettingsStep DEF Next

(* The rows of the database keep their types in every reachable state.     *)
THEOREM TypeCorrect == Spec => []TypeOK
<1>1. IInv => TypeOK
  BY DEF IInv
<1> QED
  BY InitInvariant, StepInvariant, <1>1, PTL DEF Spec

(* The row lock on tenants, taken by the UPDATE that increments the        *)
(* counter, keeps every update of the counter and of lastInvoiceHash.      *)
THEOREM NothingLost == Spec => []NoLostUpdate
<1>1. IInv => NoLostUpdate
  BY DEF IInv
<1> QED
  BY InitInvariant, StepInvariant, <1>1, PTL DEF Spec

(* The numbering has no gaps and no repetitions, however many invoices are *)
(* issued at once and whichever of their transactions are rolled back.     *)
THEOREM NumberingIsCorrelative == Spec => []Correlative
<1>1. IInv => Correlative
  BY DEF IInv
<1> QED
  BY InitInvariant, StepInvariant, <1>1, PTL DEF Spec

(* The chain of hashes is linear and its tip is the academy's              *)
(* lastInvoiceHash.                                                        *)
THEOREM ChainIsLinear == Spec => [](Linked /\ TipIsLast)
<1>1. IInv => Linked /\ TipIsLast
  BY DEF IInv
<1> QED
  BY InitInvariant, StepInvariant, <1>1, PTL DEF Spec

-----------------------------------------------------------------------------
(* A sequence given by its elements, and the one that is one longer.       *)
LEMMA OneLonger ==
  ASSUME NEW N \in Nat, NEW f, NEW g,
         f = [n \in 1..N |-> f[n]], g = [n \in 1..(N + 1) |-> g[n]],
         \A n \in 1..N : g[n] = f[n]
  PROVE  /\ Len(f) = N
         /\ f = <<>> <=> N = 0
         /\ g = Append(f, g[N + 1])
<1> DEFINE S == {f[n] : n \in 1..N} \cup {g[n] : n \in 1..(N + 1)}
<1>1. f \in Seq(S) /\ Len(f) = N
  <2>1. f \in [1..N -> S]
    OBVIOUS
  <2> QED
    BY <2>1
<1>2. g \in Seq(S) /\ Len(g) = N + 1
  <2>1. g \in [1..(N + 1) -> S] /\ N + 1 \in Nat
    OBVIOUS
  <2> QED
    BY <2>1
<1>3. g[N + 1] \in S
  OBVIOUS
<1> HIDE DEF S
<1>4. /\ Append(f, g[N + 1]) \in Seq(S)
      /\ Len(Append(f, g[N + 1])) = N + 1
      /\ \A n \in 1..N : Append(f, g[N + 1])[n] = f[n]
      /\ Append(f, g[N + 1])[N + 1] = g[N + 1]
  BY <1>1, <1>3, AppendProperties
<1>5. \A n \in 1..(N + 1) : g[n] = Append(f, g[N + 1])[n]
  BY <1>4
<1>6. g = Append(f, g[N + 1])
  BY <1>2, <1>4, <1>5, SeqEqual
<1>7. f = <<>> <=> N = 0
  BY <1>1, EmptySeq
<1> QED
  BY <1>1, <1>6, <1>7

(* Without invoices the log is empty.                                      *)
LEMMA InitImplementsLog == Init => Log!Init
<1> SUFFICES ASSUME Init PROVE issued = <<>>
  BY DEF Log!Init
<1>1. 1..Len(invoices) = {}
  BY DEF Init
<1> QED
  BY <1>1 DEF issued

(* A commit appends one entry; every other step leaves the log alone.      *)
LEMMA CommitImplementsLog ==
  ASSUME IInv, NEW r \in Requests, Commit(r) PROVE Log!Issue
<1> DEFINE row == InvoiceRow(tenant, args[r])
           N   == Len(invoices)
           amount == args[r].amount
<1>1. /\ row.number = N + 1
      /\ row.amount = amount
      /\ row.previousHash = tenant.lastHash
      /\ row.hash = computeInvoiceHash(tenant.taxId, N + 1, amount,
                                       tenant.lastHash)
      /\ invoices' = Append(invoices, row)
  BY CommitWrites
<1> HIDE DEF row
<1>2. /\ N \in Nat
      /\ Len(invoices') = N + 1
      /\ \A n \in 1..N : invoices'[n] = invoices[n]
      /\ invoices'[N + 1] = row
      /\ invoices = <<>> <=> N = 0
  <2>1. \E S : invoices \in Seq(S)
    BY DEF IInv, Shape
  <2>2. /\ Len(invoices) \in Nat
        /\ Len(Append(invoices, row)) = Len(invoices) + 1
        /\ \A n \in 1..Len(invoices) : Append(invoices, row)[n] = invoices[n]
        /\ Append(invoices, row)[Len(invoices) + 1] = row
        /\ invoices = <<>> <=> Len(invoices) = 0
    BY <2>1, AppendShape
  <2>3. invoices' = Append(invoices, row)
    BY <1>1
  <2> QED
    BY <2>2, <2>3, Zenon
<1> HIDE DEF N
<1>3. /\ issued = [n \in 1..N |-> issued[n]]
      /\ issued' = [n \in 1..(N + 1) |-> issued'[n]]
      /\ \A n \in 1..N : issued'[n] = issued[n]
      /\ \A n \in 1..N : issued[n].hash = invoices[n].hash
      /\ issued'[N + 1] = [number |-> row.number, amount |-> row.amount,
                           previousHash |-> row.previousHash,
                           hash |-> row.hash]
  BY <1>2 DEF issued, N
<1>4. /\ Len(issued) = N
      /\ issued = <<>> <=> N = 0
      /\ issued' = Append(issued, issued'[N + 1])
  BY <1>2, <1>3, OneLonger
<1>5. tenant.lastHash = Log!Tip
  BY <1>2, <1>3, <1>4 DEF IInv, TipIsLast, Log!Tip, N
<1>6. issued'[N + 1] = Log!Entry(tenant.taxId, amount)
  BY <1>1, <1>3, <1>4, <1>5 DEF Log!Entry
<1>7. tenant.taxId \in TaxIds /\ amount \in Amounts
  BY DEF Commit, IInv, TypeOK
<1> QED
  BY <1>4, <1>6, <1>7 DEF Log!Issue

(* A commit issues one entry of the log; any other step is a stutter.      *)
LEMMA StepImplementsLog == IInv /\ [Next]_vars => [Log!Issue]_issued
<1> SUFFICES ASSUME IInv, [Next]_vars, ~ (\E r \in Requests : Commit(r))
             PROVE  issued' = issued
  BY CommitImplementsLog
<1>1. invoices' = invoices
  BY DEF Next, vars, BeginCreate, BeginRectify, BeginReturn, Begin, LockTenant,
         Insert, InsertRefused, LockInvoice, DeadlockVictim, Rollback, Abort,
         UpdateSettings
<1> QED
  BY <1>1 DEF issued

(* The concurrent transactions implement the append-only, hash-linked,     *)
(* correlatively numbered log.                                             *)
THEOREM ChainImplementsLog == Spec => ImplementsLog
<1> QED
  BY InitInvariant, StepInvariant, InitImplementsLog, StepImplementsLog, PTL
     DEF Spec, ImplementsLog, Log!Spec
=============================================================================
