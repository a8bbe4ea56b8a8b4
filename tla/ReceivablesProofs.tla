-------------------------- MODULE ReceivablesProofs -------------------------
(***************************************************************************)
(* What an invoice has been paid, what its status tells and how often it is *)
(* credited, for any sessions, payments, invoices, amounts and bounds.  The *)
(* invariant follows a payment from the plan it was read into, statement by *)
(* statement, to its commit: a row a transaction has updated is locked, so  *)
(* what the row adds to the committed one stays true until then.            *)
(***************************************************************************)
EXTENDS Receivables, TableTheorems

Row == [paid : Nat, status : OPEN \cup {"paid", "credited"}]
Statements == [op : {"apply"}, inv : Invoices, n : Nat]
              \cup [op : {"credit", "overdue"}, inv : Invoices]

(* The status of a row agrees with its balance, as StatusTellsBalance says.  *)
RowTells(i, r) ==
    /\ r \in Row
    /\ r.status = "paid" => r.paid >= gross[i]
    /\ r.status = "partly_paid" => 0 < r.paid /\ r.paid < gross[i]
    /\ r.status = "overdue" => i \in late /\ r.paid < gross[i]
    /\ r.paid >= gross[i] => r.status \in {"paid", "credited"} \/ i \in overwritten

(* A row written over one that is credited is credited, or its status lost.  *)
Keeps(i, r) == r.status = "credited" \/ invoice[i].status # "credited" \/ i \in overwritten

-----------------------------------------------------------------------------
(* A transaction that does D has written W and has the statements td to go.  *)

(* Each allocation is applied once; on an invoice that no other payment was   *)
(* planned for it is within what is owed.                                    *)
PayJob(D, W, td) ==
    /\ D.kind = "pay"
    /\ D.payment \in Payments \ DOMAIN payment
    /\ D.plan \in [Invoices -> Nat]
    /\ \A k \in DOMAIN td : /\ td[k].op = "apply"
                            /\ td[k].inv \in paidBy(D.plan) \ DOMAIN W
                            /\ td[k].n = D.plan[td[k].inv]
    /\ \A j, k \in DOMAIN td : td[j].inv = td[k].inv => j = k
    /\ \A i \in paidBy(D.plan) : i \in DOMAIN W \/ \E k \in DOMAIN td : td[k].inv = i
    /\ \A i \in DOMAIN W : i \in paidBy(D.plan) /\ W[i].paid = invoice[i].paid + D.plan[i]
    /\ \A i \in Invoices \ raced : invoice[i].paid + D.plan[i] <= gross[i]

CreditJob(D, W, td) ==
    /\ D.kind = "credit"
    /\ D.inv \in Invoices
    /\ \/ td = <<[op |-> "credit", inv |-> D.inv]>> /\ DOMAIN W = {}
       \/ /\ td = <<>> /\ DOMAIN W = {D.inv}
          /\ W[D.inv].status = "credited" /\ W[D.inv].paid = invoice[D.inv].paid
          /\ credits[D.inv] = 0 \/ D.inv \in overwritten

SweepJob(D, W, td) ==
    /\ D.kind = "sweep"
    /\ \A k \in DOMAIN td : td[k].op = "overdue" /\ td[k].inv \in Invoices
    /\ \A i \in DOMAIN W : W[i].paid = invoice[i].paid

IdleJob(D, W, td) == D = Idle /\ td = <<>> /\ DOMAIN W = {}

Job(D, W, td) ==
    /\ td \in Seq(Statements)
    /\ DOMAIN W \subseteq Invoices
    /\ \A i \in DOMAIN W : RowTells(i, W[i]) /\ Keeps(i, W[i])
    /\ IdleJob(D, W, td) \/ PayJob(D, W, td) \/ CreditJob(D, W, td) \/ SweepJob(D, W, td)

(* Payments at once are of two sessions, and what both pay is raced.         *)
Rivals(C, D) ==
    C.kind = "pay" /\ D.kind = "pay" =>
        C.payment # D.payment /\ paidBy(C.plan) \cap paidBy(D.plan) \subseteq raced

-----------------------------------------------------------------------------
Types ==
    /\ DOMAIN payment \subseteq Payments
    /\ \A p \in DOMAIN payment : payment[p] \in [Invoices -> Nat]
    /\ invoice \in [Invoices -> Row]
    /\ credits \in [Invoices -> Nat]
    /\ doing = [t \in Tx |-> doing[t]]
    /\ work = [t \in Tx |-> work[t]]
    /\ todo = [t \in Tx |-> todo[t]]

Rows == \A i \in Invoices : RowTells(i, invoice[i])
Jobs == \A t \in Tx : Job(doing[t], work[t], todo[t])
Locks == \A t, u \in Tx : t # u => DOMAIN work[t] \cap DOMAIN work[u] = {}
Payers == /\ \A t, u \in Tx : t # u => Rivals(doing[t], doing[u])
          /\ \A t \in Tx : doing[t].kind = "pay" => t \in Sessions
Credited ==
    \A i \in Invoices :
        /\ credits[i] >= 1 => invoice[i].status = "credited" \/ i \in overwritten
        /\ credits[i] > 1 => i \in overwritten

IInv == Types /\ Rows /\ Jobs /\ Locks /\ Payers /\ PaidIsAllocated /\ OverpaidHasCause /\ Credited

-----------------------------------------------------------------------------
LEMMA InvoiceFacts ==
    /\ IsFiniteSet(Invoices)
    /\ \A i \in Invoices : gross[i] \in Nat \ {0} /\ i \in Nat
    /\ \A p \in Payments : amount[p] \in Nat
<1>1. PICK n \in Nat : Invoices = 1 .. n
  BY ReceivablesAssumption DEF Invoices
<1>2. IsFiniteSet(1 .. n)
  BY FS_Interval
<1>3. \A i \in Invoices : gross[i] \in Nat \ {0}
  BY ReceivablesAssumption DEF Invoices
<1> QED
  BY <1>1, <1>2, <1>3, ReceivablesAssumption

LEMMA InitIInv == Init => IInv
<1> SUFFICES ASSUME Init PROVE IInv
  OBVIOUS
<1>0. DOMAIN Nothing = {}
  BY DEF Nothing
<1>1. Types
  BY <1>0 DEF Init, Types, Row, OPEN
<1>2. Rows
  BY InvoiceFacts DEF Init, Rows, RowTells, Row, OPEN
<1>3. Jobs
  BY <1>0 DEF Init, Jobs, Job, IdleJob, Idle, Statements
<1>4. Locks /\ Payers
  BY <1>0 DEF Init, Locks, Payers, Rivals, Idle
<1>5. PaidIsAllocated
  <2> SUFFICES ASSUME NEW i \in Invoices
               PROVE  invoice[i].paid = Total([p \in Payments |-> applied(p, i)])
    BY DEF PaidIsAllocated
  <2>1. [p \in Payments |-> applied(p, i)] = [p \in Payments |-> 0]
    BY <1>0 DEF Init, applied
  <2> QED
    BY <2>1, TotalZero DEF Init
<1>6. OverpaidHasCause /\ Credited
  BY InvoiceFacts DEF Init, OverpaidHasCause, Credited
<1> QED
  BY <1>1, <1>2, <1>3, <1>4, <1>5, <1>6 DEF IInv

-----------------------------------------------------------------------------
(* What is said of the rows and the requests stays while the tables do: the  *)
(* history only grows.                                                       *)
LEMMA TablesStay ==
    ASSUME IInv, UNCHANGED tables, raced \subseteq raced', overwritten \subseteq overwritten'
    PROVE  /\ Rows' /\ PaidIsAllocated' /\ OverpaidHasCause' /\ Credited'
           /\ \A D, W, td : Job(D, W, td) => Job(D, W, td)'
           /\ \A C, D : Rivals(C, D) => Rivals(C, D)'
<1>0. UNCHANGED <<invoice, late, payment, credits>>
  BY DEF tables
<1>1. Rows' /\ Credited' /\ OverpaidHasCause'
  BY <1>0 DEF IInv, Rows, RowTells, Credited, OverpaidHasCause
<1>2. PaidIsAllocated'
  BY <1>0 DEF IInv, PaidIsAllocated, applied
<1>3. ASSUME NEW D, NEW W, NEW td, Job(D, W, td) PROVE Job(D, W, td)'
  <2>1. \A i \in DOMAIN W : RowTells(i, W[i])' /\ Keeps(i, W[i])'
    BY <1>0, <1>3 DEF Job, RowTells, Keeps
  <2>2. IdleJob(D, W, td)' \/ PayJob(D, W, td)' \/ CreditJob(D, W, td)' \/ SweepJob(D, W, td)'
    BY <1>0, <1>3 DEF Job, IdleJob, PayJob, CreditJob, SweepJob
  <2> QED
    BY <1>3, <2>1, <2>2 DEF Job
<1>4. ASSUME NEW C, NEW D, Rivals(C, D) PROVE Rivals(C, D)'
  BY <1>4 DEF Rivals
<1> QED
  BY <1>1, <1>2, <1>3, <1>4

(* A transaction goes on with D, W and td.                                   *)
LEMMA WorkPreserves ==
    ASSUME IInv, UNCHANGED tables, raced \subseteq raced', overwritten \subseteq overwritten',
           NEW t \in Tx, NEW D, NEW W, NEW td,
           doing' = [doing EXCEPT ![t] = D], work' = [work EXCEPT ![t] = W],
           todo' = [todo EXCEPT ![t] = td],
           Job(D, W, td)',
           \A u \in Tx \ {t} : DOMAIN W \cap DOMAIN work[u] = {},
           D.kind = "pay" => t \in Sessions,
           \A u \in Tx \ {t} : (\A C : C = doing[u] => Rivals(D, C)' /\ Rivals(C, D)')
    PROVE  IInv'
<1>1. /\ doing'[t] = D /\ work'[t] = W /\ todo'[t] = td
      /\ \A u \in Tx \ {t} : doing'[u] = doing[u] /\ work'[u] = work[u] /\ todo'[u] = todo[u]
  BY DEF IInv, Types
<1>2. Types'
  BY DEF IInv, Types, tables
<1>3. Jobs'
  <2> SUFFICES ASSUME NEW u \in Tx PROVE Job(doing[u], work[u], todo[u])'
    BY DEF Jobs
  <2>1. CASE u = t
    BY <2>1, <1>1
  <2>2. CASE u # t
    BY <2>2, <1>1, TablesStay DEF IInv, Jobs
  <2> QED
    BY <2>1, <2>2
<1>4. Locks'
  <2> SUFFICES ASSUME NEW u \in Tx, NEW v \in Tx, u # v
               PROVE  DOMAIN work'[u] \cap DOMAIN work'[v] = {}
    BY DEF Locks
  <2>1. CASE u = t
    BY <2>1, <1>1
  <2>2. CASE v = t
    BY <2>2, <1>1
  <2>3. CASE u # t /\ v # t
    BY <2>3, <1>1 DEF IInv, Locks
  <2> QED
    BY <2>1, <2>2, <2>3
<1>5. Payers'
  <2>1. \A u \in Tx : doing'[u].kind = "pay" => u \in Sessions
    BY <1>1 DEF IInv, Payers
  <2>2. ASSUME NEW u \in Tx, NEW v \in Tx, u # v PROVE Rivals(doing[u], doing[v])'
    <3>1. CASE u = t
      BY <2>2, <3>1, <1>1
    <3>2. CASE v = t
      BY <2>2, <3>2, <1>1
    <3>3. CASE u # t /\ v # t
      BY <2>2, <3>3, <1>1, TablesStay DEF IInv, Payers
    <3> QED
      BY <3>1, <3>2, <3>3
  <2> QED
    BY <2>1, <2>2 DEF Payers
<1> QED
  BY <1>2, <1>3, <1>4, <1>5, TablesStay DEF IInv

(* A transaction that ends without a commit leaves nothing.                  *)
LEMMA EndPreserves ==
    ASSUME IInv, NEW t \in Tx, End(t), UNCHANGED tables, UNCHANGED <<raced, overwritten>>
    PROVE  IInv'
<1>0. DOMAIN Nothing = {}
  BY DEF Nothing
<1>1. Job(Idle, Nothing, <<>>)'
  BY <1>0 DEF Job, IdleJob, Idle, Statements
<1>2. Idle.kind # "pay"
  BY DEF Idle
<1>3. \A C : Rivals(Idle, C)' /\ Rivals(C, Idle)'
  BY <1>2 DEF Rivals
<1> HIDE DEF Idle, Nothing
<1> QED
  BY <1>0, <1>1, <1>2, <1>3, WorkPreserves DEF End

(* An idle transaction begins with nothing written.                          *)
LEMMA IdleHasNothing ==
    ASSUME IInv, NEW t \in Tx, doing[t] = Idle
    PROVE  DOMAIN work[t] = {}
<1>1. Job(doing[t], work[t], todo[t])
  BY DEF IInv, Jobs
<1> QED
  BY <1>1 DEF Job, IdleJob, PayJob, CreditJob, SweepJob, Idle

LEMMA BeginPreserves ==
    ASSUME IInv, NEW t \in Tx, NEW D, NEW td, Begin(t, D, td), raced \subseteq raced',
           \A W : DOMAIN W = {} => Job(D, W, td)',
           D.kind = "pay" => t \in Sessions,
           \A u \in Tx \ {t} : \A C : C = doing[u] => Rivals(D, C)' /\ Rivals(C, D)'
    PROVE  IInv'
<1>0. PICK W : W = work[t]
  OBVIOUS
<1>1. DOMAIN W = {}
  BY <1>0, IdleHasNothing DEF Begin
<1>2. /\ doing' = [doing EXCEPT ![t] = D] /\ todo' = [todo EXCEPT ![t] = td]
      /\ UNCHANGED tables /\ work' = work /\ overwritten' = overwritten
  BY DEF Begin
<1>3. work' = [work EXCEPT ![t] = W]
  BY <1>0, <1>2 DEF IInv, Types
<1>4. \A u \in Tx \ {t} : DOMAIN W \cap DOMAIN work[u] = {}
  BY <1>1
<1> QED
  BY <1>1, <1>2, <1>3, <1>4, WorkPreserves

-----------------------------------------------------------------------------
(* An ordering of a set of invoices has each of them once.                   *)
LEMMA SetToSeqsFacts ==
    ASSUME NEW S, S \subseteq Invoices, NEW seq \in SetToSeqs(S)
    PROVE  /\ seq \in Seq(S)
           /\ \A j, k \in DOMAIN seq : seq[j] = seq[k] => j = k
           /\ \A i \in S : \E k \in DOMAIN seq : seq[k] = i
<1> DEFINE n == Cardinality(S)
<1>1. IsFiniteSet(S)
  BY InvoiceFacts, FS_Subset
<1>2. n \in Nat
  BY <1>1, FS_CardinalityType
<1>3. seq \in [1 .. n -> S] /\ \A j, k \in 1 .. n : j # k => seq[j] # seq[k]
  BY DEF SetToSeqs
<1>4. IsFiniteSet(1 .. n) /\ Cardinality(1 .. n) = n
  <2>1. n \in Int /\ 1 \in Int
    BY <1>2
  <2> HIDE DEF n
  <2>2. IsFiniteSet(1 .. n) /\ Cardinality(1 .. n) = IF 1 > n THEN 0 ELSE n - 1 + 1
    BY <2>1, FS_Interval
  <2> QED
    BY <2>1, <2>2, <1>2
<1>5. seq \in Surjection(1 .. n, S)
  <2>1. seq \in Injection(1 .. n, S)
    BY <1>3 DEF Injection, IsInjective
  <2> QED
    BY <2>1, <1>1, <1>4, FS_Injection
<1>6. \A i \in S : \E k \in 1 .. n : seq[k] = i
  BY <1>5 DEF Surjection
<1> HIDE DEF n
<1> QED
  BY <1>2, <1>3, <1>6

(* What allocatePayment plans for an invoice is within what it is owed.      *)
LEMMA PlanFits ==
    ASSUME IInv, NEW n \in Nat
    PROVE  LET plan == allocatePayment(n)
           IN  /\ plan \in [Invoices -> Nat]
               /\ \A i \in paidBy(plan) : invoice[i].paid + plan[i] <= gross[i]
<1> DEFINE owed(i) == IF i \in openForCustomer THEN outstanding(i) ELSE 0
           elders(i) == [j \in Invoices |-> IF j < i THEN owed(j) ELSE 0]
           left(i) == n - Total(elders(i))
           plan == allocatePayment(n)
<1>1. plan = [i \in Invoices |-> IF left(i) <= 0 THEN 0
                                 ELSE IF left(i) < owed(i) THEN left(i) ELSE owed(i)]
  BY DEF allocatePayment
<1>2. \A i \in Invoices : invoice[i].paid \in Nat /\ gross[i] \in Nat
  BY InvoiceFacts DEF IInv, Types, Row
<1>3. \A i \in Invoices : owed(i) \in Nat /\ (owed(i) > 0 => owed(i) = gross[i] - invoice[i].paid)
  BY <1>2 DEF openForCustomer, outstanding
<1>4. \A i \in Invoices : left(i) \in Int
  <2> SUFFICES ASSUME NEW i \in Invoices PROVE left(i) \in Int
    OBVIOUS
  <2>1. elders(i) \in [Invoices -> Nat]
    BY <1>3
  <2> HIDE DEF elders
  <2>2. Total(elders(i)) \in Nat
    BY <2>1, InvoiceFacts, TotalType
  <2> QED
    BY <2>2
<1> HIDE DEF owed, left, plan
<1>5. plan \in [Invoices -> Nat]
  BY <1>1, <1>3, <1>4
<1>6. ASSUME NEW i \in paidBy(plan) PROVE invoice[i].paid + plan[i] <= gross[i]
  <2>1. i \in Invoices /\ plan[i] > 0
    BY DEF paidBy
  <2>2. plan[i] <= owed(i) /\ plan[i] \in Nat
    BY <1>1, <1>3, <1>4, <1>5, <2>1
  <2>3. owed(i) > 0
    BY <1>3, <2>1, <2>2
  <2> QED
    BY <1>2, <1>3, <2>1, <2>2, <2>3
<1> QED
  BY <1>5, <1>6 DEF plan

LEMMA RecordPaymentPreserves ==
    ASSUME IInv, NEW t \in Sessions, NEW p \in Payments, RecordPayment(t, p)
    PROVE  IInv'
<1>0. PICK plan : plan = allocatePayment(amount[p])
  OBVIOUS
<1> DEFINE D == [kind |-> "pay", payment |-> p, plan |-> plan]
<1>1. /\ plan \in [Invoices -> Nat]
      /\ \A i \in paidBy(plan) : invoice[i].paid + plan[i] <= gross[i]
  <2>1. amount[p] \in Nat
    BY InvoiceFacts
  <2> QED
    BY <2>1, <1>0, PlanFits
<1>2. /\ p \notin DOMAIN payment
      /\ \A u \in Tx : doing[u].kind = "pay" => doing[u].payment # p
      /\ raced' = raced \cup (paidBy(plan) \cap UNION {planned(u) : u \in Sessions})
  BY <1>0 DEF RecordPayment
<1>3. PICK seq \in SetToSeqs(paidBy(plan)) :
        Begin(t, D, [k \in DOMAIN seq |-> [op |-> "apply", inv |-> seq[k], n |-> plan[seq[k]]]])
  BY <1>0 DEF RecordPayment, ascending
<1> DEFINE td == [k \in DOMAIN seq |-> [op |-> "apply", inv |-> seq[k], n |-> plan[seq[k]]]]
<1>4. D.kind = "pay" /\ D.payment = p /\ D.plan = plan
  OBVIOUS
<1>5. /\ seq \in Seq(paidBy(plan))
      /\ \A j, k \in DOMAIN seq : seq[j] = seq[k] => j = k
      /\ \A i \in paidBy(plan) : \E k \in DOMAIN seq : seq[k] = i
  BY SetToSeqsFacts DEF paidBy
<1> HIDE DEF D
<1>6. /\ DOMAIN td = DOMAIN seq
      /\ \A k \in DOMAIN seq : td[k].op = "apply" /\ td[k].inv = seq[k] /\ td[k].n = plan[seq[k]]
  OBVIOUS
<1>7. td \in Seq(Statements)
  <2>1. \A k \in DOMAIN seq : seq[k] \in Invoices
    BY <1>5 DEF paidBy
  <2> QED
    BY <2>1, <1>1, <1>5 DEF Statements
<1> HIDE DEF td
<1>8. /\ UNCHANGED <<invoice, payment>> /\ raced \subseteq raced' /\ doing[t] = Idle
  BY <1>2, <1>3 DEF Begin, tables
<1>9. \A i \in Invoices \ raced : invoice[i].paid + plan[i] <= gross[i]
  <2> SUFFICES ASSUME NEW i \in Invoices \ raced PROVE invoice[i].paid + plan[i] <= gross[i]
    OBVIOUS
  <2>1. CASE plan[i] > 0
    BY <2>1, <1>1 DEF paidBy
  <2>2. CASE plan[i] = 0
    <3>1. invoice[i].paid \in Nat /\ gross[i] \in Nat
      BY InvoiceFacts DEF IInv, Types, Row
    <3> QED
      BY <2>2, <3>1 DEF IInv, OverpaidHasCause
  <2> QED
    BY <2>1, <2>2, <1>1
<1>10. ASSUME NEW W, DOMAIN W = {} PROVE Job(D, W, td)'
  <2>1. PayJob(D, W, td)'
    BY <1>1, <1>2, <1>4, <1>5, <1>6, <1>8, <1>9, <1>10 DEF PayJob
  <2> QED
    BY <2>1, <1>7, <1>10 DEF Job
<1>11. t \in Tx
  BY DEF Tx
<1>12. ASSUME NEW u \in Tx \ {t}, NEW C, C = doing[u] PROVE Rivals(D, C)' /\ Rivals(C, D)'
  <2> SUFFICES ASSUME C.kind = "pay"
               PROVE  C.payment # p /\ paidBy(plan) \cap paidBy(C.plan) \subseteq raced'
    BY <1>4 DEF Rivals
  <2>1. u \in Sessions
    BY <1>12 DEF IInv, Payers
  <2>2. planned(u) = paidBy(C.plan)
    BY <1>12 DEF planned
  <2> QED
    BY <2>1, <2>2, <1>2, <1>12
<1> QED
  BY <1>3, <1>8, <1>10, <1>11, <1>12, BeginPreserves DEF td

LEMMA CreditPreserves ==
    ASSUME IInv, NEW t \in Sessions, NEW i \in Invoices, CreateCreditNote(t, i)
    PROVE  IInv'
<1> DEFINE D == [kind |-> "credit", inv |-> i]
           td == <<[op |-> "credit", inv |-> i]>>
<1>1. Begin(t, D, td) /\ raced' = raced /\ t \in Tx
  BY DEF CreateCreditNote, Tx
<1>2. D.kind = "credit" /\ D.inv = i
  OBVIOUS
<1>3. td \in Seq(Statements)
  BY DEF Statements
<1> HIDE DEF D
<1>4. \A W : DOMAIN W = {} => Job(D, W, td)'
  BY <1>2, <1>3 DEF Job, CreditJob
<1>5. \A C : Rivals(D, C)' /\ Rivals(C, D)'
  BY <1>2 DEF Rivals
<1> HIDE DEF td
<1> QED
  BY <1>1, <1>2, <1>4, <1>5, BeginPreserves

LEMMA SweepPreserves == ASSUME IInv, Sweep PROVE IInv'
<1> DEFINE found == {i \in Invoices : chased(i, invoice[i])}
           D == [kind |-> "sweep"]
<1>1. PICK seq \in SetToSeqs(found) :
        Begin(Sweeper, D, [k \in DOMAIN seq |-> [op |-> "overdue", inv |-> seq[k]]])
  BY DEF Sweep
<1> DEFINE td == [k \in DOMAIN seq |-> [op |-> "overdue", inv |-> seq[k]]]
<1>2. D.kind = "sweep" /\ raced' = raced /\ Sweeper \in Tx
  BY DEF Sweep, Tx
<1>3. seq \in Seq(Invoices)
  <2>1. seq \in Seq(found)
    BY SetToSeqsFacts
  <2> QED
    BY <2>1
<1>4. td \in Seq(Statements) /\ \A k \in DOMAIN td : td[k].op = "overdue" /\ td[k].inv \in Invoices
  BY <1>3 DEF Statements
<1> HIDE DEF D, td
<1>5. \A W : DOMAIN W = {} => Job(D, W, td)'
  BY <1>2, <1>4 DEF Job, SweepJob
<1>6. \A C : Rivals(D, C)' /\ Rivals(C, D)'
  BY <1>2 DEF Rivals
<1> QED
  BY <1>1, <1>2, <1>5, <1>6, BeginPreserves DEF td

-----------------------------------------------------------------------------
(* What a statement makes of a row.                                          *)
LEMMA UpdatedRow ==
    ASSUME IInv, NEW i \in Invoices, NEW r, RowTells(i, r), Keeps(i, r), NEW s \in Statements,
           s.inv = i, s.op = "apply" => s.n > 0, ~refused(s, r),
           NEW z, matches(s, r) => z = updated(i, r, s), ~matches(s, r) => z = r,
           invoice' = invoice, late' = late, overwritten \subseteq overwritten',
           s.op = "apply" /\ r.status = "credited" => i \in overwritten'
    PROVE  /\ RowTells(i, z)' /\ Keeps(i, z)'
           /\ s.op = "apply" => z.paid = r.paid + s.n
           /\ s.op \in {"credit", "overdue"} => z.paid = r.paid
           /\ s.op = "credit" => z.status = "credited" /\ r.status # "credited"
<1>0. /\ r \in Row /\ r.paid \in Nat /\ gross[i] \in Nat
      /\ s.op \in {"apply", "credit", "overdue"}
  BY InvoiceFacts DEF RowTells, Row, Statements
<1>1. CASE s.op = "apply"
  <2>1. s.n \in Nat /\ s.n > 0
    BY <1>1 DEF Statements
  <2>2. z = [paid |-> r.paid + s.n, status |-> IF r.paid + s.n >= gross[i] THEN "paid" ELSE "partly_paid"]
    BY <1>1 DEF matches, updated
  <2>3. z.paid = r.paid + s.n /\ z \in Row
    BY <1>0, <2>1, <2>2 DEF Row, OPEN
  <2>4. RowTells(i, z)'
    BY <1>0, <2>1, <2>2, <2>3 DEF RowTells
  <2>5. Keeps(i, z)'
    BY <1>1 DEF Keeps
  <2> QED
    BY <1>1, <2>3, <2>4, <2>5
<1>2. CASE s.op = "credit"
  <2>1. z = [r EXCEPT !.status = "credited"] /\ r.status # "credited"
    BY <1>2 DEF matches, updated, refused
  <2>2. z \in Row /\ z.status = "credited" /\ z.paid = r.paid
    BY <1>0, <2>1 DEF Row
  <2> QED
    BY <1>2, <2>1, <2>2 DEF RowTells, Keeps
<1>3. CASE s.op = "overdue"
  <2>1. CASE matches(s, r)
    <3>1. /\ z = [r EXCEPT !.status = "overdue"]
          /\ r.status \in {"issued", "sent"} /\ i \in late /\ r.paid < gross[i]
      BY <1>3, <2>1 DEF matches, updated, chased
    <3>2. z \in Row /\ z.status = "overdue" /\ z.paid = r.paid
      BY <1>0, <3>1 DEF Row, OPEN
    <3>3. RowTells(i, z)'
      BY <1>0, <3>1, <3>2 DEF RowTells
    <3>4. Keeps(i, z)'
      BY <3>1, <3>2 DEF Keeps
    <3> QED
      BY <1>3, <3>2, <3>3, <3>4
  <2>2. CASE ~matches(s, r)
    BY <1>3, <2>2 DEF RowTells, Keeps
  <2> QED
    BY <2>1, <2>2
<1> QED
  BY <1>0, <1>1, <1>2, <1>3

LEMMA StatementPreserves == ASSUME IInv, NEW t \in Tx, Statement(t) PROVE IInv'
<1>0. PICK D, W, td : D = doing[t] /\ W = work[t] /\ td = todo[t]
  OBVIOUS
<1>1. Job(D, W, td) /\ td # <<>>
  BY <1>0 DEF IInv, Jobs, Statement
<1>2. PICK s, r, i : s = Head(td) /\ i = s.inv /\ r = rowSeenBy(t, i)
  OBVIOUS
<1>3. PICK z : z = IF matches(s, r) THEN updated(i, r, s) ELSE r
  OBVIOUS
<1>4. /\ Free(t, i) /\ ~refused(s, r)
      /\ work' = [work EXCEPT ![t] = over(one(i, z), W)]
      /\ todo' = [todo EXCEPT ![t] = Tail(td)]
      /\ overwritten' = IF s.op = "apply" /\ r.status = "credited"
                        THEN overwritten \cup {i} ELSE overwritten
      /\ UNCHANGED <<tables, doing, raced>>
  BY <1>0, <1>2, <1>3 DEF Statement
<1>5. td \in Seq(Statements) /\ 1 \in DOMAIN td /\ s = td[1] /\ s \in Statements
  BY <1>1, <1>2 DEF Job
<1>6. i \in Invoices
  BY <1>2, <1>5 DEF Statements
<1>7. r = IF i \in DOMAIN W THEN W[i] ELSE invoice[i]
  BY <1>0, <1>2 DEF rowSeenBy
<1>8. RowTells(i, r) /\ Keeps(i, r)
  BY <1>1, <1>6, <1>7 DEF Job, IInv, Rows, Keeps
<1>9. s.op = "apply" => s.n > 0 /\ i \notin DOMAIN W /\ PayJob(D, W, td)
  <2> SUFFICES ASSUME s.op = "apply" PROVE s.n > 0 /\ i \notin DOMAIN W /\ PayJob(D, W, td)
    OBVIOUS
  <2>1. PayJob(D, W, td)
    BY <1>1, <1>5 DEF Job, IdleJob, CreditJob, SweepJob
  <2> QED
    BY <2>1, <1>2, <1>5 DEF PayJob, paidBy
<1>10. UNCHANGED <<invoice, late, payment, credits>>
  BY <1>4 DEF tables
<1>11. /\ RowTells(i, z)' /\ Keeps(i, z)'
       /\ s.op = "apply" => z.paid = r.paid + s.n
       /\ s.op \in {"credit", "overdue"} => z.paid = r.paid
       /\ s.op = "credit" => z.status = "credited" /\ r.status # "credited"
  <2>1. invoice' = invoice /\ late' = late /\ s.inv = i /\ ~refused(s, r) /\ (s.op = "apply" => s.n > 0)
    BY <1>2, <1>4, <1>9, <1>10
  <2>2. /\ overwritten \subseteq overwritten'
        /\ s.op = "apply" /\ r.status = "credited" => i \in overwritten'
    BY <1>4
  <2>3. (matches(s, r) => z = updated(i, r, s)) /\ (~matches(s, r) => z = r)
    BY <1>3
  <2> QED
    BY <2>3, <1>5, <1>6, <1>8, <2>1, <2>2, UpdatedRow
<1>12. PICK V, rest : V = over(one(i, z), W) /\ rest = Tail(td)
  OBVIOUS
<1>13. /\ DOMAIN V = DOMAIN W \cup {i} /\ V[i] = z
       /\ \A j \in DOMAIN W \ {i} : V[j] = W[j]
  BY <1>12 DEF over, one
<1>14. /\ rest \in Seq(Statements) /\ Len(rest) = Len(td) - 1
       /\ DOMAIN rest = 1 .. (Len(td) - 1) /\ DOMAIN td = 1 .. Len(td) /\ Len(td) \in Nat
       /\ \A k \in DOMAIN rest : rest[k] = td[k + 1] /\ k + 1 \in DOMAIN td /\ k \in Nat
       /\ \A k \in DOMAIN td : k = 1 \/ (k - 1 \in DOMAIN rest /\ rest[k - 1] = td[k])
  BY <1>1, <1>5, <1>12
<1>15. overwritten \subseteq overwritten'
  BY <1>4
<1>16. \A j \in DOMAIN V : RowTells(j, V[j])' /\ Keeps(j, V[j])'
  <2> SUFFICES ASSUME NEW j \in DOMAIN V, j # i PROVE RowTells(j, V[j])' /\ Keeps(j, V[j])'
    BY <1>11, <1>13
  <2>1. j \in DOMAIN W /\ V[j] = W[j]
    BY <1>13
  <2>2. RowTells(j, V[j]) /\ Keeps(j, V[j])
    BY <2>1, <1>1 DEF Job
  <2> QED
    BY <2>2, <1>10, <1>15 DEF RowTells, Keeps
<1>17. IdleJob(D, V, rest)' \/ PayJob(D, V, rest)' \/ CreditJob(D, V, rest)' \/ SweepJob(D, V, rest)'
  <2>1. CASE PayJob(D, W, td)
    <3>1. s.op = "apply" /\ s.n = D.plan[i] /\ i \in paidBy(D.plan) /\ i \notin DOMAIN W
      BY <2>1, <1>2, <1>5 DEF PayJob
    <3>2. z.paid = invoice[i].paid + D.plan[i]
      BY <3>1, <1>7, <1>11
    <3>3. \A k \in DOMAIN rest : /\ rest[k].op = "apply"
                                 /\ rest[k].inv \in paidBy(D.plan) \ DOMAIN V
                                 /\ rest[k].n = D.plan[rest[k].inv]
      <4> SUFFICES ASSUME NEW k \in DOMAIN rest
                   PROVE  /\ td[k + 1].op = "apply"
                          /\ td[k + 1].inv \in paidBy(D.plan) \ DOMAIN V
                          /\ td[k + 1].n = D.plan[td[k + 1].inv]
        BY <1>14
      <4>1. k + 1 \in DOMAIN td /\ k + 1 # 1
        BY <1>14
      <4>2. td[k + 1].inv # i
        BY <4>1, <2>1, <1>2, <1>5 DEF PayJob
      <4> QED
        BY <4>1, <4>2, <2>1, <1>13 DEF PayJob
    <3>4. \A j, k \in DOMAIN rest : rest[j].inv = rest[k].inv => j = k
      BY <2>1, <1>14 DEF PayJob
    <3>5. \A j \in paidBy(D.plan) : j \in DOMAIN V \/ \E k \in DOMAIN rest : rest[k].inv = j
      BY <2>1, <1>2, <1>5, <1>13, <1>14 DEF PayJob
    <3>6. \A j \in DOMAIN V : j \in paidBy(D.plan) /\ V[j].paid = invoice[j].paid + D.plan[j]
      BY <2>1, <3>1, <3>2, <1>13 DEF PayJob
    <3>7. PayJob(D, V, rest)'
      BY <2>1, <3>3, <3>4, <3>5, <3>6, <1>4, <1>10 DEF PayJob
    <3> QED
      BY <3>7
  <2>2. CASE CreditJob(D, W, td)
    <3>1. s = [op |-> "credit", inv |-> D.inv] /\ DOMAIN W = {} /\ rest = <<>>
      BY <2>2, <1>1, <1>5, <1>12 DEF CreditJob
    <3>2. i = D.inv /\ s.op = "credit" /\ D.inv \in Invoices
      BY <3>1, <1>2, <2>2 DEF CreditJob
    <3>3. r = invoice[i] /\ overwritten' = overwritten
      BY <3>1, <3>2, <1>4, <1>7
    <3>4. credits[i] = 0 \/ i \in overwritten
      <4>1. credits[i] \in Nat
        BY <1>6 DEF IInv, Types
      <4> QED
        BY <3>2, <3>3, <4>1, <1>6, <1>11 DEF IInv, Credited
    <3>5. CreditJob(D, V, rest)'
      BY <2>2, <3>1, <3>2, <3>3, <3>4, <1>10, <1>11, <1>13 DEF CreditJob
    <3> QED
      BY <3>5
  <2>3. CASE SweepJob(D, W, td)
    <3>1. s.op = "overdue"
      BY <2>3, <1>5 DEF SweepJob
    <3>2. z.paid = invoice[i].paid
      BY <2>3, <3>1, <1>7, <1>11 DEF SweepJob
    <3>3. SweepJob(D, V, rest)'
      BY <2>3, <3>2, <1>10, <1>13, <1>14 DEF SweepJob
    <3> QED
      BY <3>3
  <2>4. CASE IdleJob(D, W, td)
    BY <2>4, <1>1 DEF IdleJob
  <2> QED
    BY <2>1, <2>2, <2>3, <2>4, <1>1 DEF Job
<1>18. DOMAIN V \subseteq Invoices
  BY <1>1, <1>6, <1>13 DEF Job
<1>19. Job(D, V, rest)'
  BY <1>14, <1>16, <1>17, <1>18 DEF Job
<1>20. \A u \in Tx \ {t} : DOMAIN V \cap DOMAIN work[u] = {}
  BY <1>0, <1>4, <1>13 DEF Free, IInv, Locks
<1>21. D.kind = "pay" => t \in Sessions
  BY <1>0 DEF IInv, Payers
<1>22. \A u \in Tx \ {t} : \A C : C = doing[u] => Rivals(D, C)' /\ Rivals(C, D)'
  BY <1>0, <1>4 DEF IInv, Payers, Rivals
<1>23. doing' = [doing EXCEPT ![t] = D] /\ raced' = raced
  BY <1>0, <1>4 DEF IInv, Types
<1> QED
  BY <1>4, <1>12, <1>15, <1>19, <1>20, <1>21, <1>22, <1>23, WorkPreserves

-----------------------------------------------------------------------------
(* What a commit adds to what an invoice is paid: what was planned for it.   *)
LEMMA CommitRows ==
    ASSUME IInv, NEW t \in Tx, Commit(t),
           NEW D, NEW W, D = doing[t], W = work[t]
    PROVE  /\ Job(D, W, <<>>)
           /\ PayJob(D, W, <<>>) \/ CreditJob(D, W, <<>>) \/ SweepJob(D, W, <<>>)
           /\ \A i \in Invoices : invoice'[i] = IF i \in DOMAIN W THEN W[i] ELSE invoice[i]
           /\ invoice' \in [Invoices -> Row]
           /\ \A i \in Invoices : invoice'[i].paid =
                  IF D.kind = "pay" THEN invoice[i].paid + D.plan[i] ELSE invoice[i].paid
           /\ late' = late /\ overwritten' = overwritten /\ raced' = raced
           /\ payment' = IF D.kind = "pay" THEN over(one(D.payment, D.plan), payment) ELSE payment
           /\ credits' = IF D.kind = "credit" THEN [credits EXCEPT ![D.inv] = @ + 1] ELSE credits
<1>1. Job(D, W, <<>>) /\ D # Idle
  BY DEF IInv, Jobs, Commit
<1>2. invoice \in [Invoices -> Row] /\ invoice' = over(W, invoice)
  BY DEF IInv, Types, Commit
<1>3. DOMAIN W \subseteq Invoices /\ \A i \in DOMAIN W : W[i] \in Row
  BY <1>1 DEF Job, RowTells
<1>4. /\ \A i \in Invoices : invoice'[i] = IF i \in DOMAIN W THEN W[i] ELSE invoice[i]
      /\ invoice' \in [Invoices -> Row]
  BY <1>2, <1>3 DEF over
<1>5. PayJob(D, W, <<>>) \/ CreditJob(D, W, <<>>) \/ SweepJob(D, W, <<>>)
  BY <1>1 DEF Job, IdleJob
<1>6. ASSUME NEW i \in Invoices
      PROVE  invoice'[i].paid = IF D.kind = "pay" THEN invoice[i].paid + D.plan[i]
                                ELSE invoice[i].paid
  <2>1. CASE PayJob(D, W, <<>>)
    <3>1. CASE i \in DOMAIN W
      BY <2>1, <3>1, <1>4 DEF PayJob
    <3>2. CASE i \notin DOMAIN W
      <4>1. D.plan[i] \in Nat /\ ~(D.plan[i] > 0)
        BY <2>1, <3>2 DEF PayJob, paidBy
      <4>2. invoice[i].paid \in Nat
        BY <1>2 DEF Row
      <4> QED
        BY <2>1, <3>2, <4>1, <4>2, <1>4 DEF PayJob
    <3> QED
      BY <3>1, <3>2
  <2>2. CASE CreditJob(D, W, <<>>)
    BY <2>2, <1>4 DEF CreditJob
  <2>3. CASE SweepJob(D, W, <<>>)
    BY <2>3, <1>4 DEF SweepJob
  <2> QED
    BY <2>1, <2>2, <2>3, <1>5
<1>7. /\ late' = late /\ overwritten' = overwritten /\ raced' = raced
      /\ payment' = IF D.kind = "pay" THEN over(one(D.payment, D.plan), payment) ELSE payment
      /\ credits' = IF D.kind = "credit" THEN [credits EXCEPT ![D.inv] = @ + 1] ELSE credits
  BY DEF Commit, history
<1> QED
  BY <1>1, <1>4, <1>5, <1>6, <1>7

(* A commit records the plan it has carried out.                             *)
LEMMA CommitPayment ==
    ASSUME IInv, NEW t \in Tx, Commit(t)
    PROVE  /\ PaidIsAllocated' /\ OverpaidHasCause'
           /\ DOMAIN payment' \subseteq Payments
           /\ \A p \in DOMAIN payment' : payment'[p] \in [Invoices -> Nat]
<1>0. PICK D, W : D = doing[t] /\ W = work[t]
  OBVIOUS
<1>1. /\ PayJob(D, W, <<>>) \/ CreditJob(D, W, <<>>) \/ SweepJob(D, W, <<>>)
      /\ \A i \in Invoices : invoice'[i].paid =
             IF D.kind = "pay" THEN invoice[i].paid + D.plan[i] ELSE invoice[i].paid
      /\ raced' = raced
      /\ payment' = IF D.kind = "pay" THEN over(one(D.payment, D.plan), payment) ELSE payment
  BY <1>0, CommitRows
<1>2. /\ DOMAIN payment \subseteq Payments
      /\ \A p \in DOMAIN payment : payment[p] \in [Invoices -> Nat]
      /\ PaidIsAllocated /\ OverpaidHasCause
  BY DEF IInv, Types
<1>3. CASE D.kind # "pay"
  <2>1. payment' = payment /\ \A i \in Invoices : invoice'[i].paid = invoice[i].paid
    BY <1>1, <1>3
  <2>2. PaidIsAllocated'
    BY <2>1, <1>2 DEF PaidIsAllocated, applied
  <2>3. OverpaidHasCause'
    BY <2>1, <1>1, <1>2 DEF OverpaidHasCause
  <2> QED
    BY <2>1, <2>2, <2>3, <1>2
<1>4. CASE D.kind = "pay"
  <2>1. PayJob(D, W, <<>>)
    BY <1>1, <1>4 DEF CreditJob, SweepJob
  <2>2. D.payment \in Payments \ DOMAIN payment /\ D.plan \in [Invoices -> Nat]
    BY <2>1 DEF PayJob
  <2>3. payment' = over(one(D.payment, D.plan), payment)
    BY <1>1, <1>4
  <2>4. /\ DOMAIN payment' = DOMAIN payment \cup {D.payment}
        /\ payment'[D.payment] = D.plan
        /\ \A p \in DOMAIN payment : payment'[p] = payment[p]
    BY <2>2, <2>3 DEF over, one
  <2>5. /\ DOMAIN payment' \subseteq Payments
        /\ \A p \in DOMAIN payment' : payment'[p] \in [Invoices -> Nat]
    BY <2>2, <2>4, <1>2
  <2>6. ASSUME NEW i \in Invoices
        PROVE  invoice'[i].paid = Total([p \in Payments |-> applied(p, i)'])
    <3> DEFINE f == [p \in Payments |-> applied(p, i)]
               g == [p \in Payments |-> applied(p, i)']
    <3>1. f \in [Payments -> Nat] /\ g \in [Payments -> Nat]
      BY <1>2, <2>5 DEF applied
    <3>2. \A p \in Payments \ {D.payment} : g[p] = f[p]
      BY <2>4 DEF applied
    <3>3. g[D.payment] = D.plan[i] /\ f[D.payment] = 0
      BY <2>2, <2>4 DEF applied
    <3>4. invoice[i].paid = Total(f)
      BY <1>2 DEF PaidIsAllocated
    <3> HIDE DEF f, g
    <3>5. IsFiniteSet(Payments)
      BY ReceivablesAssumption
    <3>6. Total(g) = Total(f) + g[D.payment] - f[D.payment]
      BY <2>2, <3>1, <3>2, <3>5, TotalChange
    <3>7. Total(f) \in Nat /\ D.plan[i] \in Nat
      BY <2>2, <3>1, <3>5, TotalType
    <3>8. Total(g) = invoice[i].paid + D.plan[i]
      BY <3>3, <3>4, <3>6, <3>7
    <3>9. invoice'[i].paid = Total(g)
      BY <3>8, <1>1, <1>4
    <3> QED
      BY <3>9 DEF g
  <2>7. PaidIsAllocated'
    BY <2>6 DEF PaidIsAllocated
  <2>8. OverpaidHasCause'
    <3> SUFFICES ASSUME NEW i \in Invoices, invoice'[i].paid > gross[i] PROVE i \in raced
      BY <1>1 DEF OverpaidHasCause
    <3>1. invoice'[i].paid = invoice[i].paid + D.plan[i]
      BY <1>1, <1>4
    <3>2. i \notin raced => invoice[i].paid + D.plan[i] <= gross[i]
      BY <2>1 DEF PayJob
    <3>3. invoice[i].paid \in Nat /\ D.plan[i] \in Nat /\ gross[i] \in Nat
      BY <2>2, InvoiceFacts DEF IInv, Types, Row
    <3> QED
      BY <3>1, <3>2, <3>3
  <2> QED
    BY <2>5, <2>7, <2>8
<1> QED
  BY <1>3, <1>4

(* A second credit note has a status that was lost behind it.                *)
LEMMA CommitCredit ==
    ASSUME IInv, NEW t \in Tx, Commit(t)
    PROVE  Credited' /\ credits' \in [Invoices -> Nat]
<1>0. PICK D, W : D = doing[t] /\ W = work[t]
  OBVIOUS
<1>1. /\ Job(D, W, <<>>)
      /\ PayJob(D, W, <<>>) \/ CreditJob(D, W, <<>>) \/ SweepJob(D, W, <<>>)
      /\ \A i \in Invoices : invoice'[i] = IF i \in DOMAIN W THEN W[i] ELSE invoice[i]
      /\ overwritten' = overwritten
      /\ credits' = IF D.kind = "credit" THEN [credits EXCEPT ![D.inv] = @ + 1] ELSE credits
  BY <1>0, CommitRows
<1>2. credits \in [Invoices -> Nat] /\ Credited
  BY DEF IInv, Types
<1>3. credits' \in [Invoices -> Nat]
  <2>1. CASE D.kind = "credit"
    <3>1. credits' = [credits EXCEPT ![D.inv] = credits[D.inv] + 1]
      BY <2>1, <1>1
    <3>2. D.inv \in Invoices
      BY <2>1, <1>1 DEF PayJob, CreditJob, SweepJob
    <3>3. credits[D.inv] + 1 \in Nat
      BY <3>2, <1>2
    <3> QED
      BY <3>1, <3>2, <3>3, <1>2
  <2>2. CASE D.kind # "credit"
    BY <2>2, <1>1, <1>2
  <2> QED
    BY <2>1, <2>2
<1>4. ASSUME NEW i \in Invoices
      PROVE  /\ credits'[i] >= 1 => invoice'[i].status = "credited" \/ i \in overwritten
             /\ credits'[i] > 1 => i \in overwritten
  <2>1. CASE D.kind = "credit" /\ i = D.inv
    <3>1. CreditJob(D, W, <<>>)
      BY <2>1, <1>1 DEF PayJob, SweepJob
    <3>2. DOMAIN W = {i} /\ W[i].status = "credited" /\ (credits[i] = 0 \/ i \in overwritten)
      BY <2>1, <3>1 DEF CreditJob
    <3>3. credits'[i] = credits[i] + 1
      BY <2>1, <1>1, <1>2
    <3> QED
      BY <3>2, <3>3, <1>1
  <2>2. CASE D.kind # "credit" \/ i # D.inv
    <3>1. credits'[i] = credits[i]
      BY <2>2, <1>1, <1>2
    <3>2. CASE i \in DOMAIN W
      <4>1. Keeps(i, W[i])
        BY <3>2, <1>1 DEF Job
      <4> QED
        BY <3>1, <3>2, <4>1, <1>1, <1>2 DEF Credited, Keeps
    <3>3. CASE i \notin DOMAIN W
      BY <3>1, <3>3, <1>1, <1>2 DEF Credited
    <3> QED
      BY <3>2, <3>3
  <2> QED
    BY <2>1, <2>2
<1> QED
  BY <1>1, <1>3, <1>4 DEF Credited

(* What the other transactions rely on is locked, or not planned twice.      *)
LEMMA CommitOthers ==
    ASSUME IInv, NEW t \in Tx, Commit(t), NEW u \in Tx, u # t,
           NEW C, NEW V, NEW td, C = doing[u], V = work[u], td = todo[u]
    PROVE  Job(C, V, td)'
<1>0. PICK D, W : D = doing[t] /\ W = work[t]
  OBVIOUS
<1>1. /\ PayJob(D, W, <<>>) \/ CreditJob(D, W, <<>>) \/ SweepJob(D, W, <<>>)
      /\ \A i \in Invoices : invoice'[i] = IF i \in DOMAIN W THEN W[i] ELSE invoice[i]
      /\ \A i \in Invoices : invoice'[i].paid =
             IF D.kind = "pay" THEN invoice[i].paid + D.plan[i] ELSE invoice[i].paid
      /\ late' = late /\ overwritten' = overwritten /\ raced' = raced
      /\ payment' = IF D.kind = "pay" THEN over(one(D.payment, D.plan), payment) ELSE payment
      /\ credits' = IF D.kind = "credit" THEN [credits EXCEPT ![D.inv] = @ + 1] ELSE credits
  BY <1>0, CommitRows
<1>2. /\ Job(C, V, td) /\ Rivals(C, D) /\ DOMAIN V \cap DOMAIN W = {}
  BY <1>0 DEF IInv, Jobs, Payers, Locks
<1>3. \A i \in DOMAIN V : i \in Invoices /\ invoice'[i] = invoice[i]
  BY <1>1, <1>2 DEF Job
<1>4. \A i \in DOMAIN V : RowTells(i, V[i])' /\ Keeps(i, V[i])'
  BY <1>1, <1>2, <1>3 DEF Job, RowTells, Keeps
<1>5. CASE PayJob(C, V, td)
  <2>1. C.payment \notin DOMAIN payment'
    <3>1. D.kind = "pay" => C.payment # D.payment
      BY <1>2, <1>5 DEF Rivals, PayJob
    <3>2. C.payment \notin DOMAIN payment
      BY <1>5 DEF PayJob
    <3> QED
      BY <1>1, <3>1, <3>2 DEF over, one
  <2>2. ASSUME NEW i \in Invoices \ raced PROVE invoice'[i].paid + C.plan[i] <= gross[i]
    <3>1. C.plan[i] \in Nat /\ invoice[i].paid \in Nat /\ gross[i] \in Nat
      BY <1>5, InvoiceFacts DEF PayJob, IInv, Types, Row
    <3>2. CASE C.plan[i] = 0
      <4>1. invoice'[i].paid \in Nat
        BY <1>0, CommitRows DEF Row
      <4>2. ~(invoice'[i].paid > gross[i])
        BY <1>1, CommitPayment DEF OverpaidHasCause
      <4> QED
        BY <3>1, <3>2, <4>1, <4>2
    <3>3. CASE C.plan[i] > 0
      <4>1. D.kind = "pay" => D.plan[i] = 0
        <5>1. ASSUME D.kind = "pay" PROVE D.plan[i] = 0
          <6>1. PayJob(D, W, <<>>)
            BY <5>1, <1>1 DEF CreditJob, SweepJob
          <6>2. D.plan[i] \in Nat
            BY <6>1 DEF PayJob
          <6>3. i \notin paidBy(D.plan)
            BY <5>1, <3>3, <1>2, <1>5 DEF Rivals, PayJob, paidBy
          <6> QED
            BY <6>2, <6>3 DEF paidBy
        <5> QED
          BY <5>1
      <4>2. invoice'[i].paid = invoice[i].paid
        BY <4>1, <3>1, <1>1
      <4> QED
        BY <4>2, <1>5 DEF PayJob
    <3> QED
      BY <3>1, <3>2, <3>3
  <2>3. PayJob(C, V, td)'
    BY <2>1, <2>2, <1>1, <1>3, <1>5 DEF PayJob
  <2> QED
    BY <2>3, <1>2, <1>4 DEF Job
<1>6. CASE CreditJob(C, V, td)
  <2>1. CASE td = <<>>
    <3>1. C.inv \in DOMAIN V /\ C.inv \in Invoices
      BY <2>1, <1>6 DEF CreditJob
    <3>2. D.kind = "credit" => D.inv # C.inv
      BY <3>1, <1>1, <1>2 DEF CreditJob, PayJob, SweepJob
    <3>3. credits'[C.inv] = credits[C.inv]
      BY <3>2, <1>1 DEF IInv, Types
    <3>4. CreditJob(C, V, td)'
      BY <2>1, <3>1, <3>3, <1>1, <1>3, <1>6 DEF CreditJob
    <3> QED
      BY <3>4, <1>2, <1>4 DEF Job
  <2>2. CASE td # <<>>
    <3>1. CreditJob(C, V, td)'
      BY <2>2, <1>6 DEF CreditJob
    <3> QED
      BY <3>1, <1>2, <1>4 DEF Job
  <2> QED
    BY <2>1, <2>2
<1>7. CASE SweepJob(C, V, td)
  <2>1. SweepJob(C, V, td)'
    BY <1>3, <1>7 DEF SweepJob
  <2> QED
    BY <2>1, <1>2, <1>4 DEF Job
<1>8. CASE IdleJob(C, V, td)
  <2>1. IdleJob(C, V, td)'
    BY <1>8 DEF IdleJob
  <2> QED
    BY <2>1, <1>2, <1>4 DEF Job
<1> QED
  BY <1>2, <1>5, <1>6, <1>7, <1>8 DEF Job

LEMMA CommitPreserves == ASSUME IInv, NEW t \in Tx, Commit(t) PROVE IInv'
<1>0. PICK D, W : D = doing[t] /\ W = work[t]
  OBVIOUS
<1>1. /\ doing' = [doing EXCEPT ![t] = Idle] /\ todo' = [todo EXCEPT ![t] = <<>>]
      /\ work' = [work EXCEPT ![t] = Nothing]
  BY DEF Commit, End
<1>2. /\ doing'[t] = Idle /\ work'[t] = Nothing /\ todo'[t] = <<>>
      /\ \A u \in Tx \ {t} : doing'[u] = doing[u] /\ work'[u] = work[u] /\ todo'[u] = todo[u]
      /\ doing' = [u \in Tx |-> doing'[u]] /\ work' = [u \in Tx |-> work'[u]]
      /\ todo' = [u \in Tx |-> todo'[u]]
  BY <1>1 DEF IInv, Types
<1>3. /\ Job(D, W, <<>>) /\ raced' = raced /\ late' = late /\ overwritten' = overwritten
      /\ invoice' \in [Invoices -> Row]
      /\ \A i \in Invoices : invoice'[i] = IF i \in DOMAIN W THEN W[i] ELSE invoice[i]
  BY <1>0, CommitRows
<1>4. Types'
  BY <1>2, <1>3, CommitPayment, CommitCredit DEF Types
<1>5. Rows'
  BY <1>3 DEF Rows, Job, RowTells, IInv
<1>6. DOMAIN Nothing = {} /\ Idle.kind # "pay"
  BY DEF Nothing, Idle
<1>7. Jobs'
  <2> SUFFICES ASSUME NEW u \in Tx PROVE Job(doing[u], work[u], todo[u])'
    BY DEF Jobs
  <2>1. CASE u = t
    BY <2>1, <1>2, <1>6 DEF Job, IdleJob, Statements
  <2>2. CASE u # t
    BY <2>2, <1>2, CommitOthers
  <2> QED
    BY <2>1, <2>2
<1>8. Locks'
  <2> SUFFICES ASSUME NEW u \in Tx, NEW v \in Tx, u # v
               PROVE  DOMAIN work'[u] \cap DOMAIN work'[v] = {}
    BY DEF Locks
  <2>1. CASE u = t \/ v = t
    BY <2>1, <1>2, <1>6
  <2>2. CASE u # t /\ v # t
    BY <2>2, <1>2 DEF IInv, Locks
  <2> QED
    BY <2>1, <2>2
<1>9. Payers'
  BY <1>2, <1>3, <1>6 DEF IInv, Payers, Rivals
<1> QED
  BY <1>4, <1>5, <1>7, <1>8, <1>9, CommitPayment, CommitCredit DEF IInv

-----------------------------------------------------------------------------
(* The e-invoice handler and the calendar change rows nobody holds, or none. *)
LEMMA MarkSentPreserves == ASSUME IInv, NEW i \in Invoices, MarkSent(i) PROVE IInv'
<1>1. /\ \A t \in Tx : i \notin DOMAIN work[t]
      /\ invoice' = [invoice EXCEPT ![i].status = "sent"]
      /\ overwritten' = IF invoice[i].status \in {"paid", "credited"} THEN overwritten \cup {i}
                        ELSE overwritten
      /\ UNCHANGED <<late, payment, credits, doing, todo, work, raced>>
  BY DEF MarkSent
<1>2. /\ invoice \in [Invoices -> Row] /\ invoice[i] \in Row
      /\ RowTells(i, invoice[i])
  BY DEF IInv, Types, Rows
<1>3. /\ invoice' \in [Invoices -> Row]
      /\ invoice'[i].status = "sent" /\ invoice'[i] \in Row
      /\ \A j \in Invoices : invoice'[j].paid = invoice[j].paid
      /\ \A j \in Invoices \ {i} : invoice'[j] = invoice[j]
      /\ overwritten \subseteq overwritten'
  BY <1>1, <1>2 DEF Row, OPEN
<1>4. RowTells(i, invoice[i])'
  BY <1>1, <1>2, <1>3 DEF RowTells
<1>5. Rows'
  <2> SUFFICES ASSUME NEW j \in Invoices, j # i PROVE RowTells(j, invoice[j])'
    BY <1>4 DEF Rows
  <2>1. RowTells(j, invoice[j]) /\ invoice'[j] = invoice[j]
    BY <1>3 DEF IInv, Rows
  <2> QED
    BY <2>1, <1>1, <1>3 DEF RowTells
<1>6. Credited'
  BY <1>1, <1>3 DEF IInv, Credited
<1>7. PaidIsAllocated' /\ OverpaidHasCause'
  BY <1>1, <1>3 DEF IInv, PaidIsAllocated, OverpaidHasCause, applied
<1>8. Jobs'
  <2> SUFFICES ASSUME NEW t \in Tx PROVE Job(doing[t], work[t], todo[t])'
    BY DEF Jobs
  <2>0. PICK D, W, td : D = doing[t] /\ W = work[t] /\ td = todo[t]
    OBVIOUS
  <2>1. Job(D, W, td) /\ i \notin DOMAIN W
    BY <2>0, <1>1 DEF IInv, Jobs
  <2>2. \A j \in DOMAIN W : j \in Invoices /\ invoice'[j] = invoice[j]
    BY <2>1, <1>3 DEF Job
  <2>3. \A j \in DOMAIN W : RowTells(j, W[j])' /\ Keeps(j, W[j])'
    BY <2>1, <2>2, <1>1, <1>3 DEF Job, RowTells, Keeps
  <2>4. PayJob(D, W, td) => PayJob(D, W, td)'
    BY <2>2, <1>1, <1>3 DEF PayJob
  <2>5. CreditJob(D, W, td) => CreditJob(D, W, td)'
    BY <2>2, <1>1, <1>3 DEF CreditJob
  <2>6. SweepJob(D, W, td) => SweepJob(D, W, td)'
    BY <2>2 DEF SweepJob
  <2>7. IdleJob(D, W, td) => IdleJob(D, W, td)'
    BY DEF IdleJob
  <2>8. Job(D, W, td)'
    BY <2>1, <2>3, <2>4, <2>5, <2>6, <2>7 DEF Job
  <2> QED
    BY <2>0, <2>8, <1>1
<1> QED
  BY <1>1, <1>3, <1>5, <1>6, <1>7, <1>8 DEF IInv, Types, Locks, Payers, Rivals

LEMMA DueDatePreserves == ASSUME IInv, NEW i \in Invoices, DueDatePasses(i) PROVE IInv'
<1>1. late \subseteq late' /\ UNCHANGED <<invoice, payment, credits, doing, todo, work, raced, overwritten>>
  BY DEF DueDatePasses, history
<1>2. \A j, r : RowTells(j, r) => RowTells(j, r)'
  BY <1>1 DEF RowTells
<1>3. Rows'
  BY <1>1, <1>2 DEF IInv, Rows
<1>4. Jobs'
  <2> SUFFICES ASSUME NEW t \in Tx PROVE Job(doing[t], work[t], todo[t])'
    BY DEF Jobs
  <2>0. PICK D, W, td : D = doing[t] /\ W = work[t] /\ td = todo[t]
    OBVIOUS
  <2>1. Job(D, W, td)
    BY <2>0 DEF IInv, Jobs
  <2>2. \A j \in DOMAIN W : RowTells(j, W[j])' /\ Keeps(j, W[j])'
    BY <2>1, <1>1, <1>2 DEF Job, Keeps
  <2>3. Job(D, W, td)'
    BY <2>1, <2>2, <1>1 DEF Job, IdleJob, PayJob, CreditJob, SweepJob
  <2> QED
    BY <2>0, <2>3, <1>1
<1> QED
  BY <1>1, <1>3, <1>4
     DEF IInv, Types, Locks, Payers, Rivals, PaidIsAllocated, applied, OverpaidHasCause, Credited

-----------------------------------------------------------------------------
LEMMA NextIInv == IInv /\ [Next]_vars => IInv'
<1> SUFFICES ASSUME IInv, [Next]_vars PROVE IInv'
  OBVIOUS
<1>1. CASE UNCHANGED vars
  <2>1. UNCHANGED tables /\ UNCHANGED <<doing, work, todo, raced, overwritten>>
    BY <1>1 DEF vars, history
  <2>2. Types' /\ Locks'
    BY <2>1 DEF IInv, Types, Locks, tables
  <2>3. Jobs' /\ Payers'
    BY <2>1, TablesStay DEF IInv, Jobs, Payers
  <2> QED
    BY <2>1, <2>2, <2>3, TablesStay DEF IInv
<1>2. ASSUME NEW t \in Tx, Run(t) PROVE IInv'
  <2>1. CASE Statement(t)
    BY <2>1, StatementPreserves
  <2>2. CASE Refuse(t)
    BY <2>2, EndPreserves DEF Refuse, history
  <2>3. CASE Commit(t)
    BY <2>3, CommitPreserves
  <2>4. CASE BreakDeadlock(t)
    BY <2>4, EndPreserves DEF BreakDeadlock, history
  <2> QED
    BY <1>2, <2>1, <2>2, <2>3, <2>4 DEF Run
<1>3. ASSUME NEW t \in Tx, Rollback(t) PROVE IInv'
  BY <1>3, EndPreserves DEF Rollback
<1>4. CASE \E t \in Sessions : (\E p \in Payments : RecordPayment(t, p))
                               \/ (\E i \in Invoices : CreateCreditNote(t, i))
  BY <1>4, RecordPaymentPreserves, CreditPreserves
<1>5. CASE \E i \in Invoices : MarkSent(i) \/ DueDatePasses(i)
  BY <1>5, MarkSentPreserves, DueDatePreserves
<1> QED
  BY <1>1, <1>2, <1>3, <1>4, <1>5, SweepPreserves DEF Next

LEMMA SpecIInv == Spec => []IInv
BY InitIInv, NextIInv, PTL DEF Spec

(* PaidIsAlwaysAllocated: paid_minor is the sum of the allocations that were *)
(* recorded: no interleaving of payments, credit notes, sweeps, failures and *)
(* broken deadlocks loses or doubles one (recordPayment, applyPayment).      *)
THEOREM PaidIsAlwaysAllocated == Spec => []PaidIsAllocated
BY SpecIInv, PTL DEF IInv

(* OverpaidAlwaysHasCause: an invoice that takes more than its gross was     *)
(* planned for by two payments at once (recordPayment reads the open         *)
(* invoices without a lock; allocatePayment alone never overpays).           *)
THEOREM OverpaidAlwaysHasCause == Spec => []OverpaidHasCause
BY SpecIInv, PTL DEF IInv

(* StatusAlwaysTellsBalance: the status of an invoice agrees with its        *)
(* balance, or was overwritten, whoever updates the row (applyPayment,       *)
(* markStatus, the sweep).                                                   *)
THEOREM StatusAlwaysTellsBalance == Spec => []StatusTellsBalance
<1>1. IInv => StatusTellsBalance
  BY DEF IInv, Rows, RowTells, StatusTellsBalance
<1> QED
  BY <1>1, SpecIInv, PTL

(* CreditAlwaysHasCause: an invoice is credited again only after its status  *)
(* was overwritten: createCreditNote's check holds against another request   *)
(* because it locks the header.                                              *)
THEOREM CreditAlwaysHasCause == Spec => []CreditHasCause
<1>1. IInv => CreditHasCause
  BY DEF IInv, Credited, CreditHasCause
<1> QED
  BY <1>1, SpecIInv, PTL
-----------------------------------------------------------------------------
(* allocatePayment hands out no more than the payment brings: the units of    *)
(* the plan, oldest invoice first, have places of their own among the units   *)
(* of the payment.                                                           *)
LEMMA PlanTotal ==
    ASSUME IInv, NEW n \in Nat
    PROVE  Total(allocatePayment(n)) <= n
<1> DEFINE owed(i) == IF i \in openForCustomer THEN outstanding(i) ELSE 0
           elders(i) == [j \in Invoices |-> IF j < i THEN owed(j) ELSE 0]
           before(i) == Total(elders(i))
           plan == allocatePayment(n)
           place == [u \in Units(plan) |-> before(u[1]) + u[2]]
<1>1. plan = [i \in Invoices |-> IF n - before(i) <= 0 THEN 0
                                 ELSE IF n - before(i) < owed(i) THEN n - before(i) ELSE owed(i)]
  BY DEF allocatePayment
<1>2. \A i \in Invoices : owed(i) \in Nat
  <2>1. \A i \in Invoices : invoice[i].paid \in Nat /\ gross[i] \in Nat
    BY InvoiceFacts DEF IInv, Types, Row
  <2> QED
    BY <2>1 DEF openForCustomer, outstanding
<1> HIDE DEF owed
<1>3. ASSUME NEW i \in Invoices PROVE elders(i) \in [Invoices -> Nat] /\ before(i) \in Nat
  <2>1. elders(i) \in [Invoices -> Nat]
    BY <1>2
  <2> HIDE DEF elders
  <2>2. Total(elders(i)) \in Nat
    BY <2>1, InvoiceFacts, TotalType
  <2> QED
    BY <2>1, <2>2
<1>4. ASSUME NEW i \in Invoices, NEW k \in Invoices, i < k PROVE before(i) + owed(i) <= before(k)
  <2> DEFINE h == [j \in Invoices |-> IF j < i \/ j = i THEN owed(j) ELSE 0]
  <2>1. i \in Nat /\ k \in Nat /\ \A j \in Invoices : j \in Nat
    BY InvoiceFacts
  <2>2. h \in [Invoices -> Nat]
    BY <1>2
  <2>3. /\ elders(i)[i] = 0 /\ h[i] = owed(i)
        /\ \A j \in Invoices \ {i} : h[j] = elders(i)[j]
        /\ \A j \in Invoices : h[j] <= elders(k)[j]
    BY <1>2, <1>4, <2>1
  <2>4. elders(i) \in [Invoices -> Nat] /\ elders(k) \in [Invoices -> Nat]
    BY <1>3
  <2> HIDE DEF h, elders
  <2>5. Total(h) = Total(elders(i)) + h[i] - elders(i)[i]
    BY <2>2, <2>3, <2>4, InvoiceFacts, TotalChange
  <2>6. Total(h) <= Total(elders(k))
    BY <2>2, <2>3, <2>4, InvoiceFacts, TotalMonotone
  <2>7. Total(elders(i)) \in Nat /\ owed(i) \in Nat
    BY <2>4, <1>2, InvoiceFacts, TotalType
  <2> QED
    BY <2>3, <2>5, <2>6, <2>7
<1> HIDE DEF before, elders
<1>5. ASSUME NEW i \in Invoices
      PROVE  /\ plan[i] \in Nat /\ plan[i] <= owed(i)
             /\ plan[i] > 0 => before(i) + plan[i] <= n
  <2>1. before(i) \in Nat /\ owed(i) \in Nat
    BY <1>2, <1>3
  <2> HIDE DEF plan
  <2> QED
    BY <1>1, <2>1
<1>6. DOMAIN plan = Invoices
  BY <1>1
<1> HIDE DEF plan
<1>7. \A u \in Units(plan) : u[1] \in Invoices /\ u[2] \in 1 .. plan[u[1]] /\ u = <<u[1], u[2]>>
  BY <1>6 DEF Units
<1>8. ASSUME NEW u \in Units(plan)
      PROVE  /\ place[u] \in 1 .. n
             /\ before(u[1]) < place[u] /\ place[u] <= before(u[1]) + owed(u[1])
  <2>1. PICK i, k : i = u[1] /\ k = u[2]
    OBVIOUS
  <2>2. i \in Invoices /\ k \in 1 .. plan[i]
    BY <1>7, <2>1
  <2>3. /\ plan[i] \in Nat /\ plan[i] <= owed(i) /\ owed(i) \in Nat /\ before(i) \in Nat
        /\ plan[i] > 0 => before(i) + plan[i] <= n
    BY <1>2, <1>3, <1>5, <2>2
  <2>4. place[u] = before(i) + k
    BY <2>1
  <2> HIDE DEF place
  <2> QED
    BY <2>1, <2>2, <2>3, <2>4
<1>9. ASSUME NEW u \in Units(plan), NEW v \in Units(plan), u[1] < v[1] PROVE place[u] < place[v]
  <2>1. u[1] \in Invoices /\ v[1] \in Invoices
    BY <1>7
  <2>2. before(u[1]) + owed(u[1]) <= before(v[1])
    BY <1>4, <1>9, <2>1
  <2>3. /\ before(u[1]) \in Nat /\ owed(u[1]) \in Nat /\ before(v[1]) \in Nat
        /\ place[u] \in Nat /\ place[v] \in Nat
    BY <1>2, <1>3, <1>8, <2>1
  <2> HIDE DEF place
  <2> QED
    BY <1>8, <2>2, <2>3
<1>10. place \in Injection(Units(plan), 1 .. n)
  <2>1. place \in [Units(plan) -> 1 .. n]
    BY <1>8
  <2>2. ASSUME NEW u \in Units(plan), NEW v \in Units(plan), place[u] = place[v] PROVE u = v
    <3>1. /\ u[1] \in Invoices /\ u[2] \in 1 .. plan[u[1]] /\ u = <<u[1], u[2]>>
          /\ v[1] \in Invoices /\ v[2] \in 1 .. plan[v[1]] /\ v = <<v[1], v[2]>>
      BY <1>7
    <3>2. place[u] \in Nat /\ place[v] \in Nat
      BY <1>8
    <3>3. u[1] \in Nat /\ v[1] \in Nat
      BY <3>1, InvoiceFacts
    <3>4. place[u] = before(u[1]) + u[2] /\ place[v] = before(v[1]) + v[2]
      OBVIOUS
    <3> HIDE DEF place
    <3>5. ~(u[1] < v[1]) /\ ~(v[1] < u[1])
      BY <1>9, <2>2, <3>2
    <3>6. u[1] = v[1]
      BY <3>3, <3>5
    <3>7. before(u[1]) \in Nat /\ plan[u[1]] \in Nat
      BY <1>3, <1>5, <3>1
    <3>8. u[2] = v[2]
      <4>1. u[2] \in Nat /\ v[2] \in Nat
        BY <3>1, <3>6, <3>7
      <4>2. before(u[1]) + u[2] = before(u[1]) + v[2]
        BY <2>2, <3>4, <3>6
      <4> QED
        BY <3>7, <4>1, <4>2
    <3> QED
      BY <3>1, <3>6, <3>8
  <2> QED
    BY <2>1, <2>2 DEF Injection, IsInjective
<1>11. IsFiniteSet(1 .. n) /\ Cardinality(1 .. n) = n
  <2>1. 1 \in Int /\ n \in Int
    OBVIOUS
  <2>2. IsFiniteSet(1 .. n) /\ Cardinality(1 .. n) = IF 1 > n THEN 0 ELSE n - 1 + 1
    BY <2>1, FS_Interval
  <2> QED
    BY <2>2
<1> HIDE DEF place
<1>12. Cardinality(Units(plan)) <= n
  BY <1>10, <1>11, FS_Injection
<1> QED
  BY <1>12 DEF Total, plan

(* What is planned and what has been recorded of a payment is within it.     *)
WithinPayment ==
    /\ \A t \in Tx : doing[t].kind = "pay" => Total(doing[t].plan) <= amount[doing[t].payment]
    /\ \A p \in DOMAIN payment : Total(payment[p]) <= amount[p]
    /\ late \subseteq Invoices
    /\ sends \in Nat

(* A transaction is given something to do, or nothing.                       *)
LEMMA DoingWithin ==
    ASSUME IInv, WithinPayment, NEW t \in Tx, NEW D, doing' = [doing EXCEPT ![t] = D],
           D.kind = "pay" => Total(D.plan) <= amount[D.payment],
           UNCHANGED <<payment, late, sends>>
    PROVE  WithinPayment'
<1>1. doing'[t] = D /\ \A u \in Tx \ {t} : doing'[u] = doing[u]
  BY DEF IInv, Types
<1> QED
  BY <1>1 DEF WithinPayment

LEMMA EndWithin ==
    ASSUME IInv, WithinPayment, NEW t \in Tx, End(t), UNCHANGED <<payment, late, sends>>
    PROVE  WithinPayment'
<1>1. doing' = [doing EXCEPT ![t] = Idle] /\ Idle.kind # "pay"
  BY DEF End, Idle
<1> HIDE DEF Idle
<1> QED
  BY <1>1, DoingWithin

LEMMA RecordWithin ==
    ASSUME IInv, WithinPayment, NEW t \in Sessions, NEW p \in Payments, RecordPayment(t, p)
    PROVE  WithinPayment'
<1>1. PICK plan : plan = allocatePayment(amount[p])
  OBVIOUS
<1>2. PICK D : D = [kind |-> "pay", payment |-> p, plan |-> plan]
  OBVIOUS
<1>3. PICK td : Begin(t, D, td)
  BY <1>1, <1>2 DEF RecordPayment
<1>4. amount[p] \in Nat
  BY InvoiceFacts
<1>5. Total(plan) <= amount[p]
  BY <1>1, <1>4, PlanTotal
<1>6. D.plan = plan /\ D.payment = p
  BY <1>2
<1>7. t \in Tx
  BY DEF Tx
<1> QED
  BY <1>3, <1>5, <1>6, <1>7, DoingWithin DEF Begin, tables

LEMMA CommitWithin ==
    ASSUME IInv, WithinPayment, NEW t \in Tx, Commit(t)
    PROVE  WithinPayment'
<1>1. doing' = [doing EXCEPT ![t] = Idle] /\ Idle.kind # "pay" /\ UNCHANGED <<late, sends>>
  BY DEF Commit, End, Idle
<1>2. doing'[t] = Idle /\ \A u \in Tx \ {t} : doing'[u] = doing[u]
  BY <1>1 DEF IInv, Types
<1>3. \A u \in Tx : doing'[u].kind = "pay" => Total(doing'[u].plan) <= amount[doing'[u].payment]
  BY <1>1, <1>2 DEF WithinPayment
<1>4. \A p \in DOMAIN payment' : Total(payment'[p]) <= amount[p]
  <2>1. CASE doing[t].kind = "pay"
    <3>1. PICK p, plan : p = doing[t].payment /\ plan = doing[t].plan
      OBVIOUS
    <3>2. payment' = over(one(p, plan), payment)
      BY <2>1, <3>1 DEF Commit
    <3>3. DOMAIN one(p, plan) = {p} /\ one(p, plan)[p] = plan
      BY DEF one
    <3>4. \A x \in DOMAIN payment' :
             \/ x = p /\ payment'[x] = plan
             \/ x \in DOMAIN payment /\ payment'[x] = payment[x]
      BY <3>2, <3>3 DEF over
    <3>5. Total(plan) <= amount[p]
      BY <2>1, <3>1 DEF WithinPayment
    <3> QED
      BY <3>4, <3>5 DEF WithinPayment
  <2>2. CASE doing[t].kind # "pay"
    BY <2>2 DEF Commit, WithinPayment
  <2> QED
    BY <2>1, <2>2
<1> QED
  BY <1>1, <1>3, <1>4 DEF WithinPayment

LEMMA NextWithin == IInv /\ WithinPayment /\ [Next]_vars => WithinPayment'
<1> SUFFICES ASSUME IInv, WithinPayment, [Next]_vars PROVE WithinPayment'
  OBVIOUS
<1>1. CASE UNCHANGED vars
  BY <1>1 DEF vars, tables, WithinPayment
<1>2. ASSUME NEW t \in Sessions, NEW p \in Payments, RecordPayment(t, p) PROVE WithinPayment'
  BY <1>2, RecordWithin
<1>3. ASSUME NEW t \in Sessions, NEW i \in Invoices, CreateCreditNote(t, i) PROVE WithinPayment'
  <2>1. PICK D : D = [kind |-> "credit", inv |-> i]
    OBVIOUS
  <2>2. D.kind # "pay" /\ t \in Tx
    BY <2>1 DEF Tx
  <2>3. doing' = [doing EXCEPT ![t] = D] /\ UNCHANGED <<payment, late, sends>>
    BY <1>3, <2>1 DEF CreateCreditNote, Begin, tables
  <2> QED
    BY <2>2, <2>3, DoingWithin
<1>4. CASE Sweep
  <2>1. PICK D : D = [kind |-> "sweep"]
    OBVIOUS
  <2>2. D.kind # "pay" /\ Sweeper \in Tx
    BY <2>1 DEF Tx
  <2>3. doing' = [doing EXCEPT ![Sweeper] = D] /\ UNCHANGED <<payment, late, sends>>
    BY <1>4, <2>1 DEF Sweep, Begin, tables
  <2> QED
    BY <2>2, <2>3, DoingWithin
<1>5. ASSUME NEW t \in Tx, Statement(t) PROVE WithinPayment'
  BY <1>5 DEF Statement, tables, WithinPayment
<1>6. ASSUME NEW t \in Tx, Refuse(t) \/ BreakDeadlock(t) \/ Rollback(t) PROVE WithinPayment'
  <2>1. CASE Refuse(t)
    BY <2>1, EndWithin DEF Refuse, tables
  <2>2. CASE BreakDeadlock(t)
    <3>1. End(t) /\ UNCHANGED tables
      BY <2>2, Zenon DEF BreakDeadlock
    <3> QED
      BY <3>1, EndWithin DEF tables
  <2>3. CASE Rollback(t)
    BY <2>3, EndWithin DEF Rollback, tables
  <2> QED
    BY <1>6, <2>1, <2>2, <2>3
<1>7. ASSUME NEW t \in Tx, Commit(t) PROVE WithinPayment'
  BY <1>7, CommitWithin
<1>8. ASSUME NEW i \in Invoices, MarkSent(i) \/ DueDatePasses(i) PROVE WithinPayment'
  BY <1>8 DEF MarkSent, DueDatePasses, WithinPayment
<1> QED
  BY <1>1, <1>2, <1>3, <1>4, <1>5, <1>6, <1>7, <1>8 DEF Next, Run

(* ReceivablesTypeCorrect: rows keep their shape, and what a payment was      *)
(* applied to its invoices is never more than it brought, whatever they were  *)
(* owed when it was allocated (allocatePayment, recordPayment).              *)
THEOREM ReceivablesTypeCorrect == Spec => []TypeOK
<1>1. Init => WithinPayment
  BY DEF Init, WithinPayment, Nothing, Idle
<1>2. IInv /\ WithinPayment => TypeOK
  <2> SUFFICES ASSUME IInv, WithinPayment PROVE TypeOK
    OBVIOUS
  <2>1. \A t \in Tx : DOMAIN work[t] \subseteq Invoices
    BY DEF IInv, Jobs, Job
  <2> QED
    BY <2>1 DEF IInv, Types, Row, WithinPayment, TypeOK
<1> QED
  BY <1>1, <1>2, SpecIInv, NextWithin, PTL DEF Spec
=============================================================================
