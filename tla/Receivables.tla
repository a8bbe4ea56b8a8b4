---------------------------- MODULE Receivables ----------------------------
(***************************************************************************)
(* What happens to issued invoices of one customer: payments allocated to   *)
(* them, credit notes, the hourly overdue sweep, and the e-invoice handler  *)
(* that marks them sent.                                                     *)
(*                                                                           *)
(* invoice is the committed table.  A transaction keeps the rows it has     *)
(* updated in work[t] until it commits, and holds their locks; todo[t] is   *)
(* the statements it has still to execute.  READ COMMITTED: a payment is    *)
(* allocated by what was committed when it began, without a lock, but each  *)
(* statement updates the row as it is by then.                               *)
(***************************************************************************)
EXTENDS Integers, Sequences, FiniteSets, SequencesExt, Relation, Tables

CONSTANTS Sessions,  \* of the API
          Sweeper,   \* the transaction of the hourly sweep
          Payments,
          amount,    \* of each payment
          gross,     \* of each invoice; invoices are numbered by due date
          MaxSends,  \* bound: e-invoice events handled
          MaxRequests, \* bound: payments and credit notes asked for
          MaxFaults  \* bound: transactions that fail

Invoices == DOMAIN gross
Tx == Sessions \cup {Sweeper}

ASSUME ReceivablesAssumption ==
    /\ gross \in Seq(Nat \ {0})
    /\ amount \in [Payments -> Nat \ {0}]
    /\ Sweeper \notin Sessions
    /\ IsFiniteSet(Payments)
    /\ {MaxSends, MaxRequests, MaxFaults} \subseteq Nat

VARIABLES invoice,     \* paid_minor and status
          late,        \* invoices whose due date has passed
          payment,     \* recorded payments: what was applied to each invoice
          credits,     \* credit notes issued for an invoice
          sends,       \* e-invoice events handled
          doing, todo, work,
          raced,       \* history: invoices two payments were planned for at once
          overwritten, \* history: invoices that were paid or credited and then
                       \* given another status
          requests, faults

tables == <<invoice, late, payment, credits, sends>>
history == <<raced, overwritten, requests, faults>>
vars == <<tables, doing, todo, work, history>>

Idle == [kind |-> "idle"]

-----------------------------------------------------------------------------
OPEN == {"issued", "sent", "partly_paid", "overdue"}
(* Mutant: what was paid is forgotten. *)
outstandingGross(i) == gross[i]
outstanding(i) == gross[i] - invoice[i].paid
openForCustomer == {i \in Invoices : invoice[i].status \in OPEN /\ outstanding(i) > 0}

(* allocatePayment: oldest due first.  An invoice gets what its elders have  *)
(* left of the payment, up to what it is owed.                               *)
allocatePayment(n) ==
    LET owed(i) == IF i \in openForCustomer THEN outstanding(i) ELSE 0
        left(i) == n - Total([j \in Invoices |-> IF j < i THEN owed(j) ELSE 0])
    IN [i \in Invoices |-> IF left(i) <= 0 THEN 0
                           ELSE IF left(i) < owed(i) THEN left(i) ELSE owed(i)]

(* The invoices a plan pays, and those in the order of their numbers.        *)
paidBy(plan) == {i \in Invoices : plan[i] > 0}
ascending(S) == {seq \in SetToSeqs(S) : \A j, k \in DOMAIN seq : j < k => seq[j] < seq[k]}

(* The statements on an invoice row: applyPayment, markStatus and the sweep. *)
(* Mutant: the status of applyPayment by the balance before. *)
updatedLate(i, r, s) ==
    CASE s.op = "apply"   -> [paid |-> r.paid + s.n,
                              status |-> IF r.paid >= gross[i] THEN "paid" ELSE "partly_paid"]
      [] s.op = "credit"  -> [r EXCEPT !.status = "credited"]
      [] s.op = "overdue" -> [r EXCEPT !.status = "overdue"]
updated(i, r, s) ==
    CASE s.op = "apply"   -> [paid |-> r.paid + s.n,
                              status |-> IF r.paid + s.n >= gross[i] THEN "paid" ELSE "partly_paid"]
      [] s.op = "credit"  -> [r EXCEPT !.status = "credited"]
      [] s.op = "overdue" -> [r EXCEPT !.status = "overdue"]

(* The WHERE of the sweep, evaluated again when a row it waited for is free. *)
(* Mutant: invoices that were sent are not looked at. *)
chasedIssued(i, r) == r.status = "issued" /\ i \in late /\ r.paid < gross[i]
chased(i, r) == r.status \in {"issued", "sent"} /\ i \in late /\ r.paid < gross[i]

(* Mutant: an update that does not wait. *)
FreeAlways(t, i) == TRUE
Free(t, i) == \A u \in Tx \ {t} : i \notin DOMAIN work[u]
rowSeenBy(t, i) == IF i \in DOMAIN work[t] THEN work[t][i] ELSE invoice[i]

-----------------------------------------------------------------------------
Init ==
    /\ invoice = [i \in Invoices |-> [paid |-> 0, status |-> "issued"]]
    /\ late = {}
    /\ payment = Nothing
    /\ credits = [i \in Invoices |-> 0]
    /\ sends = 0
    /\ doing = [t \in Tx |-> Idle]
    /\ todo = [t \in Tx |-> <<>>]
    /\ work = [t \in Tx |-> Nothing]
    /\ raced = {}
    /\ overwritten = {}
    /\ requests = 0
    /\ faults = 0

Begin(t, request, statements) ==
    /\ doing[t] = Idle
    /\ doing' = [doing EXCEPT ![t] = request]
    /\ todo' = [todo EXCEPT ![t] = statements]
    /\ UNCHANGED <<tables, work, overwritten, faults>>

planned(t) == IF doing[t].kind = "pay" THEN paidBy(doing[t].plan) ELSE {}

Ask == requests < MaxRequests /\ requests' = requests + 1

(* recordPayment: open invoices are read, the payment allocated to them and  *)
(* inserted; an UPDATE for each allocation follows.                          *)
RecordPayment(t, p) ==
    LET plan == allocatePayment(amount[p]) IN
    /\ Ask
    /\ p \notin DOMAIN payment
    /\ \A u \in Tx : doing[u].kind = "pay" => doing[u].payment # p
    /\ \E seq \in ascending(paidBy(plan)) :
          Begin(t, [kind |-> "pay", payment |-> p, plan |-> plan],
                [k \in DOMAIN seq |-> [op |-> "apply", inv |-> seq[k], n |-> plan[seq[k]]]])
    /\ raced' = raced \cup (paidBy(plan) \cap UNION {planned(u) : u \in Sessions})

(* createCreditNote *)
CreateCreditNote(t, i) ==
    /\ Ask
    /\ Begin(t, [kind |-> "credit", inv |-> i], <<[op |-> "credit", inv |-> i]>>)
    /\ UNCHANGED raced

(* The sweep finds the rows in an order of its own. *)
Sweep ==
    LET found == {i \in Invoices : chased(i, invoice[i])} IN
    /\ found # {}
    /\ \E seq \in SetToSeqs(found) :
          Begin(Sweeper, [kind |-> "sweep"],
                [k \in DOMAIN seq |-> [op |-> "overdue", inv |-> seq[k]]])
    /\ UNCHANGED <<raced, requests>>

-----------------------------------------------------------------------------
End(t) ==
    /\ doing' = [doing EXCEPT ![t] = Idle]
    /\ todo' = [todo EXCEPT ![t] = <<>>]
    /\ work' = [work EXCEPT ![t] = Nothing]

refused(s, r) == s.op = "credit" /\ r.status = "credited"
matches(s, r) == s.op = "overdue" => chased(s.inv, r)

(* Mutant: the header of an invoice to credit is read without FOR UPDATE. *)
StatementUnlocked(t) ==
    /\ todo[t] # <<>>
    /\ LET s == Head(todo[t])
           r == IF s.op = "credit" THEN invoice[s.inv] ELSE rowSeenBy(t, s.inv)
       IN /\ s.op # "credit" => Free(t, s.inv)
          /\ ~refused(s, r)
          /\ work' = [work EXCEPT ![t] =
                        over(one(s.inv, IF matches(s, r) THEN updated(s.inv, r, s) ELSE r), @)]
          /\ overwritten' = IF s.op = "apply" /\ r.status = "credited"
                            THEN overwritten \cup {s.inv} ELSE overwritten
    /\ todo' = [todo EXCEPT ![t] = Tail(@)]
    /\ UNCHANGED <<tables, doing, raced, requests, faults>>

(* The next statement, once the row is free.  A row that the sweep waited for *)
(* and that does not match any more stays locked as it is.                   *)
Statement(t) ==
    /\ todo[t] # <<>>
    /\ LET s == Head(todo[t])
           r == rowSeenBy(t, s.inv)
       IN /\ Free(t, s.inv)
          /\ ~refused(s, r)
          /\ work' = [work EXCEPT ![t] =
                        over(one(s.inv, IF matches(s, r) THEN updated(s.inv, r, s) ELSE r), @)]
          /\ overwritten' = IF s.op = "apply" /\ r.status = "credited"
                            THEN overwritten \cup {s.inv} ELSE overwritten
    /\ todo' = [todo EXCEPT ![t] = Tail(@)]
    /\ UNCHANGED <<tables, doing, raced, requests, faults>>

(* An invoice that is credited already is not credited again. *)
Refuse(t) ==
    /\ todo[t] # <<>>
    /\ Free(t, Head(todo[t]).inv)
    /\ refused(Head(todo[t]), rowSeenBy(t, Head(todo[t]).inv))
    /\ End(t)
    /\ UNCHANGED <<tables, history>>

Commit(t) ==
    /\ doing[t] # Idle
    /\ todo[t] = <<>>
    /\ invoice' = over(work[t], invoice)
    /\ payment' = IF doing[t].kind = "pay" THEN over(one(doing[t].payment, doing[t].plan), payment)
                  ELSE payment
    /\ credits' = IF doing[t].kind = "credit" THEN [credits EXCEPT ![doing[t].inv] = @ + 1]
                  ELSE credits
    /\ End(t)
    /\ UNCHANGED <<late, sends, history>>

Rollback(t) ==
    /\ doing[t] # Idle
    /\ faults < MaxFaults
    /\ faults' = faults + 1
    /\ End(t)
    /\ UNCHANGED <<tables, raced, overwritten, requests>>

(* PostgreSQL ends one of the transactions that wait for each other. *)
waitsFor == [t, u \in Tx |-> t # u /\ todo[t] # <<>> /\ Head(todo[t]).inv \in DOMAIN work[u]]
BreakDeadlock(t) ==
    /\ TransitiveClosure(waitsFor, Tx)[t, t]
    /\ End(t)
    /\ UNCHANGED <<tables, history>>

-----------------------------------------------------------------------------
(* The e-invoice handler has transmitted the document and marks the invoice  *)
(* sent, whatever its status is by then.  Events are handled at least once.  *)
MarkSent(i) ==
    /\ sends < MaxSends
    /\ \A t \in Tx : i \notin DOMAIN work[t]
    /\ sends' = sends + 1
    /\ invoice' = [invoice EXCEPT ![i].status = "sent"]
    /\ overwritten' = IF invoice[i].status \in {"paid", "credited"} THEN overwritten \cup {i}
                      ELSE overwritten
    /\ UNCHANGED <<late, payment, credits, doing, todo, work, raced, requests, faults>>

DueDatePasses(i) ==
    /\ i \notin late
    /\ 1 .. i - 1 \subseteq late
    /\ late' = late \cup {i}
    /\ UNCHANGED <<invoice, payment, credits, sends, doing, todo, work, history>>

Run(t) == Statement(t) \/ Refuse(t) \/ Commit(t) \/ BreakDeadlock(t)

Next ==
    \/ \E t \in Sessions :
          (\E p \in Payments : RecordPayment(t, p)) \/ (\E i \in Invoices : CreateCreditNote(t, i))
    \/ Sweep
    \/ \E t \in Tx : Run(t) \/ Rollback(t)
    \/ \E i \in Invoices : MarkSent(i) \/ DueDatePasses(i)

Spec == Init /\ [][Next]_vars

(* The server executes what it was sent, and the sweep runs every hour.     *)
FairSpec == Spec /\ WF_vars(Sweep) /\ \A t \in Tx : WF_vars(Run(t))

-----------------------------------------------------------------------------
applied(p, i) == IF p \in DOMAIN payment THEN payment[p][i] ELSE 0

(* TypeOK: a recorded payment is split into allocations and a remainder that *)
(* is not negative.                                                          *)
TypeOK ==
    /\ invoice \in [Invoices -> [paid : Nat, status : OPEN \cup {"paid", "credited"}]]
    /\ late \subseteq Invoices
    /\ DOMAIN payment \subseteq Payments
    /\ \A p \in DOMAIN payment :
          /\ payment[p] \in [Invoices -> Nat]
          /\ Total(payment[p]) <= amount[p]
    /\ \A t \in Tx : DOMAIN work[t] \subseteq Invoices
    /\ credits \in [Invoices -> Nat]
    /\ sends \in Nat

(* PaidIsAllocated: paid_minor is the sum of the invoice's allocations, over *)
(* payments that race each other, credit notes and sweeps on the same row.   *)
PaidIsAllocated ==
    \A i \in Invoices : invoice[i].paid = Total([p \in Payments |-> applied(p, i)])

(* OverpaidHasCause: an invoice takes more than its gross only if two        *)
(* payments were allocated to it at the same time ("Never applies more than  *)
(* an invoice's outstanding balance", receivables.ts).                       *)
OverpaidHasCause == \A i \in Invoices : invoice[i].paid > gross[i] => i \in raced

(* StatusTellsBalance: the status an invoice shows agrees with its balance,  *)
(* and one that is paid up shows something else only if its status was       *)
(* overwritten.                                                              *)
StatusTellsBalance ==
    \A i \in Invoices :
        LET r == invoice[i] IN
        /\ r.status = "paid" => r.paid >= gross[i]
        /\ r.status = "partly_paid" => 0 < r.paid /\ r.paid < gross[i]
        /\ r.status = "overdue" => i \in late /\ r.paid < gross[i]
        /\ r.paid >= gross[i] => r.status \in {"paid", "credited"} \/ i \in overwritten

(* CreditHasCause: two requests at once do not credit an invoice twice; a    *)
(* second credit note takes a status that was overwritten since the first.   *)
CreditHasCause == \A i \in Invoices : credits[i] > 1 => i \in overwritten

(* Chased: an overdue invoice does not stay issued or sent.                  *)
Chased ==
    \A i \in Invoices :
        []<>(i \in late /\ invoice[i].paid < gross[i] => invoice[i].status \notin {"issued", "sent"})
=============================================================================
