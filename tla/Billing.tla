------------------------------ MODULE Billing ------------------------------
(***************************************************************************)
(* From finished work and accepted quotes to invoices.  An order is billed   *)
(* alone (issueFromWorkOrder) or with others on a consolidated invoice       *)
(* (issueConsolidated); an estimate is turned into an invoice in three       *)
(* transactions: it is read, the invoice issued, the estimate marked.        *)
(*                                                                           *)
(* order, estimate and invoices are committed rows.  A transaction locks its *)
(* rows one after the other (toLock) and knows each as it was when it got    *)
(* the lock (held); what it then does it does with its commit, since the     *)
(* rows it writes are locked and nobody else reads them for a decision.      *)
(***************************************************************************)
EXTENDS Naturals, Sequences, FiniteSets, FiniteSetsExt, SequencesExt, Relation

CONSTANTS Sessions,
          Orders,      \* finished orders of one customer
          Unpriced,    \* those that may turn out to have no line, or none to bill
          Estimates,   \* quotes with lines to bill
          Targets,     \* statuses asked for an estimate; all but invoiced are alike to the code
          MaxRequests, \* bound: requests
          MaxFaults    \* bound: transactions that fail

STATUSES == {"draft", "sent", "accepted", "rejected", "invoiced"}

ASSUME BillingAssumption ==
    /\ Targets \subseteq STATUSES
    /\ Unpriced \subseteq Orders
    /\ Orders \cap Estimates = {}
    /\ IsFiniteSet(Orders)
    /\ {MaxRequests, MaxFaults} \subseteq Nat

VARIABLES order,     \* status
          orderLines, \* the lines an order has
          estimate,  \* status, version of the lines, number of its invoice (0: none)
          invoices,  \* issued: what each one bills
          req,       \* the request a session works on
          toLock, held,
          raced,     \* history: estimates converted by two requests at once
          unmarked,  \* history: estimates whose marking failed after the invoice
          requests, faults

tables == <<order, orderLines, estimate, invoices>>
history == <<raced, unmarked>>
bounds == <<requests, faults>>
vars == <<tables, req, toLock, held, history, bounds>>

Idle == [op |-> "idle"]
Nothing == [x \in {} |-> 0]
Rows == Orders \cup Estimates
LineKinds == {"none", "free", "priced"}  \* free: only discounts and lines that cost nothing
OrderStatuses == {"in_progress", "ready", "invoiced", "closed", "cancelled"}
Same == "same"

(* The arrows of the table between these statuses. *)
TRANSITIONS ==
    {<<"in_progress", "ready">>, <<"in_progress", "cancelled">>, <<"ready", "invoiced">>,
     <<"ready", "in_progress">>, <<"invoiced", "closed">>}

(* The orders with a line to bill: no discount, and not for nothing.         *)
billable == {o \in Orders : orderLines[o] = "priced"}
row(r) == IF r \in Orders THEN order[r] ELSE estimate[r]
billsOf(r) == {n \in DOMAIN invoices : r \in invoices[n].of}
invoice_work_orders == UNION {invoices[n].of : n \in {m \in DOMAIN invoices : invoices[m].kind = "consolidated"}}
converting(e) == {s \in Sessions : req[s].op = "convert" /\ req[s].est = e}

-----------------------------------------------------------------------------
Init ==
    /\ order \in [Orders -> {"in_progress", "ready"}]
    /\ orderLines \in {f \in [Orders -> LineKinds] : \A o \in Orders \ Unpriced : f[o] = "priced"}
    /\ estimate = [e \in Estimates |-> [status |-> "draft", lines |-> 0, invoice |-> 0]]
    /\ invoices = <<>>
    /\ req = [s \in Sessions |-> Idle]
    /\ toLock = [s \in Sessions |-> <<>>]
    /\ held = [s \in Sessions |-> Nothing]
    /\ raced = {} /\ unmarked = {}
    /\ requests = 0 /\ faults = 0

(* A request arrives; rows is the order in which it will lock its rows.      *)
Begin(s, r, rows) ==
    /\ req[s] = Idle
    /\ requests < MaxRequests
    /\ requests' = requests + 1
    /\ req' = [req EXCEPT ![s] = r]
    /\ toLock' = [toLock EXCEPT ![s] = rows]
    /\ UNCHANGED <<tables, held, faults>>

AskOrders(s) ==
    /\ \/ \E o \in Orders : Begin(s, [op |-> "single"], <<o>>)
       \/ \E O \in SUBSET Orders \ {{}} : \E rows \in SetToSeqs(O) :
             Begin(s, [op |-> "consolidated"], rows)
       \/ \E o \in Orders, to \in OrderStatuses : Begin(s, [op |-> "transition", to |-> to], <<o>>)
    /\ UNCHANGED history

AskEstimate(s) ==
    /\ \E e \in Estimates :
          \/ \E to \in Targets \cup {Same} : Begin(s, [op |-> "update", to |-> to], <<e>>)
          \/ \E to \in Targets : Begin(s, [op |-> "status", to |-> to], <<e>>)
    /\ UNCHANGED history

End(s) ==
    /\ req' = [req EXCEPT ![s] = Idle]
    /\ toLock' = [toLock EXCEPT ![s] = <<>>]
    /\ held' = [held EXCEPT ![s] = Nothing]

(* Mutant: SELECT without FOR UPDATE. *)
FreeAlways(s, r) == TRUE
(* Mutant: only orders are read FOR UPDATE. *)
FreeEstimates(s, r) == r \in Estimates \/ \A t \in Sessions \ {s} : r \notin DOMAIN held[t]
(* A row somebody else has locked is waited for. *)
Free(s, r) == \A t \in Sessions \ {s} : r \notin DOMAIN held[t]

(* SELECT ... FOR UPDATE: the row as it is when the lock is granted.         *)
Lock(s) ==
    /\ toLock[s] # <<>>
    /\ LET r == Head(toLock[s]) IN
       /\ Free(s, r)
       /\ held' = [held EXCEPT ![s] =
                      [x \in DOMAIN held[s] \cup {r} |-> IF x = r THEN row(r) ELSE held[s][x]]]
    /\ toLock' = [toLock EXCEPT ![s] = Tail(@)]
    /\ UNCHANGED <<tables, req, history, bounds>>

Locked(s, op) == req[s].op = op /\ toLock[s] = <<>>
lockedRow(s) == CHOOSE r \in DOMAIN held[s] : TRUE

-----------------------------------------------------------------------------
(* issueFromWorkOrder: any order that is not invoiced or closed, if it has   *)
(* lines to bill.                                                            *)
mayBillSingly(st) == st \notin {"invoiced", "closed"}
issueFromWorkOrder(s) ==
    LET o == lockedRow(s) IN
    /\ Locked(s, "single")
    /\ mayBillSingly(held[s][o]) /\ o \in billable
    /\ order' = [order EXCEPT ![o] = "invoiced"]
    /\ invoices' = Append(invoices, [kind |-> "single", of |-> {o}])
    /\ End(s)
    /\ UNCHANGED <<orderLines, estimate, history, bounds>>

(* issueConsolidated: all orders ready, with lines to bill and on no other   *)
(* consolidated invoice; all become invoiced with the invoice.               *)
mayConsolidate(s) ==
    \A o \in DOMAIN held[s] :
        held[s][o] = "ready" /\ o \notin invoice_work_orders /\ o \in billable
issueConsolidated(s) ==
    /\ Locked(s, "consolidated")
    /\ mayConsolidate(s)
    /\ order' = [o \in Orders |-> IF o \in DOMAIN held[s] THEN "invoiced" ELSE order[o]]
    /\ invoices' = Append(invoices, [kind |-> "consolidated", of |-> DOMAIN held[s]])
    /\ End(s)
    /\ UNCHANGED <<orderLines, estimate, history, bounds>>

(* transition, billing aside: the table and the guard of "invoiced", which    *)
(* asks for a line of any kind (countBillableLines).                         *)
mayMove(o, from, to) ==
    \/ from = to
    \/ <<from, to>> \in TRANSITIONS /\ (to = "invoiced" => orderLines[o] # "none")
transition(s) ==
    LET o == lockedRow(s) IN
    /\ Locked(s, "transition")
    /\ mayMove(o, held[s][o], req[s].to)
    /\ order' = [order EXCEPT ![o] = req[s].to]
    /\ End(s)
    /\ UNCHANGED <<orderLines, estimate, invoices, history, bounds>>

-----------------------------------------------------------------------------
(* update and setStatus refuse an invoiced estimate; setStatus lets it be    *)
(* set to invoiced again, and both let anybody set it to invoiced.           *)
edited(s, e, q) ==
    /\ estimate' = [estimate EXCEPT ![e] = q]
    /\ End(s)
    /\ UNCHANGED <<order, orderLines, invoices, history, bounds>>

update(s) ==
    LET e == lockedRow(s) IN
    /\ Locked(s, "update")
    /\ held[s][e].status # "invoiced"
    /\ edited(s, e, [estimate[e] EXCEPT !.lines = @ + 1,
                                       !.status = IF req[s].to = Same THEN @ ELSE req[s].to])

setStatus(s) ==
    LET e == lockedRow(s) IN
    /\ Locked(s, "status")
    /\ held[s][e].status = "invoiced" => req[s].to = "invoiced"
    /\ edited(s, e, [estimate[e] EXCEPT !.status = req[s].to])

(* toInvoice, first transaction: the estimate is read and checked.           *)
(* Mutant: only a rejected estimate is refused. *)
convertibleAlways(q) == q.status # "rejected"
convertible(q) == q.status # "invoiced" /\ q.invoice = 0
toInvoice(s) ==
    \E e \in Estimates :
        /\ convertible(estimate[e])
        /\ Begin(s, [op |-> "convert", est |-> e, quote |-> estimate[e], invoice |-> 0], <<>>)
        /\ raced' = IF converting(e) # {} THEN raced \cup {e} ELSE raced
        /\ UNCHANGED unmarked

(* Second transaction: the invoice of the quote as it was read.              *)
issueFromLines(s) ==
    /\ req[s].op = "convert" /\ req[s].invoice = 0
    /\ invoices' = Append(invoices, [kind |-> "lines", of |-> {req[s].est}])
    /\ req' = [req EXCEPT ![s].invoice = Len(invoices) + 1]
    /\ UNCHANGED <<order, orderLines, estimate, toLock, held, history, bounds>>

(* Third transaction: the estimate is marked, whatever it has become.        *)
Mark(s) ==
    /\ req[s].op = "convert" /\ req[s].invoice # 0
    /\ Free(s, req[s].est)
    /\ estimate' = [estimate EXCEPT ![req[s].est].status = "invoiced",
                                    ![req[s].est].invoice = req[s].invoice]
    /\ End(s)
    /\ UNCHANGED <<order, orderLines, invoices, history, bounds>>

-----------------------------------------------------------------------------
refused(s) ==
    LET r == lockedRow(s) IN
    CASE req[s].op = "single" -> ~(mayBillSingly(held[s][r]) /\ r \in billable)
      [] req[s].op = "consolidated" -> ~mayConsolidate(s)
      [] req[s].op = "transition" -> ~mayMove(r, held[s][r], req[s].to)
      [] req[s].op = "update" -> held[s][r].status = "invoiced"
      [] req[s].op = "status" -> held[s][r].status = "invoiced" /\ req[s].to # "invoiced"
      [] OTHER -> FALSE

(* Mutant: a refused request does not give its rows back. *)
RefuseLeaks(s) ==
    /\ held[s] # Nothing /\ toLock[s] = <<>>
    /\ refused(s)
    /\ req' = [req EXCEPT ![s] = [op |-> "refused"]]
    /\ UNCHANGED <<tables, toLock, held, history, bounds>>
Refuse(s) ==
    /\ held[s] # Nothing /\ toLock[s] = <<>>
    /\ refused(s)
    /\ End(s)
    /\ UNCHANGED <<tables, history, bounds>>

(* A statement or the process fails.  What has committed stays.              *)
Rollback(s) ==
    /\ req[s] # Idle
    /\ faults < MaxFaults
    /\ faults' = faults + 1
    /\ unmarked' = IF req[s].op = "convert" /\ req[s].invoice # 0
                   THEN unmarked \cup {req[s].est} ELSE unmarked
    /\ End(s)
    /\ UNCHANGED <<tables, raced, requests>>

(* PostgreSQL ends one of the transactions that wait for each other.         *)
waitsFor == [s, t \in Sessions |->
                s # t /\ toLock[s] # <<>> /\ Head(toLock[s]) \in DOMAIN held[t]]
BreakDeadlock(s) ==
    /\ toLock[s] # <<>>
    /\ TransitiveClosure(waitsFor, Sessions)[s, s]
    /\ End(s)
    /\ UNCHANGED <<tables, history, bounds>>

Run(s) ==
    \/ Lock(s) \/ Refuse(s) \/ BreakDeadlock(s)
    \/ issueFromWorkOrder(s) \/ issueConsolidated(s) \/ transition(s)
    \/ update(s) \/ setStatus(s) \/ issueFromLines(s) \/ Mark(s)

Next == \E s \in Sessions :
            AskOrders(s) \/ AskEstimate(s) \/ toInvoice(s) \/ Run(s) \/ Rollback(s)

Spec == Init /\ [][Next]_vars

(* The server executes the statements of a request it has begun.             *)
FairSpec == Spec /\ \A s \in Sessions : WF_vars(Run(s))

-----------------------------------------------------------------------------
TypeOK ==
    /\ order \in [Orders -> OrderStatuses]
    /\ orderLines \in [Orders -> LineKinds]
    /\ estimate \in [Estimates -> [status : STATUSES, lines : Nat, invoice : 0 .. Len(invoices)]]
    /\ \A n \in DOMAIN invoices : invoices[n].of \subseteq Rows
    /\ \A s \in Sessions : DOMAIN held[s] \subseteq Rows

(* BilledOnce: an order that is on an invoice is on that one only and stays  *)
(* invoiced or closed, whether it was billed alone or with others and        *)
(* whatever else was asked for it meanwhile.                                 *)
BilledOnce ==
    \A o \in Orders : billsOf(o) # {} =>
        Cardinality(billsOf(o)) = 1 /\ order[o] \in {"invoiced", "closed"}

(* QuoteFrozen: an invoiced estimate keeps its status and its lines ("An     *)
(* invoiced estimate is immutable"), also over a change that had begun       *)
(* before.  The number of its invoice is not kept: the marking of a second   *)
(* conversion overwrites it.                                                 *)
QuoteFrozen ==
    [][\A e \in Estimates : estimate[e].status = "invoiced" =>
          estimate'[e].status = "invoiced" /\ estimate'[e].lines = estimate[e].lines]_vars

(* TwiceHasCause: an estimate gets a second invoice only if it was converted *)
(* by two requests at once, or if marking it failed after the first ("a      *)
(* retry is safely refused", toInvoice).                                     *)
TwiceHasCause ==
    \A e \in Estimates : Cardinality(billsOf(e)) > 1 => e \in raced \cup unmarked

(* Ends: a request ends, also of those that lock common orders in different  *)
(* orders.                                                                   *)
Ends == \A s \in Sessions : (req[s] # Idle) ~> (req[s] = Idle)
=============================================================================
