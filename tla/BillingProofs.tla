---------------------------- MODULE BillingProofs ----------------------------
(***************************************************************************)
(* An order is billed once, an invoiced estimate keeps its status and lines, *)
(* and a second invoice of an estimate has its cause, for any sessions,      *)
(* orders, estimates and bounds: what a transaction decides on is the row it has     *)
(* locked, and that row is as it was read until the transaction has ended.   *)
(***************************************************************************)
EXTENDS Billing, FiniteSetTheorems, TLAPS

(* What a request still has to lock and what it has locked.                  *)
OneOrder(s) == \E o \in Orders : \/ toLock[s] = <<o>> /\ DOMAIN held[s] = {}
                                 \/ toLock[s] = <<>> /\ DOMAIN held[s] = {o}
Shape(s) ==
    /\ req[s].op \in {"idle", "single", "transition", "consolidated", "update", "status", "convert"}
    /\ req[s].op = "idle" => toLock[s] = <<>> /\ DOMAIN held[s] = {}
    /\ req[s].op \in {"single", "transition"} => OneOrder(s)
    /\ req[s].op = "transition" => req[s].to \in OrderStatuses
    /\ req[s].op = "consolidated" => toLock[s] \in Seq(Orders) /\ DOMAIN held[s] \subseteq Orders
    /\ req[s].op \in {"update", "status"} =>
          toLock[s] \in Seq(Estimates) /\ DOMAIN held[s] \subseteq Estimates
    /\ req[s].op = "convert" =>
          toLock[s] = <<>> /\ DOMAIN held[s] = {} /\ req[s].est \in Estimates

Shapes ==
    /\ req = [s \in Sessions |-> req[s]]
    /\ toLock = [s \in Sessions |-> toLock[s]]
    /\ held = [s \in Sessions |-> held[s]]
    /\ \A s \in Sessions : Shape(s)

(* A locked order has one holder, who knows it as it is.                     *)
Held ==
    /\ \A s, t \in Sessions : s # t => DOMAIN held[s] \cap DOMAIN held[t] = {}
    /\ \A s \in Sessions, o \in Orders : o \in DOMAIN held[s] => held[s][o] = order[o]

(* An order is on no invoice, or on one and never to be billed again.        *)
Bills(o) ==
    \/ billsOf(o) = {}
    \/ order[o] \in {"invoiced", "closed"} /\ \E n : billsOf(o) = {n}

Tables ==
    /\ order \in [Orders -> OrderStatuses]
    /\ invoices \in Seq([kind : {"single", "consolidated", "lines"}, of : SUBSET Rows])
    /\ \A o \in Orders : Bills(o)

BInv == Shapes /\ Held /\ Tables

-----------------------------------------------------------------------------
(* Nothing is billed and nothing asked for at first. *)
LEMMA InitBInv == Init => BInv
<1> SUFFICES ASSUME Init PROVE BInv
  OBVIOUS
<1>1. Shapes
  BY DEF Init, Shapes, Shape, Idle, Nothing
<1>2. Held
  BY DEF Init, Held, Nothing
<1>3. Tables
  BY DEF Init, Tables, Bills, billsOf, OrderStatuses
<1> QED
  BY <1>1, <1>2, <1>3 DEF BInv

(* A request that has just begun has locked nothing.                         *)
LEMMA BeginPreserves ==
    ASSUME BInv, NEW s \in Sessions, NEW r, NEW rows, Begin(s, r, rows),
           \/ r.op \in {"single", "transition"} /\ \E o \in Orders : rows = <<o>>
           \/ r.op = "consolidated" /\ rows \in Seq(Orders)
           \/ r.op \in {"update", "status"} /\ rows \in Seq(Estimates)
           \/ r.op = "convert" /\ rows = <<>> /\ r.est \in Estimates,
           r.op = "transition" => r.to \in OrderStatuses
    PROVE  BInv'
<1>1. /\ req' = [req EXCEPT ![s] = r]
      /\ toLock' = [toLock EXCEPT ![s] = rows]
      /\ UNCHANGED <<order, invoices, held>>
      /\ req[s].op = "idle"
  BY DEF Begin, tables, Idle
<1>2. DOMAIN held[s] = {}
  BY <1>1 DEF BInv, Shapes, Shape
<1>3. Shape(s)'
  BY <1>1, <1>2 DEF BInv, Shapes, Shape, OneOrder
<1>4. ASSUME NEW t \in Sessions, t # s PROVE Shape(t)'
  BY <1>1, <1>4 DEF BInv, Shapes, Shape, OneOrder
<1>5. Shapes'
  BY <1>1, <1>3, <1>4 DEF BInv, Shapes
<1>6. Held'
  BY <1>1 DEF BInv, Held
<1>7. Tables'
  BY <1>1 DEF BInv, Tables, Bills, billsOf
<1> QED
  BY <1>5, <1>6, <1>7 DEF BInv

(* A request that ends, having changed no order but those it had locked.     *)
LEMMA EndPreserves ==
    ASSUME BInv, NEW s \in Sessions, End(s), Tables',
           \A o \in Orders : o \in DOMAIN held[s] \/ order'[o] = order[o]
    PROVE  BInv'
<1>1. /\ req' = [req EXCEPT ![s] = Idle]
      /\ toLock' = [toLock EXCEPT ![s] = <<>>]
      /\ held' = [held EXCEPT ![s] = Nothing]
  BY DEF End
<1>2. DOMAIN Nothing = {}
  BY DEF Nothing
<1>3. Shape(s)'
  BY <1>1, <1>2 DEF BInv, Shapes, Shape, Idle
<1>4. ASSUME NEW t \in Sessions, t # s PROVE Shape(t)'
  BY <1>1, <1>4 DEF BInv, Shapes, Shape, OneOrder
<1>5. Shapes'
  BY <1>1, <1>3, <1>4 DEF BInv, Shapes
<1>6. held'[s] = Nothing /\ \A t \in Sessions : t # s => held'[t] = held[t]
  BY <1>1 DEF BInv, Shapes
<1>7. \A t, u \in Sessions : t # u => DOMAIN held'[t] \cap DOMAIN held'[u] = {}
  BY <1>2, <1>6 DEF BInv, Held
<1>8. \A t \in Sessions, o \in Orders : o \in DOMAIN held'[t] => held'[t][o] = order'[o]
  BY <1>2, <1>6 DEF BInv, Held
<1> QED
  BY <1>5, <1>7, <1>8 DEF BInv, Held

(* ... or none at all.                                                       *)
LEMMA EndUnbilled ==
    ASSUME BInv, NEW s \in Sessions, End(s), UNCHANGED <<order, invoices>>
    PROVE  BInv'
<1>1. Tables'
  BY DEF BInv, Tables, Bills, billsOf
<1> QED
  BY <1>1, EndPreserves

(* What a new invoice adds to the bills of an order.                         *)
LEMMA NewInvoice ==
    ASSUME BInv, NEW inv \in [kind : {"single", "consolidated", "lines"}, of : SUBSET Rows],
           invoices' = Append(invoices, inv)
    PROVE  /\ invoices' \in Seq([kind : {"single", "consolidated", "lines"}, of : SUBSET Rows])
           /\ \A o : billsOf(o)' = IF o \in inv.of THEN billsOf(o) \cup {Len(invoices) + 1}
                                   ELSE billsOf(o)
<1> DEFINE Invoice == [kind : {"single", "consolidated", "lines"}, of : SUBSET Rows]
<1>0. invoices \in Seq(Invoice) /\ inv \in Invoice
  BY DEF BInv, Tables
<1> HIDE DEF Invoice
<1>1. /\ invoices' \in Seq(Invoice)
      /\ DOMAIN invoices' = DOMAIN invoices \cup {Len(invoices) + 1}
      /\ \A n \in DOMAIN invoices : invoices'[n] = invoices[n]
      /\ invoices'[Len(invoices) + 1] = inv
      /\ Len(invoices) + 1 \notin DOMAIN invoices
  BY <1>0
<1>2. \A o : billsOf(o)' = IF o \in inv.of THEN billsOf(o) \cup {Len(invoices) + 1}
                           ELSE billsOf(o)
  BY <1>1 DEF billsOf
<1> QED
  BY <1>1, <1>2 DEF Invoice

(* Orders that were on no invoice are billed and marked.                     *)
LEMMA BillingPreserves ==
    ASSUME BInv, NEW s \in Sessions, NEW kind \in {"single", "consolidated"}, NEW O \in SUBSET Orders,
           O \subseteq DOMAIN held[s],
           \A o \in O : order[o] \notin {"invoiced", "closed"},
           order' = [o \in Orders |-> IF o \in O THEN "invoiced" ELSE order[o]],
           invoices' = Append(invoices, [kind |-> kind, of |-> O]),
           End(s)
    PROVE  BInv'
<1>1. [kind |-> kind, of |-> O] \in [kind : {"single", "consolidated", "lines"}, of : SUBSET Rows]
  BY DEF Rows
<1>2. /\ invoices' \in Seq([kind : {"single", "consolidated", "lines"}, of : SUBSET Rows])
      /\ \A o : billsOf(o)' = IF o \in O THEN billsOf(o) \cup {Len(invoices) + 1} ELSE billsOf(o)
  BY <1>1, NewInvoice
<1>3. ASSUME NEW o \in Orders PROVE Bills(o)'
  <2>1. CASE o \in O
    <3>1. billsOf(o) = {}
      BY <2>1 DEF BInv, Tables, Bills
    <3> QED
      BY <2>1, <3>1, <1>2 DEF Bills
  <2>2. CASE o \notin O
    BY <2>2, <1>2 DEF BInv, Tables, Bills
  <2> QED
    BY <2>1, <2>2
<1>4. order' \in [Orders -> OrderStatuses]
  BY DEF BInv, Tables, OrderStatuses
<1>5. Tables'
  BY <1>2, <1>3, <1>4 DEF Tables
<1> QED
  BY <1>5, EndPreserves

(* A request for one order, all locked, holds that order as it is.           *)
LEMMA LockedOrder ==
    ASSUME BInv, NEW s \in Sessions, req[s].op \in {"single", "transition"}, toLock[s] = <<>>
    PROVE  /\ lockedRow(s) \in Orders
           /\ lockedRow(s) \in DOMAIN held[s]
           /\ held[s][lockedRow(s)] = order[lockedRow(s)]
<1>0. OneOrder(s)
  BY DEF BInv, Shapes, Shape
<1>1. PICK o \in Orders : DOMAIN held[s] = {o}
  BY <1>0 DEF OneOrder
<1>2. lockedRow(s) = o
  BY <1>1 DEF lockedRow
<1> QED
  BY <1>1, <1>2 DEF BInv, Held

-----------------------------------------------------------------------------
(* Lock knows the row as it is, and nobody else has it.                      *)
LEMMA LockPreserves == ASSUME BInv, NEW s \in Sessions, Lock(s) PROVE BInv'
<1> DEFINE r == Head(toLock[s])
<1>1. /\ toLock[s] # <<>>
      /\ \A t \in Sessions \ {s} : r \notin DOMAIN held[t]
      /\ held' = [held EXCEPT ![s] = [x \in DOMAIN held[s] \cup {r} |->
                                     IF x = r THEN row(r) ELSE held[s][x]]]
      /\ toLock' = [toLock EXCEPT ![s] = Tail(toLock[s])]
      /\ UNCHANGED <<order, invoices, req>>
  BY DEF Lock, Free, tables
<1>2. /\ held'[s] = [x \in DOMAIN held[s] \cup {r} |-> IF x = r THEN row(r) ELSE held[s][x]]
      /\ \A t \in Sessions \ {s} : held'[t] = held[t]
  BY <1>1 DEF BInv, Shapes
<1>3. /\ DOMAIN held'[s] = DOMAIN held[s] \cup {r}
      /\ held'[s][r] = row(r)
      /\ \A x \in DOMAIN held[s] \ {r} : held'[s][x] = held[s][x]
  BY <1>2
<1>4. toLock'[s] = Tail(toLock[s])
  BY <1>1 DEF BInv, Shapes
<1>5. Shape(s)'
  <2>1. CASE req[s].op \in {"single", "transition"}
    <3>1. PICK o \in Orders : toLock[s] = <<o>> /\ DOMAIN held[s] = {}
      BY <2>1, <1>1 DEF BInv, Shapes, Shape, OneOrder
    <3>2. toLock'[s] = <<>> /\ DOMAIN held'[s] = {o}
      BY <3>1, <1>3, <1>4
    <3>3. OneOrder(s)'
      BY <3>2 DEF OneOrder
    <3> QED
      BY <2>1, <3>3, <1>1 DEF BInv, Shapes, Shape
  <2>2. CASE req[s].op = "consolidated"
    <3>1. toLock[s] \in Seq(Orders) /\ DOMAIN held[s] \subseteq Orders
      BY <2>2 DEF BInv, Shapes, Shape
    <3>2. r \in Orders /\ Tail(toLock[s]) \in Seq(Orders)
      BY <3>1, <1>1
    <3> QED
      BY <2>2, <3>1, <3>2, <1>1, <1>3, <1>4 DEF Shape
  <2>3. CASE req[s].op \in {"update", "status"}
    <3>1. toLock[s] \in Seq(Estimates) /\ DOMAIN held[s] \subseteq Estimates
      BY <2>3 DEF BInv, Shapes, Shape
    <3>2. r \in Estimates /\ Tail(toLock[s]) \in Seq(Estimates)
      BY <3>1, <1>1
    <3> QED
      BY <2>3, <3>1, <3>2, <1>1, <1>3, <1>4 DEF Shape
  <2> QED
    BY <2>1, <2>2, <2>3, <1>1 DEF BInv, Shapes, Shape
<1>6. ASSUME NEW t \in Sessions, t # s PROVE Shape(t)'
  BY <1>1, <1>6 DEF BInv, Shapes, Shape, OneOrder
<1>7. Shapes'
  BY <1>1, <1>5, <1>6 DEF BInv, Shapes
<1> HIDE DEF r
<1>8. \A t, u \in Sessions : t # u => DOMAIN held'[t] \cap DOMAIN held'[u] = {}
  BY <1>1, <1>2, <1>3 DEF BInv, Held
<1>9. ASSUME NEW t \in Sessions, NEW o \in Orders, o \in DOMAIN held'[t]
      PROVE  held'[t][o] = order'[o]
  <2>1. CASE t = s /\ o = r
    BY <2>1, <1>1, <1>3 DEF row
  <2>2. CASE t = s /\ o # r
    BY <2>2, <1>1, <1>3, <1>9 DEF BInv, Held
  <2>3. CASE t # s
    BY <2>3, <1>1, <1>2, <1>9 DEF BInv, Held
  <2> QED
    BY <2>1, <2>2, <2>3
<1>10. Held'
  BY <1>8, <1>9 DEF Held
<1>11. Tables'
  BY <1>1 DEF BInv, Tables, Bills, billsOf
<1> QED
  BY <1>7, <1>10, <1>11 DEF BInv

LEMMA SinglePreserves == ASSUME BInv, NEW s \in Sessions, issueFromWorkOrder(s) PROVE BInv'
<1> DEFINE o == lockedRow(s)
<1>1. o \in Orders /\ o \in DOMAIN held[s] /\ held[s][o] = order[o]
  BY LockedOrder DEF issueFromWorkOrder, Locked
<1>2. /\ order[o] \notin {"invoiced", "closed"}
      /\ order' = [order EXCEPT ![o] = "invoiced"]
      /\ invoices' = Append(invoices, [kind |-> "single", of |-> {o}])
      /\ End(s)
  BY <1>1 DEF issueFromWorkOrder, mayBillSingly
<1> HIDE DEF o
<1>3. order' = [x \in Orders |-> IF x \in {o} THEN "invoiced" ELSE order[x]]
  BY <1>2 DEF BInv, Tables
<1> QED
  BY <1>1, <1>2, <1>3, BillingPreserves

LEMMA ConsolidatedPreserves == ASSUME BInv, NEW s \in Sessions, issueConsolidated(s) PROVE BInv'
<1> DEFINE O == DOMAIN held[s]
<1>1. O \subseteq Orders
  BY DEF BInv, Shapes, Shape, issueConsolidated, Locked
<1>2. \A o \in O : order[o] \notin {"invoiced", "closed"}
  BY <1>1 DEF issueConsolidated, mayConsolidate, BInv, Held
<1>3. order' = [x \in Orders |-> IF x \in O THEN "invoiced" ELSE order[x]]
  BY <1>1 DEF issueConsolidated, BInv, Tables
<1>4. invoices' = Append(invoices, [kind |-> "consolidated", of |-> O]) /\ End(s)
  BY DEF issueConsolidated
<1> HIDE DEF O
<1>5. O \in SUBSET Orders /\ O \subseteq DOMAIN held[s]
  BY <1>1 DEF O
<1> QED
  BY <1>2, <1>3, <1>4, <1>5, BillingPreserves

(* The table leads from invoiced to closed only, and from closed nowhere.    *)
LEMMA TransitionPreserves == ASSUME BInv, NEW s \in Sessions, transition(s) PROVE BInv'
<1> DEFINE o == lockedRow(s)
<1>1. /\ o \in Orders /\ o \in DOMAIN held[s] /\ held[s][o] = order[o]
      /\ req[s].to \in OrderStatuses
  BY LockedOrder DEF transition, Locked, BInv, Shapes, Shape
<1>2. /\ order' = [order EXCEPT ![o] = req[s].to]
      /\ mayMove(o, order[o], req[s].to)
      /\ UNCHANGED invoices
      /\ End(s)
  BY <1>1 DEF transition
<1> HIDE DEF o
<1>3. order[o] \in {"invoiced", "closed"} => req[s].to \in {"invoiced", "closed"}
  BY <1>2 DEF mayMove, TRANSITIONS
<1>4. order' \in [Orders -> OrderStatuses]
  BY <1>1, <1>2 DEF BInv, Tables
<1>5. ASSUME NEW p \in Orders PROVE Bills(p)'
  BY <1>1, <1>2, <1>3 DEF BInv, Tables, Bills, billsOf
<1>6. Tables'
  BY <1>2, <1>4, <1>5 DEF BInv, Tables
<1>7. \A p \in Orders : p \in DOMAIN held[s] \/ order'[p] = order[p]
  BY <1>1, <1>2 DEF BInv, Tables
<1> QED
  BY <1>2, <1>6, <1>7, EndPreserves

(* The invoice of an estimate is on no order.                                *)
LEMMA LinesPreserves == ASSUME BInv, NEW s \in Sessions, issueFromLines(s) PROVE BInv'
<1> DEFINE e == req[s].est
           inv == [kind |-> "lines", of |-> {e}]
<1>1. /\ req[s].op = "convert"
      /\ invoices' = Append(invoices, inv)
      /\ req' = [req EXCEPT ![s] = [req[s] EXCEPT !.invoice = Len(invoices) + 1]]
      /\ UNCHANGED <<order, toLock, held>>
  BY DEF issueFromLines
<1>2. e \in Estimates
  BY <1>1 DEF BInv, Shapes, Shape
<1>3. inv \in [kind : {"single", "consolidated", "lines"}, of : SUBSET Rows] /\ inv.of = {e}
  BY <1>2 DEF Rows
<1> HIDE DEF inv
<1>4. /\ invoices' \in Seq([kind : {"single", "consolidated", "lines"}, of : SUBSET Rows])
      /\ \A o \in Orders : billsOf(o)' = billsOf(o)
  BY <1>1, <1>2, <1>3, NewInvoice, BillingAssumption
<1>5. Tables'
  BY <1>1, <1>4 DEF BInv, Tables, Bills
<1>6. ASSUME NEW t \in Sessions
      PROVE  req'[t].op = req[t].op /\ (req[t].op # "convert" => req'[t] = req[t])
             /\ (req[t].op = "convert" => req'[t].est = req[t].est)
  <2>1. CASE t = s
    <3>1. req'[s] = [req[s] EXCEPT !.invoice = Len(invoices) + 1]
      BY <1>1 DEF BInv, Shapes
    <3>2. req'[s].op = req[s].op /\ req'[s].est = req[s].est
      BY <3>1
    <3> QED
      BY <2>1, <3>2, <1>1
  <2>2. CASE t # s
    BY <1>1, <2>2 DEF BInv, Shapes
  <2> QED
    BY <2>1, <2>2
<1>7. ASSUME NEW t \in Sessions PROVE Shape(t)'
  BY <1>1, <1>6 DEF BInv, Shapes, Shape, OneOrder
<1>8. Shapes' /\ Held'
  BY <1>1, <1>7 DEF BInv, Shapes, Held
<1> QED
  BY <1>5, <1>8 DEF BInv

(* The orders of a consolidated request, in any order of locking.            *)
LEMMA OrdersInSequence ==
    ASSUME NEW O \in SUBSET Orders, NEW rows \in SetToSeqs(O)
    PROVE  rows \in Seq(Orders)
<1>1. IsFiniteSet(O)
  BY BillingAssumption, FS_Subset
<1>2. Cardinality(O) \in Nat
  BY <1>1, FS_CardinalityType
<1>3. rows \in [1 .. Cardinality(O) -> O]
  BY DEF SetToSeqs
<1>4. rows \in Seq(O)
  BY <1>2, <1>3
<1> QED
  BY <1>4

(* A request of any kind begins. *)
LEMMA AskPreserves ==
    ASSUME BInv, NEW s \in Sessions, AskOrders(s) \/ AskEstimate(s) \/ toInvoice(s)
    PROVE  BInv'
<1>1. ASSUME NEW o \in Orders, Begin(s, [op |-> "single"], <<o>>) PROVE BInv'
  BY <1>1, BeginPreserves
<1>2. ASSUME NEW O \in SUBSET Orders, NEW rows \in SetToSeqs(O),
             Begin(s, [op |-> "consolidated"], rows)
      PROVE  BInv'
  BY <1>2, OrdersInSequence, BeginPreserves
<1>3. ASSUME NEW o \in Orders, NEW to \in OrderStatuses,
             Begin(s, [op |-> "transition", to |-> to], <<o>>)
      PROVE  BInv'
  BY <1>3, BeginPreserves
<1>4. ASSUME NEW e \in Estimates, NEW to, Begin(s, [op |-> "update", to |-> to], <<e>>) PROVE BInv'
  BY <1>4, BeginPreserves
<1>5. ASSUME NEW e \in Estimates, NEW to, Begin(s, [op |-> "status", to |-> to], <<e>>) PROVE BInv'
  BY <1>5, BeginPreserves
<1>6. ASSUME NEW e \in Estimates,
             Begin(s, [op |-> "convert", est |-> e, quote |-> estimate[e], invoice |-> 0], <<>>)
      PROVE  BInv'
  BY <1>6, BeginPreserves
<1>7. CASE AskOrders(s)
  BY <1>1, <1>2, <1>3, <1>7 DEF AskOrders
<1>8. CASE AskEstimate(s)
  BY <1>4, <1>5, <1>8 DEF AskEstimate
<1>9. CASE toInvoice(s)
  BY <1>6, <1>9 DEF toInvoice
<1> QED
  BY <1>7, <1>8, <1>9

(* The invariant is inductive. *)
LEMMA NextBInv == BInv /\ [Next]_vars => BInv'
<1> SUFFICES ASSUME BInv, [Next]_vars PROVE BInv'
  OBVIOUS
<1>1. ASSUME NEW s \in Sessions, AskOrders(s) \/ AskEstimate(s) \/ toInvoice(s) PROVE BInv'
  BY <1>1, AskPreserves
<1>2. ASSUME NEW s \in Sessions, Lock(s) PROVE BInv'
  BY <1>2, LockPreserves
<1>3. ASSUME NEW s \in Sessions, issueFromWorkOrder(s) PROVE BInv'
  BY <1>3, SinglePreserves
<1>4. ASSUME NEW s \in Sessions, issueConsolidated(s) PROVE BInv'
  BY <1>4, ConsolidatedPreserves
<1>5. ASSUME NEW s \in Sessions, transition(s) PROVE BInv'
  BY <1>5, TransitionPreserves
<1>6. ASSUME NEW s \in Sessions, issueFromLines(s) PROVE BInv'
  BY <1>6, LinesPreserves
<1>7. ASSUME NEW s \in Sessions,
             update(s) \/ setStatus(s) \/ Mark(s) \/ Refuse(s) \/ Rollback(s) \/ BreakDeadlock(s)
      PROVE  BInv'
  <2>1. End(s) /\ UNCHANGED <<order, invoices>>
    BY <1>7 DEF update, setStatus, edited, Mark, Refuse, Rollback, BreakDeadlock, tables
  <2> QED
    BY <2>1, EndUnbilled
<1>8. CASE UNCHANGED vars
  <2>1. UNCHANGED <<order, invoices, req, toLock, held>>
    BY <1>8 DEF vars, tables
  <2>2. Shapes' /\ Held'
    BY <2>1 DEF BInv, Shapes, Shape, OneOrder, Held
  <2>3. Tables'
    BY <2>1 DEF BInv, Tables, Bills, billsOf
  <2> QED
    BY <2>2, <2>3 DEF BInv
<1> QED
  BY <1>1, <1>2, <1>3, <1>4, <1>5, <1>6, <1>7, <1>8 DEF Next, Run

(* OrderBilledOnce: an order that is on an invoice is on that one only and   *)
(* stays invoiced or closed, however it was billed and whatever else was     *)
(* asked for it meanwhile.                                                   *)
THEOREM OrderBilledOnce == Spec => []BilledOnce
<1>1. BInv => BilledOnce
  <2> SUFFICES ASSUME BInv, NEW o \in Orders, billsOf(o) # {}
               PROVE  Cardinality(billsOf(o)) = 1 /\ order[o] \in {"invoiced", "closed"}
    BY DEF BilledOnce
  <2>1. PICK n : billsOf(o) = {n} /\ order[o] \in {"invoiced", "closed"}
    BY DEF BInv, Tables, Bills
  <2> QED
    BY <2>1, FS_Singleton
<1> QED
  BY <1>1, InitBInv, NextBInv, PTL DEF Spec
-----------------------------------------------------------------------------
(* Estimates: what a change has been asked for, and what a holder knows.     *)
OneEstimate(s) == \E e \in Estimates : \/ toLock[s] = <<e>> /\ DOMAIN held[s] = {}
                                       \/ toLock[s] = <<>> /\ DOMAIN held[s] = {e}
Asked(s) ==
    /\ req[s].op \in {"update", "status"} => OneEstimate(s)
    /\ req[s].op = "update" => req[s].to \in STATUSES \cup {Same}
    /\ req[s].op = "status" => req[s].to \in STATUSES
    /\ req[s].op = "convert" => "invoice" \in DOMAIN req[s] /\ req[s].invoice \in Nat

KnownEstimates == \A s \in Sessions, e \in Estimates : e \in DOMAIN held[s] => held[s][e] = estimate[e]
EstimateRows == estimate \in [Estimates -> [status : STATUSES, lines : Nat, invoice : Nat]]

(* A conversion that had no other beside it and was not cut off after the    *)
(* invoice: there is no invoice before it has made one, and there is one and *)
(* the estimate says so when it has gone.                                    *)
Once(e) ==
    \/ e \in raced \cup unmarked
    \/ /\ \A s, t \in converting(e) : s = t
       /\ \/ /\ billsOf(e) = {}
             /\ \A s \in converting(e) : req[s].invoice = 0
          \/ /\ \E n : billsOf(e) = {n}
             /\ \A s \in converting(e) : req[s].invoice # 0
             /\ converting(e) = {} => estimate[e].invoice # 0

EInv ==
    /\ BInv
    /\ EstimateRows
    /\ KnownEstimates
    /\ \A s \in Sessions : Asked(s)
    /\ \A e \in Estimates : Once(e)

LEMMA InitEInv == Init => EInv
<1> SUFFICES ASSUME Init PROVE EInv
  OBVIOUS
<1>1. BInv
  BY InitBInv
<1>2. EstimateRows
  BY DEF Init, EstimateRows, STATUSES
<1>3. KnownEstimates /\ \A s \in Sessions : Asked(s)
  BY DEF Init, KnownEstimates, Nothing, Asked, Idle
<1>4. \A e \in Estimates : Once(e)
  BY DEF Init, Once, converting, billsOf, Idle
<1> QED
  BY <1>1, <1>2, <1>3, <1>4 DEF EInv

(* Where no conversion begins, goes on or ends, nothing happens to its cause. *)
LEMMA OnceKept ==
    ASSUME EInv, NEW e \in Estimates,
           \A t \in Sessions : \/ req'[t] = req[t]
                               \/ req[t].op # "convert" /\ req'[t].op # "convert",
           billsOf(e)' = billsOf(e), estimate'[e].invoice = estimate[e].invoice,
           raced \cup unmarked \subseteq (raced \cup unmarked)'
    PROVE  Once(e)'
<1>1. converting(e)' = converting(e)
  BY DEF converting
<1>2. \A t \in converting(e) : req'[t] = req[t]
  BY DEF converting
<1>3. Once(e)
  BY DEF EInv
<1>4. CASE e \in raced \cup unmarked
  BY <1>4 DEF Once
<1>5. CASE e \notin raced \cup unmarked
  BY <1>1, <1>2, <1>3, <1>5 DEF Once
<1> QED
  BY <1>4, <1>5

(* The bills of an estimate are those that name it.                          *)
LEMMA EstimateBills ==
    ASSUME EInv, NEW inv \in [kind : {"single", "consolidated", "lines"}, of : SUBSET Rows],
           invoices' = Append(invoices, inv), NEW e \in Estimates
    PROVE  billsOf(e)' = IF e \in inv.of THEN billsOf(e) \cup {Len(invoices) + 1} ELSE billsOf(e)
  BY NewInvoice DEF EInv

-----------------------------------------------------------------------------
(* A request begins: a change of an estimate has locked nothing yet.         *)
LEMMA BeginAsked ==
    ASSUME EInv, NEW s \in Sessions, NEW r, NEW rows, Begin(s, r, rows), BInv',
           r.op \in {"update", "status"} => \E e \in Estimates : rows = <<e>>,
           r.op = "update" => r.to \in STATUSES \cup {Same},
           r.op = "status" => r.to \in STATUSES,
           r.op = "convert" => "invoice" \in DOMAIN r /\ r.invoice \in Nat
    PROVE  /\ EstimateRows' /\ KnownEstimates' /\ \A t \in Sessions : Asked(t)'
           /\ req[s].op = "idle" /\ req'[s] = r
           /\ \A t \in Sessions \ {s} : req'[t] = req[t]
           /\ UNCHANGED <<invoices, estimate>>
<1>1. /\ req' = [req EXCEPT ![s] = r]
      /\ toLock' = [toLock EXCEPT ![s] = rows]
      /\ UNCHANGED <<invoices, estimate, held>>
      /\ req[s].op = "idle"
  BY DEF Begin, tables, Idle
<1>2. req = [t \in Sessions |-> req[t]] /\ toLock = [t \in Sessions |-> toLock[t]]
  BY DEF EInv, BInv, Shapes
<1>3. DOMAIN held[s] = {}
  BY <1>1 DEF EInv, BInv, Shapes, Shape
<1>4. Asked(s)'
  BY <1>1, <1>2, <1>3 DEF Asked, OneEstimate
<1>5. ASSUME NEW t \in Sessions, t # s PROVE Asked(t)'
  <2>1. req'[t] = req[t] /\ toLock'[t] = toLock[t] /\ held'[t] = held[t]
    BY <1>1, <1>2, <1>5
  <2> QED
    BY <2>1 DEF EInv, Asked, OneEstimate
<1>6. EstimateRows' /\ KnownEstimates'
  BY <1>1 DEF EInv, EstimateRows, KnownEstimates
<1>7. req'[s] = r /\ \A t \in Sessions \ {s} : req'[t] = req[t]
  BY <1>1, <1>2
<1> QED
  BY <1>1, <1>4, <1>5, <1>6, <1>7

(* A request other than a conversion begins. *)
LEMMA BeginEInv ==
    ASSUME EInv, NEW s \in Sessions, NEW r, NEW rows, Begin(s, r, rows), BInv', UNCHANGED history,
           r.op \in {"single", "transition", "consolidated", "update", "status"},
           r.op \in {"update", "status"} => \E e \in Estimates : rows = <<e>>,
           r.op = "update" => r.to \in STATUSES \cup {Same},
           r.op = "status" => r.to \in STATUSES
    PROVE  EInv'
<1>1. /\ EstimateRows' /\ KnownEstimates' /\ \A t \in Sessions : Asked(t)'
      /\ req[s].op = "idle" /\ req'[s] = r
      /\ \A t \in Sessions \ {s} : req'[t] = req[t]
      /\ UNCHANGED <<invoices, estimate>>
  BY BeginAsked
<1>2. ASSUME NEW e \in Estimates PROVE Once(e)'
  BY <1>1, OnceKept DEF history, billsOf
<1> QED
  BY <1>1, <1>2 DEF EInv

LEMMA AskEInv == ASSUME EInv, NEW s \in Sessions, AskOrders(s) \/ AskEstimate(s) PROVE EInv'
<1>1. BInv' /\ UNCHANGED history
  BY AskPreserves DEF EInv, AskOrders, AskEstimate
<1>2. ASSUME NEW o, Begin(s, [op |-> "single"], <<o>>) PROVE EInv'
  BY <1>1, <1>2, BeginEInv
<1>3. ASSUME NEW rows, Begin(s, [op |-> "consolidated"], rows) PROVE EInv'
  BY <1>1, <1>3, BeginEInv
<1>4. ASSUME NEW o, NEW to, Begin(s, [op |-> "transition", to |-> to], <<o>>) PROVE EInv'
  BY <1>1, <1>4, BeginEInv
<1>5. ASSUME NEW e \in Estimates, NEW to \in Targets \cup {Same},
             Begin(s, [op |-> "update", to |-> to], <<e>>)
      PROVE  EInv'
  BY <1>1, <1>5, BeginEInv, BillingAssumption
<1>6. ASSUME NEW e \in Estimates, NEW to \in Targets, Begin(s, [op |-> "status", to |-> to], <<e>>)
      PROVE  EInv'
  BY <1>1, <1>6, BeginEInv, BillingAssumption
<1>7. CASE AskOrders(s)
  BY <1>2, <1>3, <1>4, <1>7 DEF AskOrders
<1>8. CASE AskEstimate(s)
  BY <1>5, <1>6, <1>8 DEF AskEstimate
<1> QED
  BY <1>7, <1>8

(* toInvoice reads an estimate that no conversion has marked; it is alone,   *)
(* or the two race.                                                          *)
LEMMA ToInvoiceEInv == ASSUME EInv, NEW s \in Sessions, toInvoice(s) PROVE EInv'
<1>1. PICK e \in Estimates :
        /\ convertible(estimate[e])
        /\ Begin(s, [op |-> "convert", est |-> e, quote |-> estimate[e], invoice |-> 0], <<>>)
        /\ raced' = IF converting(e) # {} THEN raced \cup {e} ELSE raced
        /\ UNCHANGED unmarked
  BY DEF toInvoice
<1>2. PICK r : r = [op |-> "convert", est |-> e, quote |-> estimate[e], invoice |-> 0]
  OBVIOUS
<1>3. r.op = "convert" /\ r.est = e /\ r.invoice = 0 /\ "invoice" \in DOMAIN r
  BY <1>2
<1>4. BInv'
  BY AskPreserves DEF EInv
<1>5. Begin(s, r, <<>>)
  BY <1>1, <1>2
<1>6. /\ EstimateRows' /\ KnownEstimates' /\ \A t \in Sessions : Asked(t)'
      /\ req[s].op = "idle" /\ req'[s] = r
      /\ \A t \in Sessions \ {s} : req'[t] = req[t]
      /\ UNCHANGED <<invoices, estimate>>
  BY <1>3, <1>4, <1>5, BeginAsked
<1>7. ASSUME NEW f \in Estimates PROVE Once(f)'
  <2>1. billsOf(f)' = billsOf(f) /\ Once(f) /\ raced \subseteq raced'
    BY <1>1, <1>6 DEF billsOf, EInv
  <2>2. CASE f \in raced \cup unmarked
    BY <1>1, <2>1, <2>2 DEF Once
  <2>3. CASE f # e /\ f \notin raced \cup unmarked
    <3>1. converting(f)' = converting(f) /\ s \notin converting(f)
      BY <1>3, <1>6, <2>3 DEF converting
    <3>2. \A t \in converting(f) : req'[t] = req[t]
      BY <1>6, <3>1 DEF converting
    <3> QED
      BY <1>6, <2>1, <2>3, <3>1, <3>2 DEF Once
  <2>4. CASE f = e /\ f \notin raced \cup unmarked
    <3>1. CASE converting(e) # {}
      BY <1>1, <2>4, <3>1 DEF Once
    <3>2. CASE converting(e) = {}
      <4>1. billsOf(e) = {}
        BY <1>1, <2>1, <2>4, <3>2 DEF Once, convertible
      <4>2. \A t \in converting(e)' : t = s
        BY <1>6, <3>2 DEF converting
      <4> QED
        BY <1>3, <1>6, <2>1, <2>4, <4>1, <4>2 DEF Once
    <3> QED
      BY <3>1, <3>2
  <2> QED
    BY <2>2, <2>3, <2>4
<1> QED
  BY <1>4, <1>6, <1>7 DEF EInv
(* A lock is granted: an estimate is known as it is. *)
LEMMA LockEInv == ASSUME EInv, NEW s \in Sessions, Lock(s) PROVE EInv'
<1> DEFINE r == Head(toLock[s])
<1>1. /\ toLock[s] # <<>>
      /\ held' = [held EXCEPT ![s] = [x \in DOMAIN held[s] \cup {r} |->
                                     IF x = r THEN row(r) ELSE held[s][x]]]
      /\ toLock' = [toLock EXCEPT ![s] = Tail(toLock[s])]
      /\ UNCHANGED <<order, estimate, invoices, req, raced, unmarked>>
  BY DEF Lock, tables, history
<1>2. BInv'
  BY LockPreserves DEF EInv
<1>3. /\ held'[s] = [x \in DOMAIN held[s] \cup {r} |-> IF x = r THEN row(r) ELSE held[s][x]]
      /\ \A t \in Sessions \ {s} : held'[t] = held[t] /\ toLock'[t] = toLock[t]
      /\ toLock'[s] = Tail(toLock[s])
  BY <1>1 DEF EInv, BInv, Shapes
<1>4. /\ DOMAIN held'[s] = DOMAIN held[s] \cup {r}
      /\ held'[s][r] = row(r)
      /\ \A x \in DOMAIN held[s] \ {r} : held'[s][x] = held[s][x]
  BY <1>3
<1>5. ASSUME NEW t \in Sessions, t # s PROVE Asked(t)'
  BY <1>1, <1>3, <1>5 DEF EInv, Asked, OneEstimate
<1>6. Asked(s)'
  <2>1. CASE req[s].op \in {"update", "status"}
    <3>1. PICK e \in Estimates : toLock[s] = <<e>> /\ DOMAIN held[s] = {}
      BY <2>1, <1>1 DEF EInv, Asked, OneEstimate
    <3>2. toLock'[s] = <<>> /\ DOMAIN held'[s] = {e}
      BY <3>1, <1>3, <1>4
    <3>3. OneEstimate(s)'
      BY <3>2 DEF OneEstimate
    <3> QED
      BY <2>1, <3>3, <1>1 DEF EInv, Asked
  <2>2. CASE req[s].op \notin {"update", "status"}
    BY <2>2, <1>1 DEF EInv, Asked
  <2> QED
    BY <2>1, <2>2
<1> HIDE DEF r
<1>7. ASSUME NEW t \in Sessions, NEW e \in Estimates, e \in DOMAIN held'[t]
      PROVE  held'[t][e] = estimate'[e]
  <2>1. CASE t = s /\ e = r
    <3>1. row(e) = estimate[e]
      BY BillingAssumption DEF row
    <3> QED
      BY <2>1, <3>1, <1>1, <1>4
  <2>2. CASE t = s /\ e # r
    BY <2>2, <1>1, <1>4, <1>7 DEF EInv, KnownEstimates
  <2>3. CASE t # s
    BY <2>3, <1>1, <1>3, <1>7 DEF EInv, KnownEstimates
  <2> QED
    BY <2>1, <2>2, <2>3
<1>8. ASSUME NEW e \in Estimates PROVE Once(e)'
  BY <1>1, OnceKept DEF billsOf
<1>9. EstimateRows' /\ KnownEstimates'
  BY <1>1, <1>7 DEF EInv, EstimateRows, KnownEstimates
<1> QED
  BY <1>2, <1>5, <1>6, <1>8, <1>9 DEF EInv

(* A request ends: nobody knows an estimate that it has changed.             *)
LEMMA EndAsked ==
    ASSUME EInv, NEW s \in Sessions, End(s),
           \A e \in Estimates : estimate'[e] # estimate[e] =>
               \A t \in Sessions \ {s} : e \notin DOMAIN held[t]
    PROVE  /\ KnownEstimates' /\ \A t \in Sessions : Asked(t)'
           /\ req'[s] = Idle /\ \A t \in Sessions \ {s} : req'[t] = req[t]
<1>1. /\ req' = [req EXCEPT ![s] = Idle]
      /\ toLock' = [toLock EXCEPT ![s] = <<>>]
      /\ held' = [held EXCEPT ![s] = Nothing]
  BY DEF End
<1>2. /\ req'[s] = Idle /\ toLock'[s] = <<>> /\ held'[s] = Nothing
      /\ \A t \in Sessions \ {s} :
            req'[t] = req[t] /\ toLock'[t] = toLock[t] /\ held'[t] = held[t]
  BY <1>1 DEF EInv, BInv, Shapes
<1>3. DOMAIN Nothing = {} /\ Idle.op = "idle"
  BY DEF Nothing, Idle
<1>4. Asked(s)'
  BY <1>2, <1>3 DEF Asked
<1>5. ASSUME NEW t \in Sessions, t # s PROVE Asked(t)'
  BY <1>2, <1>5 DEF EInv, Asked, OneEstimate
<1>6. ASSUME NEW t \in Sessions, NEW e \in Estimates, e \in DOMAIN held'[t]
      PROVE  held'[t][e] = estimate'[e]
  <2>1. t # s /\ held'[t] = held[t]
    BY <1>2, <1>3, <1>6
  <2>2. estimate'[e] = estimate[e]
    BY <2>1, <1>6
  <2> QED
    BY <2>1, <2>2, <1>6 DEF EInv, KnownEstimates
<1>7. KnownEstimates'
  BY <1>6 DEF KnownEstimates
<1> QED
  BY <1>2, <1>4, <1>5, <1>7

(* A request that is no conversion ends, with what it has done to orders.    *)
LEMMA OrdersEInv ==
    ASSUME EInv, NEW s \in Sessions, End(s), BInv', UNCHANGED <<estimate, history>>,
           req[s].op # "convert", \A e \in Estimates : billsOf(e)' = billsOf(e)
    PROVE  EInv'
<1>1. /\ KnownEstimates' /\ \A t \in Sessions : Asked(t)'
      /\ req'[s] = Idle /\ \A t \in Sessions \ {s} : req'[t] = req[t]
  BY EndAsked
<1>2. EstimateRows'
  BY DEF EInv, EstimateRows
<1>3. ASSUME NEW e \in Estimates PROVE Once(e)'
  BY <1>1, OnceKept DEF history, Idle
<1> QED
  BY <1>1, <1>2, <1>3 DEF EInv

LEMMA BillingEInv ==
    ASSUME EInv, NEW s \in Sessions, issueFromWorkOrder(s) \/ issueConsolidated(s) \/ transition(s)
    PROVE  EInv'
<1>1. CASE issueFromWorkOrder(s)
  <2> DEFINE inv == [kind |-> "single", of |-> {lockedRow(s)}]
  <2>1. lockedRow(s) \in Orders
    BY <1>1, LockedOrder DEF EInv, issueFromWorkOrder, Locked
  <2>2. /\ inv \in [kind : {"single", "consolidated", "lines"}, of : SUBSET Rows]
        /\ inv.of \subseteq Orders
    BY <2>1 DEF Rows
  <2>3. invoices' = Append(invoices, inv) /\ End(s) /\ UNCHANGED <<estimate, history>>
        /\ req[s].op # "convert"
    BY <1>1 DEF issueFromWorkOrder, Locked
  <2>4. BInv'
    BY <1>1, SinglePreserves DEF EInv
  <2> HIDE DEF inv
  <2>5. \A e \in Estimates : billsOf(e)' = billsOf(e)
    BY <2>2, <2>3, EstimateBills, BillingAssumption
  <2> QED
    BY <2>3, <2>4, <2>5, OrdersEInv
<1>2. CASE issueConsolidated(s)
  <2> DEFINE inv == [kind |-> "consolidated", of |-> DOMAIN held[s]]
  <2>1. DOMAIN held[s] \subseteq Orders
    BY <1>2 DEF EInv, BInv, Shapes, Shape, issueConsolidated, Locked
  <2>2. /\ inv \in [kind : {"single", "consolidated", "lines"}, of : SUBSET Rows]
        /\ inv.of \subseteq Orders
    BY <2>1 DEF Rows
  <2>3. invoices' = Append(invoices, inv) /\ End(s) /\ UNCHANGED <<estimate, history>>
        /\ req[s].op # "convert"
    BY <1>2 DEF issueConsolidated, Locked
  <2>4. BInv'
    BY <1>2, ConsolidatedPreserves DEF EInv
  <2> HIDE DEF inv
  <2>5. \A e \in Estimates : billsOf(e)' = billsOf(e)
    BY <2>2, <2>3, EstimateBills, BillingAssumption
  <2> QED
    BY <2>3, <2>4, <2>5, OrdersEInv
<1>3. CASE transition(s)
  <2>1. End(s) /\ UNCHANGED <<estimate, invoices, history>> /\ req[s].op # "convert"
    BY <1>3 DEF transition, Locked
  <2>2. BInv'
    BY <1>3, TransitionPreserves DEF EInv
  <2>3. \A e \in Estimates : billsOf(e)' = billsOf(e)
    BY <2>1 DEF billsOf
  <2> QED
    BY <2>1, <2>2, <2>3, OrdersEInv
<1> QED
  BY <1>1, <1>2, <1>3

(* What is refused, or ended by the database, is never a conversion.         *)
LEMMA GivenUpEInv ==
    ASSUME EInv, NEW s \in Sessions, Refuse(s) \/ BreakDeadlock(s)
    PROVE  EInv'
<1>1. End(s) /\ UNCHANGED <<tables, history>>
  BY DEF Refuse, BreakDeadlock
<1>2. req[s].op # "convert"
  <2>1. CASE Refuse(s)
    BY <2>1 DEF Refuse, refused
  <2>2. CASE BreakDeadlock(s)
    <3>1. toLock[s] # <<>>
      BY <2>2 DEF BreakDeadlock
    <3> QED
      BY <3>1 DEF EInv, BInv, Shapes, Shape
  <2> QED
    BY <2>1, <2>2
<1>3. BInv'
  BY <1>1, EndUnbilled DEF EInv, tables
<1>4. \A e \in Estimates : billsOf(e)' = billsOf(e)
  BY <1>1 DEF tables, billsOf
<1> QED
  BY <1>1, <1>2, <1>3, <1>4, OrdersEInv DEF tables

(* A request for one estimate, locked, knows it as it is, and nobody else    *)
(* has it.                                                                   *)
LEMMA LockedEstimate ==
    ASSUME EInv, NEW s \in Sessions, req[s].op \in {"update", "status"}, toLock[s] = <<>>
    PROVE  /\ lockedRow(s) \in Estimates
           /\ held[s][lockedRow(s)] = estimate[lockedRow(s)]
           /\ \A t \in Sessions \ {s} : lockedRow(s) \notin DOMAIN held[t]
<1>1. PICK e \in Estimates : DOMAIN held[s] = {e}
  BY DEF EInv, Asked, OneEstimate
<1>2. lockedRow(s) = e
  BY <1>1 DEF lockedRow
<1>3. \A t \in Sessions \ {s} : DOMAIN held[s] \cap DOMAIN held[t] = {}
  BY DEF EInv, BInv, Held
<1> QED
  BY <1>1, <1>2, <1>3 DEF EInv, KnownEstimates

(* What an update and a change of status make of the row.                    *)
LEMMA EditedRow ==
    ASSUME EInv, NEW s \in Sessions, update(s) \/ setStatus(s)
    PROVE  \E e \in Estimates, q \in [status : STATUSES, lines : Nat, invoice : Nat] :
              /\ edited(s, e, q)
              /\ q.invoice = estimate[e].invoice
              /\ estimate[e].status = "invoiced" => q.status = "invoiced" /\ q.lines = estimate[e].lines
              /\ \A t \in Sessions \ {s} : e \notin DOMAIN held[t]
<1>1. PICK e : e = lockedRow(s)
  OBVIOUS
<1>2. req[s].op \in {"update", "status"} /\ toLock[s] = <<>>
  BY DEF update, setStatus, Locked
<1>3. /\ e \in Estimates
      /\ held[s][e] = estimate[e]
      /\ \A t \in Sessions \ {s} : e \notin DOMAIN held[t]
  BY <1>1, <1>2, LockedEstimate
<1>4. estimate[e] \in [status : STATUSES, lines : Nat, invoice : Nat]
  BY <1>3 DEF EInv, EstimateRows
<1>5. CASE update(s)
  <2>1. PICK st : st = IF req[s].to = Same THEN estimate[e].status ELSE req[s].to
    OBVIOUS
  <2>2. req[s].to \in STATUSES \cup {Same}
    BY <1>5 DEF update, Locked, EInv, Asked
  <2>3. st \in STATUSES
    BY <2>1, <2>2, <1>4
  <2>4. PICK q : q = [estimate[e] EXCEPT !.lines = @ + 1,
                                        !.status = IF req[s].to = Same THEN @ ELSE req[s].to]
    OBVIOUS
  <2>5. q = [status |-> st, lines |-> estimate[e].lines + 1, invoice |-> estimate[e].invoice]
    BY <2>1, <2>4, <1>4
  <2>6. q \in [status : STATUSES, lines : Nat, invoice : Nat] /\ q.invoice = estimate[e].invoice
    BY <2>3, <2>5, <1>4
  <2>7. edited(s, e, q) /\ estimate[e].status # "invoiced"
    BY <1>1, <1>3, <1>5, <2>4 DEF update
  <2> QED
    BY <1>3, <2>6, <2>7
<1>6. CASE setStatus(s)
  <2>1. req[s].to \in STATUSES
    BY <1>6 DEF setStatus, Locked, EInv, Asked
  <2>2. PICK q : q = [estimate[e] EXCEPT !.status = req[s].to]
    OBVIOUS
  <2>3. q = [status |-> req[s].to, lines |-> estimate[e].lines, invoice |-> estimate[e].invoice]
    BY <2>2, <1>4
  <2>4. /\ q \in [status : STATUSES, lines : Nat, invoice : Nat]
        /\ q.invoice = estimate[e].invoice /\ q.lines = estimate[e].lines /\ q.status = req[s].to
    BY <2>1, <2>3, <1>4
  <2>5. edited(s, e, q) /\ (estimate[e].status = "invoiced" => req[s].to = "invoiced")
    BY <1>1, <1>3, <1>6, <2>2 DEF setStatus
  <2> QED
    BY <1>3, <2>4, <2>5
<1> QED
  BY <1>5, <1>6

LEMMA EditEInv == ASSUME EInv, NEW s \in Sessions, update(s) \/ setStatus(s) PROVE EInv'
<1>1. PICK e \in Estimates, q \in [status : STATUSES, lines : Nat, invoice : Nat] :
        /\ edited(s, e, q)
        /\ q.invoice = estimate[e].invoice
        /\ \A t \in Sessions \ {s} : e \notin DOMAIN held[t]
  BY EditedRow
<1>2. /\ estimate' = [estimate EXCEPT ![e] = q]
      /\ End(s)
      /\ UNCHANGED <<order, invoices, raced, unmarked>>
  BY <1>1 DEF edited, history
<1>3. req[s].op # "convert"
  BY DEF update, setStatus, Locked
<1>4. BInv'
  BY <1>2, EndUnbilled DEF EInv
<1>5. EstimateRows' /\ \A f \in Estimates : estimate'[f] = IF f = e THEN q ELSE estimate[f]
  BY <1>1, <1>2 DEF EInv, EstimateRows
<1>6. \A f \in Estimates : estimate'[f] # estimate[f] =>
          \A t \in Sessions \ {s} : f \notin DOMAIN held[t]
  BY <1>1, <1>5
<1>7. /\ KnownEstimates' /\ \A t \in Sessions : Asked(t)'
      /\ req'[s] = Idle /\ \A t \in Sessions \ {s} : req'[t] = req[t]
  BY <1>2, <1>6, EndAsked
<1>8. ASSUME NEW f \in Estimates PROVE Once(f)'
  <2>1. estimate'[f].invoice = estimate[f].invoice
    BY <1>1, <1>5
  <2> QED
    BY <1>2, <1>3, <1>7, <2>1, OnceKept DEF billsOf, Idle
<1> QED
  BY <1>4, <1>5, <1>7, <1>8 DEF EInv

(* The second transaction of a conversion makes the first invoice.           *)
LEMMA LinesEInv == ASSUME EInv, NEW s \in Sessions, issueFromLines(s) PROVE EInv'
<1>1. PICK e, inv, n : /\ e = req[s].est
                       /\ inv = [kind |-> "lines", of |-> {e}]
                       /\ n = Len(invoices) + 1
  OBVIOUS
<1>2. /\ req[s].op = "convert" /\ req[s].invoice = 0
      /\ invoices' = Append(invoices, inv)
      /\ req' = [req EXCEPT ![s] = [req[s] EXCEPT !.invoice = n]]
      /\ UNCHANGED <<order, estimate, toLock, held, raced, unmarked>>
  BY <1>1 DEF issueFromLines, history
<1>3. e \in Estimates
  BY <1>1, <1>2 DEF EInv, BInv, Shapes, Shape
<1>4. BInv'
  BY LinesPreserves DEF EInv
<1>5. n \in Nat /\ n # 0
  BY <1>1 DEF EInv, BInv, Tables
<1>6. inv \in [kind : {"single", "consolidated", "lines"}, of : SUBSET Rows] /\ inv.of = {e}
  BY <1>1, <1>3 DEF Rows
<1>7. \A f \in Estimates : billsOf(f)' = IF f = e THEN billsOf(f) \cup {n} ELSE billsOf(f)
  BY <1>1, <1>2, <1>6, EstimateBills
<1>8. PICK r : r = [req[s] EXCEPT !.invoice = n]
  OBVIOUS
<1>9. req'[s] = r /\ \A t \in Sessions \ {s} : req'[t] = req[t]
  BY <1>2, <1>8 DEF EInv, BInv, Shapes
<1>10. r.op = "convert" /\ r.est = e
  <2>1. r.op = req[s].op /\ r.est = req[s].est
    BY <1>8
  <2> QED
    BY <2>1, <1>1, <1>2
<1>11. r.invoice = n /\ "invoice" \in DOMAIN r
  BY <1>2, <1>8 DEF EInv, Asked
<1>12. ASSUME NEW f \in Estimates PROVE converting(f)' = converting(f)
  <2>1. \A t \in Sessions : req'[t].op = "convert" /\ req'[t].est = f
                            <=> req[t].op = "convert" /\ req[t].est = f
    BY <1>1, <1>2, <1>9, <1>10
  <2> QED
    BY <2>1 DEF converting
<1>13. ASSUME NEW f \in Estimates PROVE Once(f)'
  <2>1. Once(f)
    BY DEF EInv
  <2>2. CASE f \in raced \cup unmarked
    BY <1>2, <2>2 DEF Once
  <2>3. CASE f # e /\ f \notin raced \cup unmarked
    <3>1. \A t \in converting(f) : t # s /\ req'[t] = req[t]
      BY <1>1, <1>9, <2>3 DEF converting
    <3> QED
      BY <1>2, <1>7, <1>12, <2>1, <2>3, <3>1 DEF Once
  <2>4. CASE f = e /\ f \notin raced \cup unmarked
    <3>1. s \in converting(e)
      BY <1>1, <1>2 DEF converting
    <3>2. billsOf(e) = {} /\ \A t \in converting(e) : t = s
      BY <1>2, <2>1, <2>4, <3>1 DEF Once
    <3>3. billsOf(e)' = {n} /\ converting(e)' = {s}
      BY <1>3, <1>7, <1>12, <3>1, <3>2
    <3> QED
      BY <1>5, <1>9, <1>11, <2>4, <3>3 DEF Once
  <2> QED
    BY <2>2, <2>3, <2>4
<1>14. ASSUME NEW t \in Sessions PROVE Asked(t)'
  <2>1. CASE t = s
    BY <2>1, <1>5, <1>9, <1>10, <1>11 DEF Asked
  <2>2. CASE t # s
    BY <2>2, <1>2, <1>9 DEF EInv, Asked, OneEstimate
  <2> QED
    BY <2>1, <2>2
<1>15. EstimateRows' /\ KnownEstimates'
  BY <1>2 DEF EInv, EstimateRows, KnownEstimates
<1> QED
  BY <1>4, <1>13, <1>14, <1>15 DEF EInv

(* A conversion ends: it has marked its estimate, or made no invoice, or it  *)
(* is known that its estimate was left unmarked.                             *)
LEMMA ConversionEnds ==
    ASSUME EInv, NEW s \in Sessions, req[s].op = "convert", UNCHANGED <<invoices, raced>>,
           req'[s] = Idle, \A t \in Sessions \ {s} : req'[t] = req[t],
           unmarked \subseteq unmarked',
           \A f \in Estimates : estimate'[f].invoice = estimate[f].invoice
                                \/ (f = req[s].est /\ estimate'[f].invoice # 0),
           \/ req[s].invoice = 0
           \/ req[s].est \in unmarked'
           \/ estimate'[req[s].est].invoice # 0
    PROVE  \A e \in Estimates : Once(e)'
<1> SUFFICES ASSUME NEW e \in Estimates, e \notin raced \cup unmarked' PROVE Once(e)'
  BY DEF Once
<1>1. Once(e) /\ e \notin raced \cup unmarked
  BY DEF EInv
<1>2. billsOf(e)' = billsOf(e)
  BY DEF billsOf
<1>3. converting(e)' = converting(e) \ {s}
  BY DEF converting, Idle
<1>4. \A t \in converting(e)' : req'[t] = req[t]
  BY <1>3 DEF converting
<1>5. CASE req[s].est # e
  <2>1. s \notin converting(e) /\ estimate'[e].invoice = estimate[e].invoice
    BY <1>5 DEF converting
  <2> QED
    BY <1>1, <1>2, <1>3, <1>4, <2>1 DEF Once
<1>6. CASE req[s].est = e
  <2>1. s \in converting(e)
    BY <1>6 DEF converting
  <2>2. converting(e)' = {}
    BY <1>1, <1>3, <2>1 DEF Once
  <2>3. CASE req[s].invoice = 0
    <3>1. billsOf(e) = {}
      BY <1>1, <2>1, <2>3 DEF Once
    <3> QED
      BY <1>2, <2>2, <3>1 DEF Once
  <2>4. CASE req[s].invoice # 0
    <3>1. \E n : billsOf(e) = {n}
      BY <1>1, <2>1, <2>4 DEF Once
    <3>2. estimate'[e].invoice # 0
      BY <1>6, <2>4
    <3> QED
      BY <1>2, <2>2, <3>1, <3>2 DEF Once
  <2> QED
    BY <2>3, <2>4
<1> QED
  BY <1>5, <1>6

(* What marking makes of the row, which nobody else has locked.              *)
LEMMA MarkedRow ==
    ASSUME EInv, NEW s \in Sessions, Mark(s)
    PROVE  \E e \in Estimates, q \in [status : STATUSES, lines : Nat, invoice : Nat] :
              /\ e = req[s].est
              /\ estimate' = [estimate EXCEPT ![e] = q]
              /\ q.invoice # 0 /\ q.status = "invoiced" /\ q.lines = estimate[e].lines
              /\ \A t \in Sessions \ {s} : e \notin DOMAIN held[t]
<1>1. PICK e, n : e = req[s].est /\ n = req[s].invoice
  OBVIOUS
<1>2. e \in Estimates /\ n \in Nat /\ n # 0
  BY <1>1 DEF Mark, EInv, BInv, Shapes, Shape, Asked
<1>3. estimate[e] \in [status : STATUSES, lines : Nat, invoice : Nat]
  BY <1>2 DEF EInv, EstimateRows
<1>4. estimate' = [estimate EXCEPT ![e].status = "invoiced", ![e].invoice = n]
  BY <1>1 DEF Mark
<1>5. PICK q : q = [status |-> "invoiced", lines |-> estimate[e].lines, invoice |-> n]
  OBVIOUS
<1>6. estimate' = [estimate EXCEPT ![e] = q]
  <2>1. DOMAIN estimate' = Estimates /\ \A f \in Estimates : f # e => estimate'[f] = estimate[f]
    BY <1>2, <1>4 DEF EInv, EstimateRows
  <2>2. estimate'[e] = [[estimate[e] EXCEPT !.status = "invoiced"] EXCEPT !.invoice = n]
    BY <1>2, <1>4 DEF EInv, EstimateRows
  <2>3. estimate'[e] = q
    BY <2>2, <1>3, <1>5
  <2> QED
    BY <2>1, <2>3, <1>2, <1>4 DEF EInv, EstimateRows
<1>7. /\ q \in [status : STATUSES, lines : Nat, invoice : Nat]
      /\ q.invoice # 0 /\ q.status = "invoiced" /\ q.lines = estimate[e].lines
  BY <1>2, <1>3, <1>5 DEF STATUSES
<1>8. \A t \in Sessions \ {s} : e \notin DOMAIN held[t]
  BY <1>1 DEF Mark, Free
<1> QED
  BY <1>1, <1>2, <1>6, <1>7, <1>8

LEMMA MarkEInv == ASSUME EInv, NEW s \in Sessions, Mark(s) PROVE EInv'
<1>1. PICK e \in Estimates, q \in [status : STATUSES, lines : Nat, invoice : Nat] :
        /\ e = req[s].est
        /\ estimate' = [estimate EXCEPT ![e] = q]
        /\ q.invoice # 0
        /\ \A t \in Sessions \ {s} : e \notin DOMAIN held[t]
  BY MarkedRow
<1>2. End(s) /\ UNCHANGED <<order, invoices, raced, unmarked>> /\ req[s].op = "convert"
  BY DEF Mark, history
<1>3. EstimateRows' /\ \A f \in Estimates : estimate'[f] = IF f = e THEN q ELSE estimate[f]
  BY <1>1 DEF EInv, EstimateRows
<1>4. \A f \in Estimates : estimate'[f] # estimate[f] =>
          \A t \in Sessions \ {s} : f \notin DOMAIN held[t]
  BY <1>1, <1>3
<1>5. /\ KnownEstimates' /\ \A t \in Sessions : Asked(t)'
      /\ req'[s] = Idle /\ \A t \in Sessions \ {s} : req'[t] = req[t]
  BY <1>2, <1>4, EndAsked
<1>6. /\ \A f \in Estimates : estimate'[f].invoice = estimate[f].invoice
                              \/ (f = req[s].est /\ estimate'[f].invoice # 0)
      /\ estimate'[req[s].est].invoice # 0
  BY <1>1, <1>3
<1>7. \A f \in Estimates : Once(f)'
  BY <1>2, <1>5, <1>6, ConversionEnds
<1>8. BInv'
  BY <1>2, EndUnbilled DEF EInv
<1> QED
  BY <1>3, <1>5, <1>7, <1>8 DEF EInv

LEMMA RollbackEInv == ASSUME EInv, NEW s \in Sessions, Rollback(s) PROVE EInv'
<1>1. /\ End(s) /\ UNCHANGED <<order, estimate, invoices, raced>>
      /\ unmarked' = IF req[s].op = "convert" /\ req[s].invoice # 0
                     THEN unmarked \cup {req[s].est} ELSE unmarked
  BY DEF Rollback, tables
<1>2. /\ KnownEstimates' /\ \A t \in Sessions : Asked(t)'
      /\ req'[s] = Idle /\ \A t \in Sessions \ {s} : req'[t] = req[t]
  BY <1>1, EndAsked
<1>3. BInv' /\ EstimateRows'
  BY <1>1, EndUnbilled DEF EInv, EstimateRows
<1>4. CASE req[s].op = "convert"
  <2>1. unmarked \subseteq unmarked' /\ (req[s].invoice = 0 \/ req[s].est \in unmarked')
    BY <1>1, <1>4
  <2>2. \A f \in Estimates : Once(f)'
    BY <1>1, <1>2, <1>4, <2>1, ConversionEnds
  <2> QED
    BY <1>2, <1>3, <2>2 DEF EInv
<1>5. CASE req[s].op # "convert"
  <2>1. ASSUME NEW f \in Estimates PROVE Once(f)'
    BY <1>1, <1>2, <1>5, OnceKept DEF billsOf, Idle
  <2> QED
    BY <1>2, <1>3, <2>1 DEF EInv
<1> QED
  BY <1>4, <1>5

(* The invariant is inductive. *)
LEMMA NextEInv == EInv /\ [Next]_vars => EInv'
<1> SUFFICES ASSUME EInv, [Next]_vars PROVE EInv'
  OBVIOUS
<1>1. ASSUME NEW s \in Sessions, AskOrders(s) \/ AskEstimate(s) PROVE EInv'
  BY <1>1, AskEInv
<1>2. ASSUME NEW s \in Sessions, toInvoice(s) PROVE EInv'
  BY <1>2, ToInvoiceEInv
<1>3. ASSUME NEW s \in Sessions, Lock(s) PROVE EInv'
  BY <1>3, LockEInv
<1>4. ASSUME NEW s \in Sessions, issueFromWorkOrder(s) \/ issueConsolidated(s) \/ transition(s)
      PROVE  EInv'
  BY <1>4, BillingEInv
<1>5. ASSUME NEW s \in Sessions, Refuse(s) \/ BreakDeadlock(s) PROVE EInv'
  BY <1>5, GivenUpEInv
<1>6. ASSUME NEW s \in Sessions, update(s) \/ setStatus(s) PROVE EInv'
  BY <1>6, EditEInv
<1>7. ASSUME NEW s \in Sessions, issueFromLines(s) PROVE EInv'
  BY <1>7, LinesEInv
<1>8. ASSUME NEW s \in Sessions, Mark(s) PROVE EInv'
  BY <1>8, MarkEInv
<1>9. ASSUME NEW s \in Sessions, Rollback(s) PROVE EInv'
  BY <1>9, RollbackEInv
<1>10. CASE UNCHANGED vars
  <2>1. UNCHANGED <<estimate, invoices, req, toLock, held, raced, unmarked>>
    BY <1>10 DEF vars, tables, history
  <2>2. BInv'
    BY <1>10, NextBInv DEF EInv
  <2>3. EstimateRows' /\ KnownEstimates' /\ \A s \in Sessions : Asked(s)'
    BY <2>1 DEF EInv, EstimateRows, KnownEstimates, Asked, OneEstimate
  <2>4. ASSUME NEW e \in Estimates PROVE Once(e)'
    BY <2>1, OnceKept DEF billsOf
  <2> QED
    BY <2>2, <2>3, <2>4 DEF EInv
<1> QED
  BY <1>1, <1>2, <1>3, <1>4, <1>5, <1>6, <1>7, <1>8, <1>9, <1>10 DEF Next, Run

(* SecondInvoiceHasCause: an estimate is invoiced twice only if two requests *)
(* converted it at once or its marking failed after the invoice, whatever    *)
(* else is billed, edited, refused or rolled back beside it.                 *)
THEOREM SecondInvoiceHasCause == Spec => []TwiceHasCause
<1>1. EInv => TwiceHasCause
  <2> SUFFICES ASSUME EInv, NEW e \in Estimates, e \notin raced \cup unmarked
               PROVE  ~(Cardinality(billsOf(e)) > 1)
    BY DEF TwiceHasCause
  <2>1. billsOf(e) = {} \/ \E n : billsOf(e) = {n}
    BY DEF EInv, Once
  <2>2. CASE billsOf(e) = {}
    BY <2>2, FS_EmptySet
  <2>3. CASE \E n : billsOf(e) = {n}
    <3>1. Cardinality(billsOf(e)) = 1
      BY <2>3, FS_Singleton
    <3> QED
      BY <3>1
  <2> QED
    BY <2>1, <2>2, <2>3
<1> QED
  BY <1>1, InitEInv, NextEInv, PTL DEF Spec

(* QuoteStaysFrozen: nothing changes the lines or the status of an invoiced  *)
(* estimate, also not a change that was asked for before it was invoiced:    *)
(* the change decides on the row it has locked.                              *)
THEOREM QuoteStaysFrozen == Spec => QuoteFrozen
<1> DEFINE Frozen == \A e \in Estimates : estimate[e].status = "invoiced" =>
                        estimate'[e].status = "invoiced" /\ estimate'[e].lines = estimate[e].lines
<1>1. EInv /\ [Next]_vars => [Frozen]_vars
  <2> SUFFICES ASSUME EInv, Next, NEW f \in Estimates, estimate[f].status = "invoiced"
               PROVE  estimate'[f].status = "invoiced" /\ estimate'[f].lines = estimate[f].lines
    OBVIOUS
  <2>1. ASSUME NEW s \in Sessions, update(s) \/ setStatus(s)
        PROVE  estimate'[f].status = "invoiced" /\ estimate'[f].lines = estimate[f].lines
    <3>1. PICK e \in Estimates, q \in [status : STATUSES, lines : Nat, invoice : Nat] :
            /\ edited(s, e, q)
            /\ estimate[e].status = "invoiced" => q.status = "invoiced" /\ q.lines = estimate[e].lines
      BY <2>1, EditedRow
    <3>2. estimate'[f] = IF f = e THEN q ELSE estimate[f]
      BY <3>1 DEF edited, EInv, EstimateRows
    <3> QED
      BY <3>1, <3>2
  <2>2. ASSUME NEW s \in Sessions, Mark(s)
        PROVE  estimate'[f].status = "invoiced" /\ estimate'[f].lines = estimate[f].lines
    <3>1. PICK e \in Estimates, q \in [status : STATUSES, lines : Nat, invoice : Nat] :
            /\ estimate' = [estimate EXCEPT ![e] = q]
            /\ q.status = "invoiced" /\ q.lines = estimate[e].lines
      BY <2>2, MarkedRow
    <3>2. estimate'[f] = IF f = e THEN q ELSE estimate[f]
      BY <3>1 DEF EInv, EstimateRows
    <3> QED
      BY <3>1, <3>2
  <2>3. ASSUME NEW s \in Sessions,
               \/ AskOrders(s) \/ AskEstimate(s) \/ toInvoice(s) \/ Lock(s) \/ Refuse(s)
               \/ BreakDeadlock(s) \/ issueFromWorkOrder(s) \/ issueConsolidated(s)
               \/ transition(s) \/ issueFromLines(s) \/ Rollback(s)
        PROVE  UNCHANGED estimate
    BY <2>3 DEF AskOrders, AskEstimate, toInvoice, Begin, Lock, Refuse, BreakDeadlock,
                issueFromWorkOrder, issueConsolidated, transition, issueFromLines, Rollback, tables
  <2> QED
    BY <2>1, <2>2, <2>3 DEF Next, Run
<1> QED
  BY <1>1, InitEInv, NextEInv, PTL DEF Spec, QuoteFrozen
-----------------------------------------------------------------------------
(* Invoice numbers: what an estimate or a conversion under way has as its     *)
(* invoice is an invoice of that estimate's lines, and an estimate that has   *)
(* one is invoiced.                                                           *)
InvoiceOf(I, e, n) == n \in DOMAIN I /\ I[n] = [kind |-> "lines", of |-> {e}]

NamesItsInvoice ==
    \A e \in Estimates : estimate[e].invoice # 0 =>
        estimate[e].status = "invoiced" /\ InvoiceOf(invoices, e, estimate[e].invoice)

NumberInv ==
    /\ NamesItsInvoice
    /\ \A s \in Sessions : req[s].op = "convert" /\ req[s].invoice # 0 =>
          InvoiceOf(invoices, req[s].est, req[s].invoice)
    /\ orderLines \in [Orders -> LineKinds]

(* An invoice stays as it was issued. *)
InvoicesStay ==
    \A n \in DOMAIN invoices : n \in DOMAIN invoices' /\ invoices'[n] = invoices[n]

LEMMA IssuedStays ==
    ASSUME EInv,
           NEW inv \in [kind : {"single", "consolidated", "lines"}, of : SUBSET Rows],
           invoices' = Append(invoices, inv)
    PROVE  InvoicesStay
<1> DEFINE Invoice == [kind : {"single", "consolidated", "lines"}, of : SUBSET Rows]
<1>1. invoices \in Seq(Invoice) /\ inv \in Invoice
  BY DEF EInv, BInv, Tables
<1> HIDE DEF Invoice
<1> QED
  BY <1>1 DEF InvoicesStay

(* A step of a session: it gives an estimate its own number, if any.         *)
LEMMA NumbersKept ==
    ASSUME EInv, NumberInv, NEW s \in Sessions,
           InvoicesStay,
           UNCHANGED orderLines,
           \A e \in Estimates :
               \/ /\ estimate'[e].invoice = estimate[e].invoice
                  /\ estimate[e].status = "invoiced" => estimate'[e].status = "invoiced"
               \/ /\ InvoiceOf(invoices', e, estimate'[e].invoice)
                  /\ estimate'[e].status = "invoiced",
           \A t \in Sessions \ {s} : req'[t] = req[t],
           \/ req'[s] = req[s]
           \/ req'[s].op # "convert"
           \/ req'[s].invoice = 0
           \/ InvoiceOf(invoices', req'[s].est, req'[s].invoice)
    PROVE  NumberInv'
<1>1. \A e, n : InvoiceOf(invoices, e, n) => InvoiceOf(invoices', e, n)
  BY DEF InvoiceOf, InvoicesStay
<1>2. NamesItsInvoice'
  <2> SUFFICES ASSUME NEW e \in Estimates, estimate'[e].invoice # 0
               PROVE  /\ estimate'[e].status = "invoiced"
                      /\ InvoiceOf(invoices', e, estimate'[e].invoice)
    BY DEF NamesItsInvoice
  <2>1. CASE estimate'[e].invoice = estimate[e].invoice
    BY <2>1, <1>1 DEF NumberInv, NamesItsInvoice
  <2> QED
    BY <2>1
<1>3. ASSUME NEW t \in Sessions, req'[t].op = "convert", req'[t].invoice # 0
      PROVE  InvoiceOf(invoices', req'[t].est, req'[t].invoice)
  <2>1. CASE req'[t] = req[t]
    BY <2>1, <1>1, <1>3 DEF NumberInv
  <2>2. CASE t = s /\ req'[s] # req[s]
    BY <2>2, <1>3
  <2> QED
    BY <2>1, <2>2
<1> QED
  BY <1>2, <1>3 DEF NumberInv

LEMMA AskNumbers ==
    ASSUME EInv, NumberInv, NEW s \in Sessions, AskOrders(s) \/ AskEstimate(s) \/ toInvoice(s)
    PROVE  NumberInv'
<1>1. ASSUME NEW r, NEW rows, Begin(s, r, rows), r.op # "convert" \/ r.invoice = 0
      PROVE  NumberInv'
  <2>1. /\ req' = [req EXCEPT ![s] = r]
        /\ UNCHANGED <<orderLines, estimate, invoices>>
    BY <1>1 DEF Begin, tables
  <2>2. req'[s] = r /\ \A t \in Sessions \ {s} : req'[t] = req[t]
    BY <2>1 DEF EInv, BInv, Shapes
  <2> QED
    BY <1>1, <2>1, <2>2, NumbersKept DEF InvoicesStay
<1>2. CASE AskOrders(s)
  <2>1. ASSUME NEW o, Begin(s, [op |-> "single"], <<o>>) PROVE NumberInv'
    BY <2>1, <1>1
  <2>2. ASSUME NEW rows, Begin(s, [op |-> "consolidated"], rows) PROVE NumberInv'
    BY <2>2, <1>1
  <2>3. ASSUME NEW o, NEW to, Begin(s, [op |-> "transition", to |-> to], <<o>>) PROVE NumberInv'
    BY <2>3, <1>1
  <2> QED
    BY <1>2, <2>1, <2>2, <2>3 DEF AskOrders
<1>3. CASE AskEstimate(s)
  <2>1. ASSUME NEW e, NEW to, Begin(s, [op |-> "update", to |-> to], <<e>>) PROVE NumberInv'
    BY <2>1, <1>1
  <2>2. ASSUME NEW e, NEW to, Begin(s, [op |-> "status", to |-> to], <<e>>) PROVE NumberInv'
    BY <2>2, <1>1
  <2> QED
    BY <1>3, <2>1, <2>2 DEF AskEstimate
<1>4. CASE toInvoice(s)
  <2>1. ASSUME NEW e, NEW q,
               Begin(s, [op |-> "convert", est |-> e, quote |-> q, invoice |-> 0], <<>>)
        PROVE  NumberInv'
    BY <2>1, <1>1
  <2> QED
    BY <1>4, <2>1 DEF toInvoice
<1> QED
  BY <1>2, <1>3, <1>4

(* A request ends, having issued at most an invoice and numbered no estimate  *)
(* but by its own.                                                           *)
LEMMA EndNumbers ==
    ASSUME EInv, NumberInv, NEW s \in Sessions, End(s),
           InvoicesStay,
           UNCHANGED orderLines,
           \A e \in Estimates :
               \/ /\ estimate'[e].invoice = estimate[e].invoice
                  /\ estimate[e].status = "invoiced" => estimate'[e].status = "invoiced"
               \/ /\ InvoiceOf(invoices', e, estimate'[e].invoice)
                  /\ estimate'[e].status = "invoiced"
    PROVE  NumberInv'
<1>1. req'[s] = Idle /\ \A t \in Sessions \ {s} : req'[t] = req[t]
  BY DEF End, EInv, BInv, Shapes
<1>2. req'[s].op # "convert"
  BY <1>1 DEF Idle
<1> QED
  BY <1>1, <1>2, NumbersKept

LEMMA BillingNumbers ==
    ASSUME EInv, NumberInv, NEW s \in Sessions,
           issueFromWorkOrder(s) \/ issueConsolidated(s) \/ transition(s)
    PROVE  NumberInv'
<1>1. CASE issueFromWorkOrder(s)
  <2>1. PICK o, inv : o = lockedRow(s) /\ inv = [kind |-> "single", of |-> {o}]
    OBVIOUS
  <2>2. o \in Orders
    BY <1>1, <2>1, LockedOrder DEF EInv, issueFromWorkOrder, Locked
  <2>3. inv \in [kind : {"single", "consolidated", "lines"}, of : SUBSET Rows]
    BY <2>1, <2>2 DEF Rows
  <2>4. /\ invoices' = Append(invoices, inv)
        /\ End(s) /\ UNCHANGED <<orderLines, estimate>>
    BY <1>1, <2>1 DEF issueFromWorkOrder
  <2>5. InvoicesStay
    BY <2>3, <2>4, IssuedStays
  <2> QED
    BY <2>4, <2>5, EndNumbers
<1>2. CASE issueConsolidated(s)
  <2>1. PICK inv : inv = [kind |-> "consolidated", of |-> DOMAIN held[s]]
    OBVIOUS
  <2>2. DOMAIN held[s] \subseteq Orders
    BY <1>2 DEF EInv, BInv, Shapes, Shape, issueConsolidated, Locked
  <2>3. inv \in [kind : {"single", "consolidated", "lines"}, of : SUBSET Rows]
    BY <2>1, <2>2 DEF Rows
  <2>4. /\ invoices' = Append(invoices, inv)
        /\ End(s) /\ UNCHANGED <<orderLines, estimate>>
    BY <1>2, <2>1 DEF issueConsolidated
  <2>5. InvoicesStay
    BY <2>3, <2>4, IssuedStays
  <2> QED
    BY <2>4, <2>5, EndNumbers
<1>3. CASE transition(s)
  <2>1. End(s) /\ UNCHANGED <<orderLines, estimate, invoices>>
    BY <1>3 DEF transition
  <2> QED
    BY <2>1, EndNumbers DEF InvoicesStay
<1> QED
  BY <1>1, <1>2, <1>3

LEMMA GivenUpNumbers ==
    ASSUME EInv, NumberInv, NEW s \in Sessions, Refuse(s) \/ BreakDeadlock(s) \/ Rollback(s)
    PROVE  NumberInv'
<1>1. End(s) /\ UNCHANGED <<orderLines, estimate, invoices>>
  <2>1. CASE Refuse(s)
    BY <2>1 DEF Refuse, tables
  <2>2. CASE BreakDeadlock(s)
    <3>1. End(s) /\ UNCHANGED tables
      BY <2>2, Zenon DEF BreakDeadlock
    <3> QED
      BY <3>1 DEF tables
  <2>3. CASE Rollback(s)
    BY <2>3 DEF Rollback, tables
  <2> QED
    BY <2>1, <2>2, <2>3
<1> QED
  BY <1>1, EndNumbers DEF InvoicesStay

LEMMA EditNumbers ==
    ASSUME EInv, NumberInv, NEW s \in Sessions, update(s) \/ setStatus(s)
    PROVE  NumberInv'
<1>1. PICK e \in Estimates, q \in [status : STATUSES, lines : Nat, invoice : Nat] :
        /\ edited(s, e, q) /\ q.invoice = estimate[e].invoice
        /\ estimate[e].status = "invoiced" => q.status = "invoiced"
  BY EditedRow
<1>2. /\ estimate' = [estimate EXCEPT ![e] = q] /\ End(s)
      /\ UNCHANGED <<orderLines, invoices>>
  BY <1>1 DEF edited
<1>3. ASSUME NEW f \in Estimates
      PROVE  /\ estimate'[f].invoice = estimate[f].invoice
             /\ estimate[f].status = "invoiced" => estimate'[f].status = "invoiced"
  BY <1>1, <1>2 DEF EInv, EstimateRows
<1> QED
  BY <1>2, <1>3, EndNumbers DEF InvoicesStay

(* The conversion has the number of the invoice it has just issued.          *)
LEMMA LinesNumbers ==
    ASSUME EInv, NumberInv, NEW s \in Sessions, issueFromLines(s)
    PROVE  NumberInv'
<1>1. PICK inv, n, e, r :
        /\ inv = [kind |-> "lines", of |-> {e}] /\ n = Len(invoices) + 1
        /\ e = req[s].est /\ r = [req[s] EXCEPT !.invoice = n]
  OBVIOUS
<1>2. /\ invoices' = Append(invoices, inv) /\ req' = [req EXCEPT ![s] = r]
      /\ UNCHANGED <<orderLines, estimate>> /\ req[s].op = "convert"
  BY <1>1 DEF issueFromLines
<1>3. req'[s] = r /\ \A t \in Sessions \ {s} : req'[t] = req[t]
  BY <1>2 DEF EInv, BInv, Shapes
<1>4. "invoice" \in DOMAIN req[s]
  BY <1>2 DEF EInv, Asked
<1>5. r.est = e /\ r.invoice = n
  BY <1>1, <1>4
<1>6. inv \in [kind : {"single", "consolidated", "lines"}, of : SUBSET Rows]
  BY <1>1, <1>2 DEF EInv, BInv, Shapes, Shape, Rows
<1>7. InvoicesStay /\ n \in DOMAIN invoices' /\ invoices'[n] = inv
  <2> DEFINE Invoice == [kind : {"single", "consolidated", "lines"}, of : SUBSET Rows]
  <2>1. invoices \in Seq(Invoice) /\ inv \in Invoice
    BY <1>6 DEF EInv, BInv, Tables
  <2> HIDE DEF Invoice
  <2>2. invoices' = Append(invoices, inv) /\ n = Len(invoices) + 1
    BY <1>1, <1>2
  <2>3. n \in DOMAIN invoices' /\ invoices'[n] = inv
    BY <2>1, <2>2
  <2> QED
    BY <1>6, <2>2, <2>3, IssuedStays
<1>8. InvoiceOf(invoices', req'[s].est, req'[s].invoice)
  BY <1>1, <1>3, <1>5, <1>7 DEF InvoiceOf
<1> QED
  BY <1>2, <1>3, <1>7, <1>8, NumbersKept

LEMMA MarkNumbers ==
    ASSUME EInv, NumberInv, NEW s \in Sessions, Mark(s)
    PROVE  NumberInv'
<1>1. PICK e, n : e = req[s].est /\ n = req[s].invoice
  OBVIOUS
<1>2. /\ estimate' = [estimate EXCEPT ![e].status = "invoiced", ![e].invoice = n]
      /\ End(s) /\ UNCHANGED <<orderLines, invoices>>
      /\ req[s].op = "convert" /\ n # 0
  BY <1>1 DEF Mark
<1>3. InvoiceOf(invoices', e, n)
  BY <1>1, <1>2 DEF NumberInv, InvoiceOf
<1>4. \A f \in Estimates : estimate[f] \in [status : STATUSES, lines : Nat, invoice : Nat]
  BY DEF EInv, EstimateRows
<1>5. ASSUME NEW f \in Estimates
      PROVE  \/ estimate'[f] = estimate[f]
             \/ InvoiceOf(invoices', f, estimate'[f].invoice) /\ estimate'[f].status = "invoiced"
  <2>1. CASE f # e
    BY <2>1, <1>2 DEF EInv, EstimateRows
  <2>2. CASE f = e
    <3>1. estimate'[f] = [[estimate[f] EXCEPT !.status = "invoiced"] EXCEPT !.invoice = n]
      BY <2>2, <1>2 DEF EInv, EstimateRows
    <3>2. estimate'[f].invoice = n /\ estimate'[f].status = "invoiced"
      BY <3>1, <1>4
    <3> QED
      BY <2>2, <3>2, <1>3
  <2> QED
    BY <2>1, <2>2
<1> QED
  BY <1>2, <1>5, EndNumbers DEF InvoicesStay

LEMMA NextNumbers == EInv /\ NumberInv /\ [Next]_vars => NumberInv'
<1> SUFFICES ASSUME EInv, NumberInv, [Next]_vars PROVE NumberInv'
  OBVIOUS
<1>1. CASE UNCHANGED vars
  BY <1>1 DEF vars, tables, NumberInv, NamesItsInvoice, InvoiceOf
<1>2. ASSUME NEW s \in Sessions, Lock(s) PROVE NumberInv'
  BY <1>2, NumbersKept DEF Lock, tables, InvoicesStay
<1> QED
  BY <1>1, <1>2, AskNumbers, BillingNumbers, GivenUpNumbers, EditNumbers, LinesNumbers,
     MarkNumbers DEF Next, Run

LEMMA SpecNumbers == Spec => [](EInv /\ NumberInv)
<1>1. Init => NumberInv
  BY DEF Init, NumberInv, NamesItsInvoice, Idle
<1> QED
  BY <1>1, InitEInv, NextEInv, NextNumbers, PTL DEF Spec

(* EstimateNamesItsInvoice: an estimate that names an invoice is invoiced and *)
(* the invoice is one made from its own lines, in three transactions that     *)
(* other requests come between and of which any may fail (toInvoice,          *)
(* issueFromLines, the marking).  The converse does not hold: update and      *)
(* setStatus let an estimate be called invoiced with no invoice.             *)
THEOREM EstimateNamesItsInvoice == Spec => []NamesItsInvoice
BY SpecNumbers, PTL DEF NumberInv

(* BillingTypeCorrect: rows keep their shape, only rows there are get locked, *)
(* and no estimate is marked with an invoice there is not.                   *)
THEOREM BillingTypeCorrect == Spec => []TypeOK
<1>1. EInv /\ NumberInv => TypeOK
  <2> SUFFICES ASSUME EInv, NumberInv PROVE TypeOK
    OBVIOUS
  <2>1. PICK I : I = [kind : {"single", "consolidated", "lines"}, of : SUBSET Rows]
    OBVIOUS
  <2>2. invoices \in Seq(I)
    BY <2>1 DEF EInv, BInv, Tables
  <2>3. \A n \in DOMAIN invoices : n \in 1 .. Len(invoices) /\ invoices[n] \in I
    BY <2>2
  <2>4. ASSUME NEW e \in Estimates
        PROVE  estimate[e] \in [status : STATUSES, lines : Nat, invoice : 0 .. Len(invoices)]
    <3>1. estimate[e] \in [status : STATUSES, lines : Nat, invoice : Nat]
      BY DEF EInv, EstimateRows
    <3>2. Len(invoices) \in Nat
      BY <2>2
    <3>3. estimate[e].invoice = 0 \/ estimate[e].invoice \in DOMAIN invoices
      BY DEF NumberInv, NamesItsInvoice, InvoiceOf
    <3>4. estimate[e].invoice \in 0 .. Len(invoices)
      BY <2>3, <3>1, <3>2, <3>3
    <3> QED
      BY <3>1, <3>4
  <2>5. estimate \in [Estimates -> [status : STATUSES, lines : Nat, invoice : 0 .. Len(invoices)]]
    BY <2>4 DEF EInv, EstimateRows
  <2>6. \A n \in DOMAIN invoices : invoices[n].of \subseteq Rows
    BY <2>1, <2>3
  <2>7. ASSUME NEW s \in Sessions PROVE DOMAIN held[s] \subseteq Rows
    <3>1. Shape(s)
      BY DEF EInv, BInv, Shapes
    <3> QED
      BY <3>1 DEF Shape, OneOrder, Rows
  <2> QED
    BY <2>5, <2>6, <2>7 DEF EInv, BInv, Tables, NumberInv, TypeOK
<1> QED
  BY <1>1, SpecNumbers, PTL
=============================================================================
