--------------------------- MODULE WorkOrderStock ---------------------------
(***************************************************************************)
(* Work orders, the mechanics clocked on to them, and the stock their part  *)
(* lines reserve and issue, as concurrent transactions on PostgreSQL in     *)
(* READ COMMITTED isolation.                                                *)
(*                                                                          *)
(* order, line, entry and level are the committed rows.  A transaction      *)
(* keeps what it has written in work[t] until it commits; the rows in there *)
(* are the ones it has locked.  A request begins by locking its order's     *)
(* header (FOR UPDATE) and checking it; a request that is refused, or is a  *)
(* replay, changes nothing and is not shown.  todo[t] is what it still has  *)
(* to do to rows it has not locked yet.                                     *)
(***************************************************************************)
EXTENDS Integers, Sequences, FiniteSets, Tables

CONSTANTS Tx,           \* database sessions; each runs one request at a time
          Orders, Lines, Mechanics,
          Rows,         \* stock rows of one item, numbered as their ids sort
          Backed,       \* the part lines that draw on stock
          orderOf,      \* the order a line id belongs to
          rowOf, qtyOf, \* what a stock-backed line reserves, and where
          Stock,        \* on_hand of each row at the start
          Quantities,   \* quantities received, adjusted or transferred
          Statuses0,    \* bound: statuses the orders are in at the start
          MaxRequests   \* bound: requests in a behaviour

ASSUME StockAssumption ==
    /\ Rows \subseteq Nat /\ IsFiniteSet(Rows)
    /\ Backed \subseteq Lines /\ IsFiniteSet(Backed)
    /\ orderOf \in [Lines -> Orders]
    /\ rowOf \in [Backed -> Rows]
    /\ qtyOf \in [Backed -> Nat \ {0}]
    /\ Stock \in [Rows -> Nat]
    /\ Quantities \subseteq Nat \ {0}
    /\ MaxRequests \in Nat

VARIABLES order,  \* header: its status and, once invoiced, the lines billed
          line,   \* line: absent, present or issued, and whether it costs anything
          entry,  \* the orders a mechanic has an open time entry on
          level,  \* stock row: onHand and reserved
          inflow, \* history: quantity received, and adjusted, so far
          running, work, todo, used

rows == <<order, line, entry, level, inflow>>
vars == <<rows, running, work, todo, used>>

-----------------------------------------------------------------------------
(* workorder-state.ts *)
TRANSITIONS ==
    [draft             |-> {"open", "cancelled"},
     open              |-> {"in_progress", "on_hold", "awaiting_parts", "cancelled"},
     in_progress       |-> {"awaiting_approval", "awaiting_parts", "on_hold", "ready", "cancelled"},
     awaiting_approval |-> {"in_progress", "on_hold", "cancelled"},
     awaiting_parts    |-> {"in_progress", "on_hold", "cancelled"},
     on_hold           |-> {"in_progress", "awaiting_parts", "cancelled"},
     ready             |-> {"invoiced", "in_progress"},
     invoiced          |-> {"closed"},
     closed            |-> {},
     cancelled         |-> {}]

Statuses == DOMAIN TRANSITIONS
EDITABLE == Statuses \ {"invoiced", "closed", "cancelled"}
CanClockOn == {"open", "in_progress", "awaiting_parts", "awaiting_approval", "on_hold"}

linesOf(w) == {l \in Lines : orderOf[l] = w /\ line[l].at # "absent"}
billable(w) == {l \in linesOf(w) : line[l].net > 0}
clockedOn(w) == {m \in Mechanics : w \in entry[m]}

(* Mutant: Ready while a mechanic is clocked on. *)
assertTransitionUnclocked(w, to) ==
    /\ to \in TRANSITIONS[order[w].status]
    /\ to = "invoiced" => linesOf(w) # {}
assertTransition(w, to) ==
    /\ to \in TRANSITIONS[order[w].status]
    /\ to = "ready" => clockedOn(w) = {}
    /\ to = "invoiced" => linesOf(w) # {}

(* inventory.ts: what a movement of q does to a stock row, and when it may. *)
StockState == {s \in [onHand : Nat, reserved : Nat] : s.reserved <= s.onHand}

applyMovement(s, type, q) ==
    CASE type \in {"receive", "adjust", "transfer_in"} -> [s EXCEPT !.onHand = @ + q]
      [] type = "transfer_out" -> [s EXCEPT !.onHand = @ - q]
      [] type = "reserve"      -> [s EXCEPT !.reserved = @ + q]
      [] type = "release"      -> [s EXCEPT !.reserved = @ - q]
      [] type = "issue"        -> [onHand |-> s.onHand - q, reserved |-> s.reserved - q]

(* Every guard of the reducer is that the state it leads to is valid. *)
allowed(s) == 0 <= s.reserved /\ s.reserved <= s.onHand

-----------------------------------------------------------------------------
NoWork == [order |-> Nothing, line |-> Nothing, entry |-> Nothing, level |-> Nothing,
           inflow |-> 0]

OrderFree(t, w) == \A u \in Tx \ {t} : w \notin DOMAIN work[u].order
EntryFree(t, m) == \A u \in Tx \ {t} : m \notin DOMAIN work[u].entry
(* Mutant: a stock row that is read without FOR UPDATE. *)
RowUnlocked(t, r) == TRUE
RowFree(t, r) == \A u \in Tx \ {t} : r \notin DOMAIN work[u].level

Locked(w) == one(w, order[w])
(* The writes of a request on a line: its order is locked and left as it is. *)
OnLine(l, r) == [order |-> Locked(orderOf[l]), line |-> one(l, r), entry |-> Nothing,
                 level |-> Nothing, inflow |-> 0]
Move(r, type, q) == [row |-> r, type |-> type, qty |-> q]
Punch(m, w) == [mechanic |-> m, order |-> w]

Init ==
    \* orders nobody has worked on yet
    /\ order \in [Orders -> [status : Statuses0 \cap EDITABLE, billed : {{}}]]
    /\ line = [l \in Lines |-> [at |-> "absent", net |-> 0]]
    /\ entry = [m \in Mechanics |-> {}]
    /\ level = [r \in Rows |-> [onHand |-> Stock[r], reserved |-> 0]]
    /\ inflow = 0
    /\ running = {}
    /\ work = [t \in Tx |-> NoWork]
    /\ todo = [t \in Tx |-> <<>>]
    /\ used = 0

(* BEGIN, and the statements that need no lock but the header's. *)
Begin(t, writes, statements) ==
    /\ t \notin running
    /\ used < MaxRequests
    /\ used' = used + 1
    /\ running' = running \cup {t}
    /\ work' = [work EXCEPT ![t] = writes]
    /\ todo' = [todo EXCEPT ![t] = statements]
    /\ UNCHANGED rows

End(t) ==
    /\ running' = running \ {t}
    /\ work' = [work EXCEPT ![t] = NoWork]
    /\ todo' = [todo EXCEPT ![t] = <<>>]
    /\ UNCHANGED used

-----------------------------------------------------------------------------
(* addLine: a line whose id is there already is a replay. *)
AddLine(t, l) ==
    LET w == orderOf[l] IN
    /\ OrderFree(t, w)
    /\ line[l].at = "absent"
    /\ order[w].status \in EDITABLE
    /\ \E n \in {0, 1} :
          Begin(t, OnLine(l, [at |-> "present", net |-> n]),
                IF l \in Backed THEN <<Move(rowOf[l], "reserve", qtyOf[l])>> ELSE <<>>)

(* issueLine: the reservation becomes an issue. *)
IssueLine(t, l) ==
    LET w == orderOf[l] IN
    /\ OrderFree(t, w)
    /\ line[l].at = "present"
    /\ l \in Backed
    /\ order[w].status \in EDITABLE
    /\ Begin(t, OnLine(l, [line[l] EXCEPT !.at = "issued"]),
             <<Move(rowOf[l], "issue", qtyOf[l])>>)

(* updateLine: the price of a line that holds no stock. *)
UpdateLine(t, l) ==
    LET w == orderOf[l] IN
    /\ OrderFree(t, w)
    /\ line[l].at = "present"
    /\ l \notin Backed
    /\ order[w].status \in EDITABLE
    /\ \E n \in {0, 1} :
          Begin(t, OnLine(l, [at |-> "present", net |-> n]),
                <<>>)

(* Mutant: removeLine deletes the line and keeps the reservation. *)
RemoveLineOnly(t, l) ==
    LET w == orderOf[l] IN
    /\ OrderFree(t, w)
    /\ line[l].at = "present"
    /\ order[w].status \in EDITABLE
    /\ Begin(t, OnLine(l, [at |-> "absent", net |-> 0]), <<>>)

(* removeLine: release, then DELETE, as the service is written.  The role    *)
(* workshop_app is granted no DELETE on work_order_lines (migrations 0001 to  *)
(* 0032): as long as that is so, each of these ends in the Rollback below.    *)
RemoveLine(t, l) ==
    LET w == orderOf[l] IN
    /\ OrderFree(t, w)
    /\ line[l].at = "present"
    /\ order[w].status \in EDITABLE
    /\ Begin(t, OnLine(l, [at |-> "absent", net |-> 0]),
             IF l \in Backed THEN <<Move(rowOf[l], "release", qtyOf[l])>> ELSE <<>>)

(* transition: the open entries are counted without a lock. *)
Transition(t, w, to) ==
    /\ OrderFree(t, w)
    /\ to # order[w].status
    /\ assertTransition(w, to)
    /\ Begin(t, [NoWork EXCEPT !.order = one(w, [order[w] EXCEPT !.status = to])], <<>>)

(* Mutant: clockOn reads its order without FOR UPDATE. *)
ClockOnUnlocked(t, w, m) ==
    /\ order[w].status \in CanClockOn
    /\ entry[m] = {}
    /\ Begin(t, NoWork, <<Punch(m, w)>>)

(* clockOn: advances an open order.  A mechanic already on it is a replay,   *)
(* one who is on another order is refused; both are seen in an unlocked read *)
(* of the mechanic's open entries.                                           *)
advanced(w) == IF order[w].status = "open" THEN [order[w] EXCEPT !.status = "in_progress"]
               ELSE order[w]
ClockOn(t, w, m) ==
    /\ OrderFree(t, w)
    /\ order[w].status \in CanClockOn
    /\ entry[m] = {}
    /\ Begin(t, [NoWork EXCEPT !.order = one(w, advanced(w))],
             <<Punch(m, w)>>)

(* clockOff locks the open entry, not the order. *)
ClockOff(t, w, m) ==
    /\ EntryFree(t, m)
    /\ w \in entry[m]
    /\ Begin(t, [NoWork EXCEPT !.entry = one(m, entry[m] \ {w})], <<>>)

(* Mutant: the order is read without FOR UPDATE. *)
IssueInvoiceUnlocked(t, w) ==
    /\ order[w].status \notin {"invoiced", "closed"}
    /\ billable(w) # {}
    /\ Begin(t, [NoWork EXCEPT !.order = one(w, [status |-> "invoiced", billed |-> billable(w)])], <<>>)

(* issueFromWorkOrder: bills what is on the order now.  It looks at the      *)
(* status alone, not at TRANSITIONS.                                         *)
IssueInvoice(t, w) ==
    /\ OrderFree(t, w)
    /\ order[w].status \notin {"invoiced", "closed"}
    /\ billable(w) # {}
    /\ Begin(t, [NoWork EXCEPT !.order = one(w, [status |-> "invoiced", billed |-> billable(w)])], <<>>)

Receive(t, r, q) == Begin(t, [NoWork EXCEPT !.inflow = q], <<Move(r, "receive", q)>>)

Adjust(t, r, q) ==
    \E d \in {q, -q} : Begin(t, [NoWork EXCEPT !.inflow = d], <<Move(r, "adjust", d)>>)

(* Mutant: the legs of a transfer in the order they are asked for. *)
TransferAsAsked(t, from, to, q) ==
    /\ from # to
    /\ Begin(t, NoWork, <<Move(from, "transfer_out", q), Move(to, "transfer_in", q)>>)

(* transfer: both legs, the row that sorts first before the other. *)
Transfer(t, from, to, q) ==
    LET out == Move(from, "transfer_out", q)
        in  == Move(to, "transfer_in", q)
    IN  /\ from # to
        /\ Begin(t, NoWork, IF from < to THEN <<out, in>> ELSE <<in, out>>)

-----------------------------------------------------------------------------
(* InventoryService.move: lock the stock row, apply the movement; an error   *)
(* ends the whole transaction.                                               *)
MoveStock(t) ==
    /\ todo[t] # <<>>
    /\ LET m == Head(todo[t]) IN
       /\ "row" \in DOMAIN m
       /\ RowFree(t, m.row)
       /\ LET next == applyMovement(over(work[t].level, level)[m.row], m.type, m.qty) IN
          IF allowed(next)
          THEN /\ work' = [work EXCEPT ![t].level = over(one(m.row, next), @)]
               /\ todo' = [todo EXCEPT ![t] = Tail(@)]
               /\ UNCHANGED <<running, used>>
          ELSE End(t)
    /\ UNCHANGED rows

(* Mutant: a table without uq_one_open_entry_per_mechanic. *)
InsertEntryUnchecked(t) ==
    /\ todo[t] # <<>>
    /\ LET p == Head(todo[t]) IN
       /\ "mechanic" \in DOMAIN p
       /\ EntryFree(t, p.mechanic)
       /\ work' = [work EXCEPT ![t].entry = one(p.mechanic, entry[p.mechanic] \cup {p.order})]
    /\ todo' = [todo EXCEPT ![t] = Tail(@)]
    /\ UNCHANGED <<rows, running, used>>

(* The INSERT of a time entry: the unique index waits for an uncommitted     *)
(* twin and fails on a committed one.                                        *)
InsertEntry(t) ==
    /\ todo[t] # <<>>
    /\ LET p == Head(todo[t]) IN
       /\ "mechanic" \in DOMAIN p
       /\ EntryFree(t, p.mechanic)
       /\ IF entry[p.mechanic] = {}
          THEN /\ work' = [work EXCEPT ![t].entry = one(p.mechanic, {p.order})]
               /\ todo' = [todo EXCEPT ![t] = Tail(@)]
               /\ UNCHANGED <<running, used>>
          ELSE End(t)
    /\ UNCHANGED rows

Commit(t) ==
    /\ t \in running
    /\ todo[t] = <<>>
    /\ order' = over(work[t].order, order)
    /\ line' = over(work[t].line, line)
    /\ entry' = over(work[t].entry, entry)
    /\ level' = over(work[t].level, level)
    /\ inflow' = inflow + work[t].inflow
    /\ End(t)

(* Any statement may fail, and the connection or the process may die. *)
Rollback(t) ==
    /\ t \in running
    /\ End(t)
    /\ UNCHANGED rows

Proceed(t) == MoveStock(t) \/ InsertEntry(t) \/ Commit(t)

Request(t) ==
    \/ \E l \in Lines : AddLine(t, l) \/ IssueLine(t, l) \/ UpdateLine(t, l) \/ RemoveLine(t, l)
    \/ \E w \in Orders : \/ \E to \in Statuses : Transition(t, w, to)
                         \/ \E m \in Mechanics : ClockOn(t, w, m) \/ ClockOff(t, w, m)
                         \/ IssueInvoice(t, w)
    \/ \E r \in Rows, q \in Quantities : \/ Receive(t, r, q) \/ Adjust(t, r, q)
                                         \/ \E s \in Rows : Transfer(t, r, s, q)

Next == \E t \in Tx : Request(t) \/ Proceed(t) \/ Rollback(t)

Spec == Init /\ [][Next]_vars

(* A request that has begun is carried on by the server. *)
FairSpec == Spec /\ \A t \in Tx : WF_vars(Proceed(t))

-----------------------------------------------------------------------------
(* What the lines waiting for a stock row ask for, and what has been fitted. *)
inState(at, l) == IF line[l].at = at THEN qtyOf[l] ELSE 0
promised(r) == Total([l \in Backed |-> IF rowOf[l] = r THEN inState("present", l) ELSE 0])
issued == Total([l \in Backed |-> inState("issued", l)])
onHand == Total([r \in Rows |-> level[r].onHand])

(* TypeOK: rows have their shape, every committed stock row has              *)
(* 0 <= reserved <= on_hand, and only running transactions hold anything.    *)
TypeOK ==
    /\ order \in [Orders -> [status : Statuses, billed : SUBSET Lines]]
    /\ line \in [Lines -> [at : {"absent", "present", "issued"}, net : {0, 1}]]
    /\ entry \in [Mechanics -> SUBSET Orders]
    /\ level \in [Rows -> StockState]
    /\ inflow \in Int
    /\ running \subseteq Tx
    /\ used \in 0 .. MaxRequests
    /\ \A t \in Tx \ running : work[t] = NoWork /\ todo[t] = <<>>

(* ReservedMatchesLines: what a stock row says is reserved is exactly what   *)
(* the lines waiting for it ask for ("we can never promise a part we don't   *)
(* have", addLine), and no more than is there: no interleaving of add,       *)
(* issue, remove, receipt, adjustment and transfer loses or doubles a        *)
(* reservation, or takes away what is promised.                              *)
ReservedMatchesLines ==
    \A r \in Rows :
        /\ level[r].reserved = promised(r)
        /\ level[r].reserved <= level[r].onHand

(* Conservation: what came in is on hand or fitted, each part once.          *)
Conservation == Total(Stock) + inflow = onHand + issued

(* ReadyIsFinished: nobody is on the clock of an order that is ready         *)
(* (assertTransition's "that would corrupt labour cost and productivity"),   *)
(* although clock and status are changed by different transactions.          *)
ReadyIsFinished == \A w \in Orders : order[w].status = "ready" => clockedOn(w) = {}

(* OneClock: a mechanic is on one order at a time (assertCanClockOn).        *)
OneClock == \A m \in Mechanics : Cardinality(entry[m]) <= 1

(* BillIsComplete: the invoice of an order bills exactly its billable lines, *)
(* then and ever after: none is added, repriced or removed behind it.        *)
BillIsComplete == \A w \in Orders : order[w].billed # {} => order[w].billed = billable(w)

(* Ends: no set of requests waits for each other's rows for ever: a request  *)
(* that began ends.                                                          *)
Ends == \A t \in Tx : t \in running ~> t \notin running
=============================================================================
