------------------------ MODULE WorkOrderStockProofs ------------------------
(***************************************************************************)
(* The safety of the work orders and their stock, for any sessions, orders, *)
(* lines, mechanics, stock rows, quantities and bounds.  The invariant says *)
(* what a transaction under way is about to write, relative to the rows it  *)
(* has locked: those are what they were when it looked at them.             *)
(*                                                                          *)
(* From the order in which a transaction takes its rows it follows that no  *)
(* set of transactions waits in a circle.                                   *)
(*                                                                          *)
(* The second part is about the tablets that send these operations later.   *)
(***************************************************************************)
EXTENDS WorkOrderStock, OfflineSync, TableTheorems

OrderRow == [status : Statuses, billed : SUBSET Lines]
LineRow == [at : {"absent", "present", "issued"}, net : {0, 1}]

(* What a movement of stock has to do with the line that asks for it.        *)
LineMoves == {<<"reserve", "absent", "present">>, <<"issue", "present", "issued">>,
              <<"release", "present", "absent">>}
Legs == {<<"transfer_out", "transfer_in">>, <<"transfer_in", "transfer_out">>}

-----------------------------------------------------------------------------
(* The writes W of a transaction, with the statements td still to come.  All *)
(* that these say of rows it says of rows the transaction has locked.        *)

(* An order is billed with what is on it or keeps its bill, and gets ready    *)
(* when nobody is on the clock.                                              *)
OrderJob(W) ==
    \A w \in DOMAIN W.order :
        /\ w \in Orders
        /\ W.order[w] \in OrderRow
        /\ \/ /\ W.order[w].billed = order[w].billed
              /\ W.order[w].billed # {} => W.order[w].status \in {"invoiced", "closed"}
           \/ /\ W.order[w].billed = billable(w)
              /\ W.order[w].status = "invoiced"
              /\ DOMAIN W.line = {}
        /\ W.order[w].status = "ready" => clockedOn(w) = {}

(* A line changes only with its order locked, editable and left as it is.    *)
LineJob(W) ==
    \A l \in DOMAIN W.line :
        /\ l \in Lines
        /\ W.line[l] \in LineRow
        /\ orderOf[l] \in DOMAIN W.order
        /\ W.order[orderOf[l]] = order[orderOf[l]]
        /\ order[orderOf[l]].status \in EDITABLE

(* A mechanic is clocked off, or on to a locked order that is not ready.     *)
EntryJob(W) ==
    \A m \in DOMAIN W.entry :
        /\ m \in Mechanics
        /\ \/ W.entry[m] = {}
           \/ \E w \in DOMAIN W.order : W.entry[m] = {w} /\ W.order[w].status \in CanClockOn

(* A row that has been moved.                                                *)
Moved(W, r, type, q) ==
    W.level[r] = applyMovement(level[r], type, q) /\ W.level[r] \in StockState

OneMove(W, td, r, type, q) ==
    \/ td = <<Move(r, type, q)>> /\ DOMAIN W.level = {}
    \/ td = <<>> /\ DOMAIN W.level = {r} /\ Moved(W, r, type, q)

NoStock(W, td) ==
    /\ DOMAIN W.level = {}
    /\ DOMAIN W.line \cap Backed = {}
    /\ W.inflow = 0
    /\ \/ td = <<>>
       \/ \E m \in Mechanics, w \in DOMAIN W.order :
             td = <<Punch(m, w)>> /\ W.order[w].status \in CanClockOn

PartJob(W, td) ==
    \E l \in Backed, mv \in LineMoves :
        /\ DOMAIN W.line = {l}
        /\ W.inflow = 0
        /\ line[l].at = mv[2] /\ W.line[l].at = mv[3]
        /\ OneMove(W, td, rowOf[l], mv[1], qtyOf[l])

CountJob(W, td) ==
    \E r \in Rows, type \in {"receive", "adjust"} :
        /\ DOMAIN W.line = {}
        /\ W.inflow \in Int
        /\ OneMove(W, td, r, type, W.inflow)

TransferJob(W, td) ==
    \E r, s \in Rows, q \in Quantities, leg \in Legs :
        /\ r # s
        /\ DOMAIN W.line = {}
        /\ W.inflow = 0
        /\ \/ td = <<Move(r, leg[1], q), Move(s, leg[2], q)>> /\ DOMAIN W.level = {}
           \/ td = <<Move(s, leg[2], q)>> /\ DOMAIN W.level = {r} /\ Moved(W, r, leg[1], q)
           \/ /\ td = <<>> /\ DOMAIN W.level = {r, s}
              /\ Moved(W, r, leg[1], q) /\ Moved(W, s, leg[2], q)

StockJob(W, td) == NoStock(W, td) \/ PartJob(W, td) \/ CountJob(W, td) \/ TransferJob(W, td)

Job(W, td) ==
    /\ W = [order |-> W.order, line |-> W.line, entry |-> W.entry, level |-> W.level,
            inflow |-> W.inflow]
    /\ OrderJob(W) /\ LineJob(W) /\ EntryJob(W) /\ StockJob(W, td)

-----------------------------------------------------------------------------
Types ==
    /\ order \in [Orders -> OrderRow]
    /\ line \in [Lines -> LineRow]
    /\ entry \in [Mechanics -> {{}} \cup {{w} : w \in Orders}]
    /\ level \in [Rows -> StockState]
    /\ inflow \in Int
    /\ work = [t \in Tx |-> work[t]]
    /\ todo = [t \in Tx |-> todo[t]]

(* A row is locked by one transaction.                                       *)
Apart(W, V) ==
    /\ DOMAIN W.order \cap DOMAIN V.order = {}
    /\ DOMAIN W.entry \cap DOMAIN V.entry = {}
    /\ DOMAIN W.level \cap DOMAIN V.level = {}
Locks == \A t, u \in Tx : t # u => Apart(work[t], work[u])

Jobs == \A t \in Tx : Job(work[t], todo[t])

Billed == \A w \in Orders : order[w].billed # {} =>
              order[w].billed = billable(w) /\ order[w].status \in {"invoiced", "closed"}

IInv == Types /\ Locks /\ Jobs /\ Billed /\ ReservedMatchesLines /\ Conservation /\ ReadyIsFinished
-----------------------------------------------------------------------------
LEMMA NoWorkJob ==
    /\ Job(NoWork, <<>>)
    /\ \A W : Apart(NoWork, W) /\ Apart(W, NoWork)
<1>1. /\ NoWork = [order |-> Nothing, line |-> Nothing, entry |-> Nothing, level |-> Nothing,
                   inflow |-> 0]
      /\ DOMAIN Nothing = {}
  BY DEF NoWork, Nothing
<1> HIDE DEF Nothing
<1>2. OrderJob(NoWork) /\ LineJob(NoWork) /\ EntryJob(NoWork) /\ StockJob(NoWork, <<>>)
  BY <1>1 DEF OrderJob, LineJob, EntryJob, StockJob, NoStock
<1> QED
  BY <1>1, <1>2 DEF Job, Apart

LEMMA InitIInv == Init => IInv
<1> SUFFICES ASSUME Init PROVE IInv
  OBVIOUS
<1>1. Types
  BY StockAssumption DEF Init, Types, OrderRow, LineRow, EDITABLE, StockState
<1>2. \A t \in Tx : work[t] = NoWork /\ todo[t] = <<>>
  BY DEF Init
<1>3. Locks
  BY <1>2, NoWorkJob DEF Locks
<1>4. Jobs
  BY <1>2, NoWorkJob DEF Jobs
<1>5. Billed
  BY DEF Init, Billed
<1>6. ReadyIsFinished
  BY DEF Init, ReadyIsFinished, clockedOn
<1>7. ReservedMatchesLines
  <2> SUFFICES ASSUME NEW r \in Rows
               PROVE  /\ level[r].reserved = promised(r)
                      /\ level[r].reserved <= level[r].onHand
    BY DEF ReservedMatchesLines
  <2>1. level[r].reserved = 0 /\ level[r].onHand = Stock[r] /\ Stock[r] \in Nat
    BY StockAssumption DEF Init
  <2>2. [l \in Backed |-> IF rowOf[l] = r THEN inState("present", l) ELSE 0] = [l \in Backed |-> 0]
    BY StockAssumption DEF Init, inState
  <2> QED
    BY <2>1, <2>2, TotalZero DEF promised
<1>8. Conservation
  <2>1. [r \in Rows |-> level[r].onHand] = Stock
    BY StockAssumption DEF Init
  <2>2. [l \in Backed |-> inState("issued", l)] = [l \in Backed |-> 0]
    BY StockAssumption DEF Init, inState
  <2>3. issued = 0
    BY <2>2, TotalZero DEF issued
  <2>4. Total(Stock) \in Nat
    BY StockAssumption, TotalType
  <2> QED
    BY <2>1, <2>3, <2>4 DEF Conservation, onHand, Init
<1> QED
  BY <1>1, <1>3, <1>4, <1>5, <1>6, <1>7, <1>8 DEF IInv

-----------------------------------------------------------------------------
(* The committed rows stay: what is said of them alone is kept.              *)
LEMMA RowsUnchanged ==
    ASSUME IInv, UNCHANGED rows
    PROVE  /\ Billed' /\ ReservedMatchesLines' /\ Conservation' /\ ReadyIsFinished'
           /\ order' \in [Orders -> OrderRow] /\ line' \in [Lines -> LineRow]
           /\ entry' \in [Mechanics -> {{}} \cup {{w} : w \in Orders}]
           /\ level' \in [Rows -> StockState]
           /\ inflow' \in Int
           /\ \A W, td : Job(W, td) => Job(W, td)'
<1>1. UNCHANGED <<order, line, entry, level, inflow>>
  BY DEF rows
<1>2. Billed' /\ ReadyIsFinished'
  BY <1>1 DEF IInv, Billed, ReadyIsFinished, billable, linesOf, clockedOn
<1>3. ReservedMatchesLines' /\ Conservation'
  BY <1>1 DEF IInv, ReservedMatchesLines, Conservation, promised, onHand, issued, inState
<1>4. ASSUME NEW W, NEW td, Job(W, td) PROVE Job(W, td)'
  BY <1>1, <1>4 DEF Job, OrderJob, LineJob, EntryJob, StockJob, NoStock, PartJob, CountJob,
                    TransferJob, OneMove, Moved, billable, linesOf, clockedOn
<1> QED
  BY <1>1, <1>2, <1>3, <1>4 DEF IInv, Types

(* A transaction has work W to do: it has begun, or gone on.                 *)
LEMMA WorkPreserves ==
    ASSUME IInv, UNCHANGED rows, NEW t \in Tx, NEW W, NEW td,
           work' = [work EXCEPT ![t] = W], todo' = [todo EXCEPT ![t] = td],
           Job(W, td),
           \A u \in Tx \ {t} : Apart(W, work[u]) /\ Apart(work[u], W)
    PROVE  IInv'
<1>1. /\ work'[t] = W /\ todo'[t] = td
      /\ \A u \in Tx \ {t} : work'[u] = work[u] /\ todo'[u] = todo[u]
  BY DEF IInv, Types
<1>2. Jobs'
  <2> SUFFICES ASSUME NEW u \in Tx PROVE Job(work[u], todo[u])'
    BY DEF Jobs
  <2>1. CASE u = t
    BY <2>1, <1>1, RowsUnchanged
  <2>2. CASE u # t
    BY <2>2, <1>1, RowsUnchanged DEF IInv, Jobs
  <2> QED
    BY <2>1, <2>2
<1>3. Locks'
  <2> SUFFICES ASSUME NEW u \in Tx, NEW v \in Tx, u # v PROVE Apart(work'[u], work'[v])
    BY DEF Locks, Apart
  <2>1. CASE u = t
    BY <2>1, <1>1
  <2>2. CASE v = t
    BY <2>2, <1>1
  <2>3. CASE u # t /\ v # t
    BY <2>3, <1>1 DEF IInv, Locks
  <2> QED
    BY <2>1, <2>2, <2>3
<1>4. work' = [u \in Tx |-> work'[u]] /\ todo' = [u \in Tx |-> todo'[u]]
  BY DEF IInv, Types
<1> QED
  BY <1>2, <1>3, <1>4, RowsUnchanged DEF IInv, Types

LEMMA BeginPreserves ==
    ASSUME IInv, NEW t \in Tx, NEW W, NEW td, Begin(t, W, td), Job(W, td),
           \A u \in Tx \ {t} : Apart(W, work[u]) /\ Apart(work[u], W)
    PROVE  IInv'
<1>1. UNCHANGED rows /\ work' = [work EXCEPT ![t] = W] /\ todo' = [todo EXCEPT ![t] = td]
  BY DEF Begin
<1> QED
  BY <1>1, WorkPreserves

(* A transaction that ends without a commit. *)
LEMMA EndPreserves == ASSUME IInv, NEW t \in Tx, End(t), UNCHANGED rows PROVE IInv'
BY WorkPreserves, NoWorkJob DEF End

-----------------------------------------------------------------------------
(* The writes of a request on an order and at most one of its lines.         *)
LEMMA OnOrder ==
    ASSUME NEW t \in Tx, NEW w, OrderFree(t, w), NEW W,
           DOMAIN W.order = {w}, DOMAIN W.entry = {}, DOMAIN W.level = {}
    PROVE  \A u \in Tx \ {t} : Apart(W, work[u]) /\ Apart(work[u], W)
BY DEF OrderFree, Apart

(* The writes of a request on a line with its order locked.                  *)
LEMMA LinePreserves ==
    ASSUME IInv, NEW t \in Tx, NEW l \in Lines, NEW r \in LineRow, NEW td,
           OrderFree(t, orderOf[l]), order[orderOf[l]].status \in EDITABLE,
           Begin(t, OnLine(l, r), td),
           \/ l \notin Backed /\ td = <<>>
           \/ l \in Backed /\ \E mv \in LineMoves :
                 line[l].at = mv[2] /\ r.at = mv[3] /\ td = <<Move(rowOf[l], mv[1], qtyOf[l])>>
    PROVE  IInv'
<1> DEFINE w == orderOf[l]
           W == OnLine(l, r)
<1>1. W = [order |-> Locked(w), line |-> one(l, r), entry |-> Nothing, level |-> Nothing,
           inflow |-> 0]
  BY DEF OnLine
<1>2. /\ DOMAIN Locked(w) = {w} /\ Locked(w)[w] = order[w]
      /\ DOMAIN one(l, r) = {l} /\ one(l, r)[l] = r
      /\ DOMAIN Nothing = {}
  BY DEF Locked, one, Nothing
<1>3. /\ W = [order |-> W.order, line |-> W.line, entry |-> W.entry, level |-> W.level,
              inflow |-> W.inflow]
      /\ DOMAIN W.order = {w} /\ W.order[w] = order[w]
      /\ DOMAIN W.line = {l} /\ W.line[l] = r
      /\ DOMAIN W.entry = {} /\ DOMAIN W.level = {} /\ W.inflow = 0
  BY <1>1, <1>2
<1> HIDE DEF W
<1>4. w \in Orders
  BY StockAssumption
<1>5. OrderJob(W)
  BY <1>3, <1>4 DEF OrderJob, IInv, Types, Billed, ReadyIsFinished
<1>6. LineJob(W) /\ EntryJob(W)
  BY <1>3 DEF LineJob, EntryJob
<1>7. StockJob(W, td)
  <2>1. CASE l \notin Backed /\ td = <<>>
    BY <2>1, <1>3 DEF StockJob, NoStock
  <2>2. CASE l \in Backed /\ \E mv \in LineMoves :
                line[l].at = mv[2] /\ r.at = mv[3] /\ td = <<Move(rowOf[l], mv[1], qtyOf[l])>>
    <3>1. PartJob(W, td)
      BY <2>2, <1>3 DEF PartJob, OneMove
    <3> QED
      BY <3>1 DEF StockJob
  <2> QED
    BY <2>1, <2>2
<1>8. Job(W, td)
  BY <1>3, <1>5, <1>6, <1>7 DEF Job
<1>9. \A u \in Tx \ {t} : Apart(W, work[u]) /\ Apart(work[u], W)
  BY <1>3, OnOrder
<1>10. Begin(t, W, td)
  BY DEF W
<1> QED
  BY <1>8, <1>9, <1>10, BeginPreserves

LEMMA LineRequests ==
    ASSUME IInv, NEW t \in Tx, NEW l \in Lines,
           AddLine(t, l) \/ IssueLine(t, l) \/ UpdateLine(t, l) \/ RemoveLine(t, l)
    PROVE  IInv'
<1>0. line[l] \in LineRow
  BY DEF IInv, Types
<1>1. CASE AddLine(t, l)
  <2>1. PICK n \in {0, 1} :
          Begin(t, OnLine(l, [at |-> "present", net |-> n]),
                IF l \in Backed THEN <<Move(rowOf[l], "reserve", qtyOf[l])>> ELSE <<>>)
    BY <1>1 DEF AddLine
  <2>2. /\ OrderFree(t, orderOf[l]) /\ order[orderOf[l]].status \in EDITABLE
        /\ line[l].at = "absent"
    BY <1>1 DEF AddLine
  <2>3. [at |-> "present", net |-> n] \in LineRow
    BY DEF LineRow
  <2>4. CASE l \in Backed
    BY <2>1, <2>2, <2>3, <2>4, LinePreserves DEF LineMoves
  <2>5. CASE l \notin Backed
    BY <2>1, <2>2, <2>3, <2>5, LinePreserves
  <2> QED
    BY <2>4, <2>5
<1>2. CASE IssueLine(t, l)
  <2>1. /\ OrderFree(t, orderOf[l]) /\ order[orderOf[l]].status \in EDITABLE
        /\ line[l].at = "present" /\ l \in Backed
        /\ Begin(t, OnLine(l, [line[l] EXCEPT !.at = "issued"]),
                 <<Move(rowOf[l], "issue", qtyOf[l])>>)
    BY <1>2 DEF IssueLine
  <2>2. /\ [line[l] EXCEPT !.at = "issued"] \in LineRow
        /\ [line[l] EXCEPT !.at = "issued"].at = "issued"
    BY <1>0 DEF LineRow
  <2> QED
    BY <2>1, <2>2, LinePreserves DEF LineMoves
<1>3. CASE UpdateLine(t, l)
  <2>1. PICK n \in {0, 1} :
          Begin(t, OnLine(l, [at |-> "present", net |-> n]), <<>>)
    BY <1>3 DEF UpdateLine
  <2>2. OrderFree(t, orderOf[l]) /\ order[orderOf[l]].status \in EDITABLE /\ l \notin Backed
    BY <1>3 DEF UpdateLine
  <2>3. [at |-> "present", net |-> n] \in LineRow
    BY DEF LineRow
  <2> QED
    BY <2>1, <2>2, <2>3, LinePreserves
<1>4. CASE RemoveLine(t, l)
  <2>1. /\ Begin(t, OnLine(l, [at |-> "absent", net |-> 0]),
                 IF l \in Backed THEN <<Move(rowOf[l], "release", qtyOf[l])>> ELSE <<>>)
        /\ OrderFree(t, orderOf[l]) /\ order[orderOf[l]].status \in EDITABLE
        /\ line[l].at = "present"
    BY <1>4 DEF RemoveLine
  <2>2. [at |-> "absent", net |-> 0] \in LineRow
    BY DEF LineRow
  <2>3. CASE l \in Backed
    BY <2>1, <2>2, <2>3, LinePreserves DEF LineMoves
  <2>4. CASE l \notin Backed
    BY <2>1, <2>2, <2>4, LinePreserves
  <2> QED
    BY <2>3, <2>4
<1> QED
  BY <1>1, <1>2, <1>3, <1>4

(* The writes of a request on an order's header.                             *)
LEMMA HeaderPreserves ==
    ASSUME IInv, NEW t \in Tx, NEW w \in Orders, NEW o \in OrderRow, NEW td,
           OrderFree(t, w),
           Begin(t, [NoWork EXCEPT !.order = one(w, o)], td),
           \/ o.billed = order[w].billed /\ (o.billed # {} => o.status \in {"invoiced", "closed"})
           \/ o.billed = billable(w) /\ o.status = "invoiced",
           o.status = "ready" => clockedOn(w) = {},
           \/ td = <<>>
           \/ \E m \in Mechanics : td = <<Punch(m, w)>> /\ o.status \in CanClockOn
    PROVE  IInv'
<1> DEFINE W == [NoWork EXCEPT !.order = one(w, o)]
<1>1. W = [order |-> one(w, o), line |-> Nothing, entry |-> Nothing, level |-> Nothing,
           inflow |-> 0]
  BY DEF NoWork
<1>2. DOMAIN one(w, o) = {w} /\ one(w, o)[w] = o /\ DOMAIN Nothing = {}
  BY DEF one, Nothing
<1>3. /\ W = [order |-> W.order, line |-> W.line, entry |-> W.entry, level |-> W.level,
              inflow |-> W.inflow]
      /\ DOMAIN W.order = {w} /\ W.order[w] = o
      /\ DOMAIN W.line = {} /\ DOMAIN W.entry = {} /\ DOMAIN W.level = {} /\ W.inflow = 0
  BY <1>1, <1>2
<1> HIDE DEF W
<1>4. OrderJob(W)
  BY <1>3 DEF OrderJob
<1>5. LineJob(W) /\ EntryJob(W)
  BY <1>3 DEF LineJob, EntryJob
<1>6. NoStock(W, td)
  BY <1>3 DEF NoStock
<1>7. Job(W, td)
  BY <1>3, <1>4, <1>5, <1>6 DEF Job, StockJob
<1>8. \A u \in Tx \ {t} : Apart(W, work[u]) /\ Apart(work[u], W)
  BY <1>3, OnOrder
<1>9. Begin(t, W, td)
  BY DEF W
<1> QED
  BY <1>7, <1>8, <1>9, BeginPreserves

LEMMA HeaderRequests ==
    ASSUME IInv, NEW t \in Tx, NEW w \in Orders,
           \/ \E to \in Statuses : Transition(t, w, to)
           \/ \E m \in Mechanics : ClockOn(t, w, m)
           \/ IssueInvoice(t, w)
    PROVE  IInv'
<1>0. /\ order[w] \in OrderRow
      /\ order[w].billed # {} => order[w].status \in {"invoiced", "closed"}
  BY DEF IInv, Types, Billed
<1>1. ASSUME NEW to \in Statuses, Transition(t, w, to) PROVE IInv'
  <2> DEFINE o == [order[w] EXCEPT !.status = to]
  <2>1. o \in OrderRow /\ o.billed = order[w].billed /\ o.status = to
    BY <1>0 DEF OrderRow
  <2>2. /\ OrderFree(t, w)
        /\ Begin(t, [NoWork EXCEPT !.order = one(w, o)], <<>>)
        /\ to \in TRANSITIONS[order[w].status]
        /\ to = "ready" => clockedOn(w) = {}
    BY <1>1 DEF Transition, assertTransition
  <2>3. order[w].status \in {"invoiced", "closed"} => to = "closed"
    BY <2>2 DEF TRANSITIONS
  <2> HIDE DEF o
  <2> QED
    BY <1>0, <2>1, <2>2, <2>3, HeaderPreserves
<1>2. ASSUME NEW m \in Mechanics, ClockOn(t, w, m) PROVE IInv'
  <2> DEFINE o == advanced(w)
  <2>1. /\ OrderFree(t, w) /\ order[w].status \in CanClockOn
        /\ Begin(t, [NoWork EXCEPT !.order = one(w, o)], <<Punch(m, w)>>)
    BY <1>2 DEF ClockOn
  <2>2. o \in OrderRow /\ o.billed = order[w].billed /\ o.status \in CanClockOn
    BY <1>0, <2>1 DEF advanced, OrderRow, CanClockOn, Statuses, TRANSITIONS
  <2>3. o.billed = {} /\ o.status # "ready"
    BY <1>0, <2>1, <2>2 DEF CanClockOn
  <2> HIDE DEF o
  <2> QED
    BY <2>1, <2>2, <2>3, HeaderPreserves
<1>3. CASE IssueInvoice(t, w)
  <2> DEFINE o == [status |-> "invoiced", billed |-> billable(w)]
  <2>1. OrderFree(t, w) /\ Begin(t, [NoWork EXCEPT !.order = one(w, o)], <<>>)
    BY <1>3 DEF IssueInvoice
  <2>2. o \in OrderRow /\ o.billed = billable(w) /\ o.status = "invoiced"
    BY DEF OrderRow, billable, linesOf, Statuses, TRANSITIONS
  <2> HIDE DEF o
  <2> QED
    BY <2>1, <2>2, HeaderPreserves
<1> QED
  BY <1>1, <1>2, <1>3

(* clockOff ends the one entry there is.                                     *)
LEMMA ClockOffPreserves ==
    ASSUME IInv, NEW t \in Tx, NEW w \in Orders, NEW m \in Mechanics, ClockOff(t, w, m)
    PROVE  IInv'
<1> DEFINE W == [NoWork EXCEPT !.entry = one(m, entry[m] \ {w})]
<1>1. W = [order |-> Nothing, line |-> Nothing, entry |-> one(m, entry[m] \ {w}),
           level |-> Nothing, inflow |-> 0]
  BY DEF NoWork
<1>2. entry[m] \ {w} = {}
  <2>1. entry[m] \in {{}} \cup {{v} : v \in Orders}
    BY DEF IInv, Types
  <2> QED
    BY <2>1 DEF ClockOff
<1>3. /\ DOMAIN one(m, entry[m] \ {w}) = {m} /\ one(m, entry[m] \ {w})[m] = {}
      /\ DOMAIN Nothing = {}
  BY <1>2 DEF one, Nothing
<1>4. /\ W = [order |-> W.order, line |-> W.line, entry |-> W.entry, level |-> W.level,
              inflow |-> W.inflow]
      /\ DOMAIN W.entry = {m} /\ W.entry[m] = {}
      /\ DOMAIN W.line = {} /\ DOMAIN W.order = {} /\ DOMAIN W.level = {} /\ W.inflow = 0
  BY <1>1, <1>3
<1>5. Begin(t, W, <<>>) /\ EntryFree(t, m)
  BY DEF ClockOff
<1> HIDE DEF W
<1>6. Job(W, <<>>)
  BY <1>4 DEF Job, OrderJob, LineJob, EntryJob, StockJob, NoStock
<1>7. \A u \in Tx \ {t} : Apart(W, work[u]) /\ Apart(work[u], W)
  BY <1>4, <1>5 DEF Apart, EntryFree
<1> QED
  BY <1>5, <1>6, <1>7, BeginPreserves

(* A request on stock alone begins with nothing locked.                      *)
LEMMA StockBegins ==
    ASSUME IInv, NEW t \in Tx, NEW d, NEW td, Begin(t, [NoWork EXCEPT !.inflow = d], td),
           \A W : DOMAIN W.line = {} /\ DOMAIN W.level = {} /\ W.inflow = d => StockJob(W, td)
    PROVE  IInv'
<1> DEFINE W == [NoWork EXCEPT !.inflow = d]
<1>1. W = [order |-> Nothing, line |-> Nothing, entry |-> Nothing, level |-> Nothing, inflow |-> d]
  BY DEF NoWork
<1>2. /\ W = [order |-> W.order, line |-> W.line, entry |-> W.entry, level |-> W.level,
              inflow |-> W.inflow]
      /\ DOMAIN W.order = {} /\ DOMAIN W.line = {} /\ DOMAIN W.entry = {} /\ DOMAIN W.level = {}
      /\ W.inflow = d
  BY <1>1 DEF Nothing
<1>3. Begin(t, W, td)
  OBVIOUS
<1> HIDE DEF W
<1>4. Job(W, td)
  BY <1>2 DEF Job, OrderJob, LineJob, EntryJob
<1>5. \A u \in Tx \ {t} : Apart(W, work[u]) /\ Apart(work[u], W)
  BY <1>2 DEF Apart
<1> QED
  BY <1>3, <1>4, <1>5, BeginPreserves

LEMMA StockRequests ==
    ASSUME IInv, NEW t \in Tx, NEW r \in Rows, NEW q \in Quantities,
           Receive(t, r, q) \/ Adjust(t, r, q) \/ \E s \in Rows : Transfer(t, r, s, q)
    PROVE  IInv'
<1>0. q \in Int /\ -q \in Int
  BY StockAssumption
<1>1. CASE Receive(t, r, q)
  <2>1. \A W : DOMAIN W.line = {} /\ DOMAIN W.level = {} /\ W.inflow = q
               => CountJob(W, <<Move(r, "receive", q)>>)
    BY <1>0 DEF CountJob, OneMove
  <2> QED
    BY <2>1, <1>1, StockBegins DEF Receive, StockJob
<1>2. CASE Adjust(t, r, q)
  <2>1. PICK d \in {q, -q} : Begin(t, [NoWork EXCEPT !.inflow = d], <<Move(r, "adjust", d)>>)
    BY <1>2 DEF Adjust
  <2>2. \A W : DOMAIN W.line = {} /\ DOMAIN W.level = {} /\ W.inflow = d
               => CountJob(W, <<Move(r, "adjust", d)>>)
    BY <1>0 DEF CountJob, OneMove
  <2> QED
    BY <2>1, <2>2, StockBegins DEF StockJob
<1>3. ASSUME NEW s \in Rows, Transfer(t, r, s, q) PROVE IInv'
  <2>1. NoWork = [NoWork EXCEPT !.inflow = 0]
    BY DEF NoWork
  <2>2. r # s
    BY <1>3 DEF Transfer
  <2>3. CASE r < s
    <3> DEFINE td == <<Move(r, "transfer_out", q), Move(s, "transfer_in", q)>>
    <3>1. Begin(t, [NoWork EXCEPT !.inflow = 0], td)
      BY <1>3, <2>1, <2>3 DEF Transfer
    <3>2. \A W : DOMAIN W.line = {} /\ DOMAIN W.level = {} /\ W.inflow = 0 => TransferJob(W, td)
      BY <2>2 DEF TransferJob, Legs
    <3> HIDE DEF td
    <3> QED
      BY <3>1, <3>2, StockBegins DEF StockJob
  <2>4. CASE ~(r < s)
    <3> DEFINE td == <<Move(s, "transfer_in", q), Move(r, "transfer_out", q)>>
    <3>1. Begin(t, [NoWork EXCEPT !.inflow = 0], td)
      BY <1>3, <2>1, <2>4 DEF Transfer
    <3>2. \A W : DOMAIN W.line = {} /\ DOMAIN W.level = {} /\ W.inflow = 0 => TransferJob(W, td)
      BY <2>2 DEF TransferJob, Legs
    <3> HIDE DEF td
    <3> QED
      BY <3>1, <3>2, StockBegins DEF StockJob
  <2> QED
    BY <2>3, <2>4
<1> QED
  BY <1>1, <1>2, <1>3

-----------------------------------------------------------------------------
(* A movement that is allowed leads to a valid stock row.                    *)
LEMMA MovementType ==
    ASSUME NEW s \in StockState, NEW q \in Int,
           NEW type \in {"receive", "adjust", "transfer_in", "transfer_out", "reserve", "release", "issue"},
           allowed(applyMovement(s, type, q))
    PROVE  applyMovement(s, type, q) \in StockState
BY DEF StockState, applyMovement, allowed

(* Apart from stock, the writes of a transaction are what they were.         *)
LEMMA JobParts ==
    ASSUME NEW V, NEW W, V.order = W.order, V.line = W.line, V.entry = W.entry,
           OrderJob(W), LineJob(W), EntryJob(W)
    PROVE  OrderJob(V) /\ LineJob(V) /\ EntryJob(V)
BY DEF OrderJob, LineJob, EntryJob

LEMMA MoveStockPreserves == ASSUME IInv, NEW t \in Tx, MoveStock(t) PROVE IInv'
<1> DEFINE W == work[t]
           m == Head(todo[t])
           next == applyMovement(over(W.level, level)[m.row], m.type, m.qty)
           V == [W EXCEPT !.level = over(one(m.row, next), W.level)]
           td == Tail(todo[t])
<1>0. /\ todo[t] # <<>> /\ "row" \in DOMAIN m /\ RowFree(t, m.row) /\ UNCHANGED rows
      /\ IF allowed(next)
         THEN /\ work' = [work EXCEPT ![t] = V]
              /\ todo' = [todo EXCEPT ![t] = td]
         ELSE End(t)
  BY DEF MoveStock
<1>1. CASE ~allowed(next)
  BY <1>0, <1>1, EndPreserves
<1>2. CASE allowed(next)
  <2>1. Job(W, todo[t])
    BY DEF IInv, Jobs
  <2>2. /\ V.order = W.order /\ V.line = W.line /\ V.entry = W.entry /\ V.inflow = W.inflow
        /\ V.level = over(one(m.row, next), W.level)
        /\ V = [order |-> V.order, line |-> V.line, entry |-> V.entry, level |-> V.level,
                inflow |-> V.inflow]
    BY <2>1 DEF Job
  <2>3. work' = [work EXCEPT ![t] = V] /\ todo' = [todo EXCEPT ![t] = td]
    BY <1>0, <1>2
  <2>4. OrderJob(V) /\ LineJob(V) /\ EntryJob(V)
    BY <2>1, <2>2, JobParts DEF Job
  <2> HIDE DEF V
  <2> SUFFICES StockJob(V, td) /\ DOMAIN V.level \subseteq DOMAIN W.level \cup {m.row}
    <3> SUFFICES ASSUME StockJob(V, td), DOMAIN V.level \subseteq DOMAIN W.level \cup {m.row}
                 PROVE  IInv'
      OBVIOUS
    <3>1. Job(V, td)
      BY <2>2, <2>4 DEF Job
    <3>2. \A u \in Tx \ {t} : Apart(V, work[u]) /\ Apart(work[u], V)
      BY <1>0, <2>2 DEF IInv, Locks, Apart, RowFree
    <3> QED
      BY <1>0, <2>3, <3>1, <3>2, WorkPreserves
  <2>5. ASSUME NEW r \in Rows, NEW q \in Int,
               NEW type \in {"receive", "adjust", "transfer_in", "transfer_out", "reserve", "release", "issue"},
               m = Move(r, type, q), r \notin DOMAIN W.level
        PROVE  /\ DOMAIN V.level = DOMAIN W.level \cup {r}
               /\ Moved(V, r, type, q)
               /\ \A s \in DOMAIN W.level : V.level[s] = W.level[s]
               /\ m.row = r
    <3>1. m.row = r /\ m.type = type /\ m.qty = q
      BY <2>5 DEF Move
    <3>2. next = applyMovement(over(W.level, level)[r], type, q)
      BY <3>1
    <3> HIDE DEF next, m, W
    <3>3. level[r] \in StockState /\ r \in DOMAIN level
      BY DEF IInv, Types
    <3>4. over(W.level, level)[r] = level[r]
      BY <3>3, <2>5 DEF over
    <3>5. next = applyMovement(level[r], type, q) /\ next \in StockState
      BY <3>2, <3>3, <3>4, <1>2, MovementType
    <3>6. V.level = over(one(r, next), W.level)
      BY <2>2, <3>1
    <3>7. DOMAIN one(r, next) = {r} /\ one(r, next)[r] = next
      BY DEF one
    <3>8. /\ DOMAIN V.level = DOMAIN W.level \cup {r}
          /\ V.level[r] = next
          /\ \A s \in DOMAIN W.level : V.level[s] = W.level[s]
      BY <2>5, <3>6, <3>7 DEF over
    <3> QED
      BY <3>1, <3>5, <3>8 DEF Moved
  <2>6. ASSUME NEW r \in Rows, NEW q \in Int,
               NEW type \in {"receive", "adjust", "transfer_in", "transfer_out", "reserve", "release", "issue"},
               OneMove(W, todo[t], r, type, q)
        PROVE  OneMove(V, td, r, type, q) /\ DOMAIN V.level \subseteq DOMAIN W.level \cup {m.row}
    <3>1. todo[t] = <<Move(r, type, q)>> /\ DOMAIN W.level = {}
      BY <2>6, <1>0 DEF OneMove
    <3>2. m = Move(r, type, q) /\ td = <<>>
      BY <3>1
    <3> QED
      BY <3>1, <3>2, <2>5 DEF OneMove
  <2>7. CASE NoStock(W, todo[t])
    <3>1. PICK p \in Mechanics, w \in DOMAIN W.order : todo[t] = <<Punch(p, w)>>
      BY <2>7, <1>0 DEF NoStock
    <3>2. m = Punch(p, w)
      BY <3>1
    <3> QED
      BY <3>2, <1>0 DEF Punch
  <2>8. CASE PartJob(W, todo[t])
    <3>1. PICK l \in Backed, mv \in LineMoves :
            /\ DOMAIN W.line = {l}
            /\ W.inflow = 0
            /\ line[l].at = mv[2] /\ W.line[l].at = mv[3]
            /\ OneMove(W, todo[t], rowOf[l], mv[1], qtyOf[l])
      BY <2>8 DEF PartJob
    <3>2. rowOf[l] \in Rows /\ qtyOf[l] \in Int /\ mv[1] \in {"reserve", "issue", "release"}
      BY StockAssumption DEF LineMoves
    <3>3. OneMove(V, td, rowOf[l], mv[1], qtyOf[l]) /\ DOMAIN V.level \subseteq DOMAIN W.level \cup {m.row}
      BY <3>1, <3>2, <2>6
    <3>4. PartJob(V, td)
      BY <3>1, <3>3, <2>2 DEF PartJob
    <3> QED
      BY <3>3, <3>4 DEF StockJob
  <2>9. CASE CountJob(W, todo[t])
    <3>1. PICK r \in Rows, type \in {"receive", "adjust"} :
            DOMAIN W.line = {} /\ W.inflow \in Int /\ OneMove(W, todo[t], r, type, W.inflow)
      BY <2>9 DEF CountJob
    <3>2. OneMove(V, td, r, type, W.inflow) /\ DOMAIN V.level \subseteq DOMAIN W.level \cup {m.row}
      BY <3>1, <2>6
    <3>3. CountJob(V, td)
      BY <3>1, <3>2, <2>2 DEF CountJob
    <3> QED
      BY <3>2, <3>3 DEF StockJob
  <2>10. CASE TransferJob(W, todo[t])
    <3>1. PICK r \in Rows, s \in Rows, q \in Quantities, leg \in Legs :
            /\ r # s /\ DOMAIN W.line = {} /\ W.inflow = 0
            /\ \/ todo[t] = <<Move(r, leg[1], q), Move(s, leg[2], q)>> /\ DOMAIN W.level = {}
               \/ todo[t] = <<Move(s, leg[2], q)>> /\ DOMAIN W.level = {r} /\ Moved(W, r, leg[1], q)
      BY <2>10, <1>0 DEF TransferJob
    <3>2. /\ q \in Int
          /\ leg[1] \in {"transfer_in", "transfer_out"} /\ leg[2] \in {"transfer_in", "transfer_out"}
      BY StockAssumption DEF Legs
    <3>3. CASE todo[t] = <<Move(r, leg[1], q), Move(s, leg[2], q)>> /\ DOMAIN W.level = {}
      <4>1. m = Move(r, leg[1], q) /\ td = <<Move(s, leg[2], q)>>
        BY <3>3
      <4>2. DOMAIN V.level = {r} /\ Moved(V, r, leg[1], q) /\ m.row = r
        BY <4>1, <3>2, <3>3, <2>5
      <4>3. TransferJob(V, td)
        BY <4>1, <4>2, <3>1, <2>2 DEF TransferJob
      <4> QED
        BY <4>2, <4>3 DEF StockJob
    <3>4. CASE todo[t] = <<Move(s, leg[2], q)>> /\ DOMAIN W.level = {r} /\ Moved(W, r, leg[1], q)
      <4>1. m = Move(s, leg[2], q) /\ td = <<>>
        BY <3>4
      <4>2. /\ DOMAIN V.level = {r, s} /\ Moved(V, s, leg[2], q) /\ m.row = s
            /\ V.level[r] = W.level[r]
        BY <4>1, <3>1, <3>2, <3>4, <2>5
      <4>3. Moved(V, r, leg[1], q)
        BY <4>2, <3>4 DEF Moved
      <4>4. TransferJob(V, td)
        BY <4>1, <4>2, <4>3, <3>1, <2>2 DEF TransferJob
      <4> QED
        BY <4>2, <4>4, <3>4 DEF StockJob
    <3> QED
      BY <3>1, <3>3, <3>4
  <2> QED
    BY <2>1, <2>7, <2>8, <2>9, <2>10 DEF Job, StockJob
<1> QED
  BY <1>1, <1>2

(* The INSERT of an entry, or its failure.                                   *)
LEMMA InsertEntryPreserves == ASSUME IInv, NEW t \in Tx, InsertEntry(t) PROVE IInv'
<1> DEFINE W == work[t]
           p == Head(todo[t])
           V == [W EXCEPT !.entry = one(p.mechanic, {p.order})]
           td == Tail(todo[t])
<1>0. /\ todo[t] # <<>> /\ "mechanic" \in DOMAIN p /\ EntryFree(t, p.mechanic) /\ UNCHANGED rows
      /\ \/ work' = [work EXCEPT ![t] = V] /\ todo' = [todo EXCEPT ![t] = td]
         \/ End(t)
  BY DEF InsertEntry
<1>1. CASE End(t)
  BY <1>0, <1>1, EndPreserves
<1>2. CASE work' = [work EXCEPT ![t] = V] /\ todo' = [todo EXCEPT ![t] = td]
  <2>1. Job(W, todo[t])
    BY DEF IInv, Jobs
  <2>2. /\ V.order = W.order /\ V.line = W.line /\ V.level = W.level /\ V.inflow = W.inflow
        /\ V.entry = one(p.mechanic, {p.order})
        /\ V = [order |-> V.order, line |-> V.line, entry |-> V.entry, level |-> V.level,
                inflow |-> V.inflow]
    BY <2>1 DEF Job
  <2> HIDE DEF V
  <2>3. NoStock(W, todo[t])
    <3>1. \A r, type, q : p # Move(r, type, q)
      BY <1>0 DEF Move
    <3>2. ASSUME NEW r, NEW type, NEW q, OneMove(W, todo[t], r, type, q) PROVE FALSE
      BY <3>1, <3>2, <1>0 DEF OneMove
    <3>3. ~PartJob(W, todo[t]) /\ ~CountJob(W, todo[t])
      BY <3>2 DEF PartJob, CountJob
    <3>4. ~TransferJob(W, todo[t])
      BY <3>1, <1>0 DEF TransferJob
    <3> QED
      BY <2>1, <3>3, <3>4 DEF Job, StockJob
  <2>4. PICK m \in Mechanics, w \in DOMAIN W.order :
          todo[t] = <<Punch(m, w)>> /\ W.order[w].status \in CanClockOn
    BY <2>3, <1>0 DEF NoStock
  <2>5. p.mechanic = m /\ p.order = w /\ td = <<>>
    BY <2>4 DEF Punch
  <2>6. DOMAIN V.entry = {m} /\ V.entry[m] = {w}
    BY <2>2, <2>5 DEF one
  <2>7. OrderJob(V) /\ LineJob(V)
    BY <2>1, <2>2 DEF Job, OrderJob, LineJob
  <2>8. EntryJob(V)
    BY <2>2, <2>4, <2>6 DEF EntryJob
  <2>9. NoStock(V, td)
    BY <2>2, <2>3, <2>5 DEF NoStock
  <2>10. Job(V, td)
    BY <2>2, <2>7, <2>8, <2>9 DEF Job, StockJob
  <2>11. \A u \in Tx \ {t} : Apart(V, work[u]) /\ Apart(work[u], V)
    <3> SUFFICES ASSUME NEW u \in Tx \ {t} PROVE Apart(V, work[u]) /\ Apart(work[u], V)
      OBVIOUS
    <3>1. Apart(W, work[u]) /\ Apart(work[u], W)
      BY DEF IInv, Locks
    <3>2. m \notin DOMAIN work[u].entry
      BY <1>0, <2>5 DEF EntryFree
    <3>3. DOMAIN V.order = DOMAIN W.order /\ DOMAIN V.level = DOMAIN W.level
      BY <2>2
    <3>4. DOMAIN V.entry \cap DOMAIN work[u].entry = {}
      BY <2>6, <3>2
    <3> QED
      BY <3>1, <3>3, <3>4 DEF Apart
  <2> QED
    BY <1>0, <1>2, <2>10, <2>11, WorkPreserves
<1> QED
  BY <1>0, <1>1, <1>2

-----------------------------------------------------------------------------
(* What a total of the lines or of the rows is after a commit.               *)
LEMMA LinesTotal ==
    ASSUME line \in [Lines -> LineRow], line' \in [Lines -> LineRow]
    PROVE  /\ \A r \in Rows : promised(r) \in Nat /\ promised(r)' \in Nat
           /\ issued \in Nat /\ issued' \in Nat
           /\ (\A k \in Backed : line'[k] = line[k])
                 => issued' = issued /\ \A r \in Rows : promised(r)' = promised(r)
           /\ \A l \in Backed : (\A k \in Backed \ {l} : line'[k] = line[k])
                 => /\ issued' = issued + inState("issued", l)' - inState("issued", l)
                    /\ promised(rowOf[l])' = promised(rowOf[l]) + inState("present", l)'
                                                                 - inState("present", l)
                    /\ \A r \in Rows \ {rowOf[l]} : promised(r)' = promised(r)
<1> DEFINE f(r) == [l \in Backed |-> IF rowOf[l] = r THEN inState("present", l) ELSE 0]
           g(r) == [l \in Backed |-> IF rowOf[l] = r THEN inState("present", l)' ELSE 0]
           i == [l \in Backed |-> inState("issued", l)]
           j == [l \in Backed |-> inState("issued", l)']
<1>0. IsFiniteSet(Backed)
  BY StockAssumption
<1>1. /\ \A r \in Rows : f(r) \in [Backed -> Nat] /\ g(r) \in [Backed -> Nat]
      /\ i \in [Backed -> Nat] /\ j \in [Backed -> Nat]
  BY StockAssumption DEF inState
<1>2. /\ \A r \in Rows : promised(r) = Total(f(r)) /\ promised(r)' = Total(g(r))
      /\ issued = Total(i) /\ issued' = Total(j)
  BY DEF promised, issued
<1>3. /\ \A r \in Rows : promised(r) \in Nat /\ promised(r)' \in Nat
      /\ issued \in Nat /\ issued' \in Nat
  <2> HIDE DEF f, g, i, j
  <2> QED
    BY <1>0, <1>1, <1>2, TotalType
<1>4. ASSUME \A k \in Backed : line'[k] = line[k]
      PROVE  issued' = issued /\ \A r \in Rows : promised(r)' = promised(r)
  <2>1. j = i /\ \A r \in Rows : g(r) = f(r)
    BY <1>4 DEF inState
  <2> QED
    BY <2>1, <1>2
<1>5. ASSUME NEW l \in Backed, \A k \in Backed \ {l} : line'[k] = line[k]
      PROVE  /\ issued' = issued + inState("issued", l)' - inState("issued", l)
             /\ promised(rowOf[l])' = promised(rowOf[l]) + inState("present", l)'
                                                          - inState("present", l)
             /\ \A r \in Rows \ {rowOf[l]} : promised(r)' = promised(r)
  <2>0. rowOf[l] \in Rows
    BY StockAssumption
  <2>1. \A k \in Backed \ {l} : j[k] = i[k]
    BY <1>5 DEF inState
  <2>2. Total(j) = Total(i) + j[l] - i[l]
    <3> HIDE DEF i, j
    <3> QED
      BY <2>1, <1>0, <1>1, TotalChange
  <2>3. \A k \in Backed \ {l} : g(rowOf[l])[k] = f(rowOf[l])[k]
    BY <1>5 DEF inState
  <2>4. Total(g(rowOf[l])) = Total(f(rowOf[l])) + g(rowOf[l])[l] - f(rowOf[l])[l]
    <3> HIDE DEF f, g
    <3> QED
      BY <2>0, <2>3, <1>0, <1>1, TotalChange
  <2>5. /\ j[l] = inState("issued", l)' /\ i[l] = inState("issued", l)
        /\ g(rowOf[l])[l] = inState("present", l)' /\ f(rowOf[l])[l] = inState("present", l)
    OBVIOUS
  <2>6. \A r \in Rows \ {rowOf[l]} : g(r) = f(r)
    BY <1>5 DEF inState
  <2> HIDE DEF f, g, i, j
  <2> QED
    BY <2>0, <2>2, <2>4, <2>5, <2>6, <1>2
<1> QED
  BY <1>3, <1>4, <1>5

LEMMA RowsTotal ==
    ASSUME level \in [Rows -> StockState], level' \in [Rows -> StockState]
    PROVE  /\ onHand \in Nat /\ onHand' \in Nat
           /\ (\A k \in Rows : level'[k] = level[k]) => onHand' = onHand
           /\ \A r \in Rows : (\A k \in Rows \ {r} : level'[k] = level[k])
                 => onHand' = onHand + level'[r].onHand - level[r].onHand
           /\ \A r, s \in Rows : r # s /\ (\A k \in Rows \ {r, s} : level'[k] = level[k])
                 => onHand' = onHand + (level'[r].onHand - level[r].onHand)
                                     + (level'[s].onHand - level[s].onHand)
<1> DEFINE f == [r \in Rows |-> level[r].onHand]
           g == [r \in Rows |-> level'[r].onHand]
<1>0. IsFiniteSet(Rows)
  BY StockAssumption
<1>1. f \in [Rows -> Nat] /\ g \in [Rows -> Nat]
  BY DEF StockState
<1>2. onHand = Total(f) /\ onHand' = Total(g)
  BY DEF onHand
<1>3. \A k \in Rows : f[k] = level[k].onHand /\ g[k] = level'[k].onHand
  OBVIOUS
<1>4. (\A k \in Rows : level'[k] = level[k]) => g = f
  OBVIOUS
<1> HIDE DEF f, g
<1>5. onHand \in Nat /\ onHand' \in Nat
  BY <1>0, <1>1, <1>2, TotalType
<1>6. ASSUME NEW r \in Rows, \A k \in Rows \ {r} : level'[k] = level[k]
      PROVE  onHand' = onHand + level'[r].onHand - level[r].onHand
  <2>1. \A k \in Rows \ {r} : g[k] = f[k]
    BY <1>3, <1>6
  <2>2. Total(g) = Total(f) + g[r] - f[r]
    BY <2>1, <1>0, <1>1, TotalChange
  <2> QED
    BY <2>2, <1>2, <1>3
<1>7. ASSUME NEW r \in Rows, NEW s \in Rows, r # s, \A k \in Rows \ {r, s} : level'[k] = level[k]
      PROVE  onHand' = onHand + (level'[r].onHand - level[r].onHand)
                              + (level'[s].onHand - level[s].onHand)
  <2>1. \A k \in Rows \ {r, s} : g[k] = f[k]
    BY <1>3, <1>7
  <2>2. Total(g) = Total(f) + (g[r] - f[r]) + (g[s] - f[s])
    BY <2>1, <1>0, <1>1, <1>7, TotalChangeTwice
  <2> QED
    BY <2>2, <1>2, <1>3
<1> QED
  BY <1>2, <1>4, <1>5, <1>6, <1>7

-----------------------------------------------------------------------------
(* What a commit does to the rows.                                           *)
LEMMA CommitRows ==
    ASSUME IInv, NEW t \in Tx, Commit(t), NEW W, W = work[t]
    PROVE  /\ Job(W, <<>>)
           /\ order' \in [Orders -> OrderRow] /\ line' \in [Lines -> LineRow]
           /\ entry' \in [Mechanics -> {{}} \cup {{w} : w \in Orders}]
           /\ level' \in [Rows -> StockState] /\ inflow' = inflow + W.inflow /\ inflow' \in Int
           /\ \A w \in Orders : order'[w] = IF w \in DOMAIN W.order THEN W.order[w] ELSE order[w]
           /\ \A l \in Lines : line'[l] = IF l \in DOMAIN W.line THEN W.line[l] ELSE line[l]
           /\ \A m \in Mechanics : entry'[m] = IF m \in DOMAIN W.entry THEN W.entry[m] ELSE entry[m]
           /\ \A r \in Rows : level'[r] = IF r \in DOMAIN W.level THEN W.level[r] ELSE level[r]
<1>0. /\ order \in [Orders -> OrderRow] /\ line \in [Lines -> LineRow]
      /\ level \in [Rows -> StockState]
  BY DEF IInv, Types
<1>1. Job(W, <<>>)
  BY DEF IInv, Jobs, Commit
<1>2. /\ order' = over(W.order, order) /\ line' = over(W.line, line)
      /\ entry' = over(W.entry, entry) /\ level' = over(W.level, level)
      /\ inflow' = inflow + W.inflow
  BY DEF Commit
<1>3. DOMAIN W.order \subseteq Orders /\ \A w \in DOMAIN W.order : W.order[w] \in OrderRow
  BY <1>1 DEF Job, OrderJob
<1>4. DOMAIN W.line \subseteq Lines /\ \A l \in DOMAIN W.line : W.line[l] \in LineRow
  BY <1>1 DEF Job, LineJob
<1>5. /\ DOMAIN W.entry \subseteq Mechanics
      /\ \A m \in DOMAIN W.entry : W.entry[m] \in {{}} \cup {{w} : w \in Orders}
  BY <1>1, <1>3 DEF Job, EntryJob
<1>6. /\ DOMAIN W.level \subseteq Rows /\ \A r \in DOMAIN W.level : W.level[r] \in StockState
      /\ W.inflow \in Int
  BY <1>1, StockAssumption DEF Job, StockJob, NoStock, PartJob, CountJob, TransferJob, OneMove, Moved
<1>7. /\ order' \in [Orders -> OrderRow]
      /\ \A w \in Orders : order'[w] = IF w \in DOMAIN W.order THEN W.order[w] ELSE order[w]
  BY <1>0, <1>2, <1>3 DEF over
<1>8. /\ line' \in [Lines -> LineRow]
      /\ \A l \in Lines : line'[l] = IF l \in DOMAIN W.line THEN W.line[l] ELSE line[l]
  BY <1>0, <1>2, <1>4 DEF over
<1>9. /\ entry' \in [Mechanics -> {{}} \cup {{w} : w \in Orders}]
      /\ \A m \in Mechanics : entry'[m] = IF m \in DOMAIN W.entry THEN W.entry[m] ELSE entry[m]
  <2> DEFINE T == {{}} \cup {{w} : w \in Orders}
  <2>1. entry \in [Mechanics -> T] /\ \A m \in DOMAIN W.entry : W.entry[m] \in T
    BY <1>5 DEF IInv, Types
  <2> HIDE DEF T
  <2>2. /\ entry' \in [Mechanics -> T]
        /\ \A m \in Mechanics : entry'[m] = IF m \in DOMAIN W.entry THEN W.entry[m] ELSE entry[m]
    BY <1>2, <1>5, <2>1 DEF over
  <2> QED
    BY <2>2 DEF T
<1>10. /\ level' \in [Rows -> StockState]
       /\ \A r \in Rows : level'[r] = IF r \in DOMAIN W.level THEN W.level[r] ELSE level[r]
  BY <1>0, <1>2, <1>6 DEF over
<1>11. inflow' \in Int
  BY <1>2, <1>6 DEF IInv, Types
<1> QED
  BY <1>1, <1>2, <1>7, <1>8, <1>9, <1>10, <1>11

(* What a commit does to the lines of an order and to its mechanics.          *)
LEMMA CommitOrders ==
    ASSUME IInv, NEW t \in Tx, Commit(t), NEW W, W = work[t], NEW w \in Orders
    PROVE  /\ \/ w \notin DOMAIN W.order
              \/ order[w].status \in {"invoiced", "closed"}
              \/ DOMAIN W.line = {}
              => billable(w)' = billable(w)
           /\ \/ w \notin DOMAIN W.order
              \/ W.order[w].status = "ready"
              => clockedOn(w)' \subseteq clockedOn(w)
<1>1. Job(W, <<>>)
  BY CommitRows
<1>2. ASSUME \/ w \notin DOMAIN W.order
             \/ order[w].status \in {"invoiced", "closed"}
             \/ DOMAIN W.line = {}
      PROVE  billable(w)' = billable(w)
  <2>1. \A l \in Lines : orderOf[l] = w => l \notin DOMAIN W.line
    BY <1>1, <1>2 DEF Job, LineJob, EDITABLE
  <2>2. \A l \in Lines : orderOf[l] = w => line'[l] = line[l]
    BY <2>1, CommitRows
  <2> QED
    BY <2>2 DEF billable, linesOf
<1>3. ASSUME w \notin DOMAIN W.order \/ W.order[w].status = "ready",
             NEW m \in clockedOn(w)'
      PROVE  m \in clockedOn(w)
  <2>1. m \in Mechanics /\ w \in entry'[m]
    BY <1>3 DEF clockedOn
  <2>2. m \notin DOMAIN W.entry
    BY <1>1, <1>3, <2>1, CommitRows DEF Job, EntryJob, CanClockOn
  <2> QED
    BY <2>1, <2>2, CommitRows DEF clockedOn
<1> QED
  BY <1>2, <1>3

(* The other transactions have locked what they rely on.                     *)
LEMMA CommitOthers ==
    ASSUME IInv, NEW t \in Tx, Commit(t), NEW u \in Tx, u # t, NEW V, V = work[u], NEW td, td = todo[u]
    PROVE  Job(V, td)'
<1> DEFINE W == work[t]
<1>1. Job(V, td) /\ Apart(W, V)
  BY DEF IInv, Jobs, Locks
<1>2. \A w \in DOMAIN V.order : w \in Orders /\ w \notin DOMAIN W.order
  BY <1>1 DEF Job, OrderJob, Apart
<1>3. \A w \in DOMAIN V.order : /\ order'[w] = order[w]
                                /\ billable(w)' = billable(w)
                                /\ clockedOn(w)' \subseteq clockedOn(w)
  BY <1>2, CommitRows, CommitOrders
<1>4. \A l \in DOMAIN V.line : line'[l] = line[l]
  <2> SUFFICES ASSUME NEW l \in DOMAIN V.line PROVE line'[l] = line[l]
    OBVIOUS
  <2>1. l \in Lines /\ orderOf[l] \in DOMAIN V.order
    BY <1>1 DEF Job, LineJob
  <2>2. Job(W, <<>>)
    BY CommitRows
  <2>3. l \notin DOMAIN W.line
    BY <2>1, <2>2, <1>2 DEF Job, LineJob
  <2> QED
    BY <2>1, <2>3, CommitRows
<1>5. \A r \in DOMAIN V.level : r \in Rows => level'[r] = level[r]
  BY <1>1, CommitRows DEF Apart
<1> HIDE DEF W
<1>6. OrderJob(V)'
  BY <1>1, <1>3 DEF Job, OrderJob
<1>7. LineJob(V)' /\ EntryJob(V)'
  BY <1>1, <1>3 DEF Job, LineJob, EntryJob
<1>8. \A r \in Rows : \A type, q : OneMove(V, td, r, type, q) => OneMove(V, td, r, type, q)'
  BY <1>5 DEF OneMove, Moved
<1>9. StockJob(V, td)'
  <2>1. CASE NoStock(V, td)
    BY <2>1 DEF StockJob, NoStock
  <2>2. CASE PartJob(V, td)
    <3>1. \A l \in Backed : rowOf[l] \in Rows
      BY StockAssumption
    <3>2. PartJob(V, td)'
      BY <2>2, <3>1, <1>4, <1>8 DEF PartJob
    <3> QED
      BY <3>2 DEF StockJob
  <2>3. CASE CountJob(V, td)
    <3>1. CountJob(V, td)'
      BY <2>3, <1>8 DEF CountJob
    <3> QED
      BY <3>1 DEF StockJob
  <2>4. CASE TransferJob(V, td)
    <3>1. TransferJob(V, td)'
      BY <2>4, <1>5 DEF TransferJob, Moved
    <3> QED
      BY <3>1 DEF StockJob
  <2> QED
    BY <2>1, <2>2, <2>3, <2>4, <1>1 DEF Job, StockJob
<1> QED
  BY <1>1, <1>6, <1>7, <1>9 DEF Job

(* A commit keeps the bills and what is ready.                               *)
LEMMA CommitBills == ASSUME IInv, NEW t \in Tx, Commit(t) PROVE Billed' /\ ReadyIsFinished'
<1> DEFINE W == work[t]
<1>1. OrderJob(W)
  BY CommitRows DEF Job
<1>2. ASSUME NEW w \in Orders, order'[w].billed # {}
      PROVE  order'[w].billed = billable(w)' /\ order'[w].status \in {"invoiced", "closed"}
  <2>1. order'[w] = IF w \in DOMAIN W.order THEN W.order[w] ELSE order[w]
    BY CommitRows
  <2>2. /\ \/ w \notin DOMAIN W.order
           \/ order[w].status \in {"invoiced", "closed"}
           \/ DOMAIN W.line = {}
           => billable(w)' = billable(w)
    BY CommitOrders
  <2>3. order[w].billed # {} =>
          order[w].billed = billable(w) /\ order[w].status \in {"invoiced", "closed"}
    BY DEF IInv, Billed
  <2> HIDE DEF W
  <2>4. CASE w \notin DOMAIN W.order
    BY <1>2, <2>1, <2>2, <2>3, <2>4
  <2>5. CASE w \in DOMAIN W.order
    BY <1>1, <1>2, <2>1, <2>2, <2>3, <2>5 DEF OrderJob
  <2> QED
    BY <2>4, <2>5
<1>3. ASSUME NEW w \in Orders, order'[w].status = "ready" PROVE clockedOn(w)' = {}
  <2>1. order'[w] = IF w \in DOMAIN W.order THEN W.order[w] ELSE order[w]
    BY CommitRows
  <2>2. w \notin DOMAIN W.order \/ W.order[w].status = "ready"
           => clockedOn(w)' \subseteq clockedOn(w)
    BY CommitOrders
  <2>3. order[w].status = "ready" => clockedOn(w) = {}
    BY DEF IInv, ReadyIsFinished
  <2> HIDE DEF W
  <2> QED
    BY <1>1, <1>3, <2>1, <2>2, <2>3 DEF OrderJob
<1> QED
  BY <1>2, <1>3 DEF Billed, ReadyIsFinished

(* What each movement does to a row.                                         *)
LEMMA Movements ==
    ASSUME NEW s \in StockState, NEW q \in Int, NEW type, NEW z, z = applyMovement(s, type, q)
    PROVE  /\ type \in {"receive", "adjust", "transfer_in"}
                 => z.onHand = s.onHand + q /\ z.reserved = s.reserved
           /\ type = "transfer_out" => z.onHand = s.onHand - q /\ z.reserved = s.reserved
           /\ type = "reserve" => z.onHand = s.onHand /\ z.reserved = s.reserved + q
           /\ type = "release" => z.onHand = s.onHand /\ z.reserved = s.reserved - q
           /\ type = "issue" => z.onHand = s.onHand - q /\ z.reserved = s.reserved - q
BY DEF StockState, applyMovement

(* A commit moves on the rows what it moves on the lines.                    *)
LEMMA CommitStock ==
    ASSUME IInv, NEW t \in Tx, Commit(t)
    PROVE  ReservedMatchesLines' /\ Conservation'
<1> DEFINE W == work[t]
<1>0. /\ line \in [Lines -> LineRow] /\ line' \in [Lines -> LineRow]
      /\ level \in [Rows -> StockState] /\ level' \in [Rows -> StockState]
      /\ inflow \in Int /\ inflow' = inflow + W.inflow
      /\ Backed \subseteq Lines
      /\ Total(Stock) \in Nat
      /\ StockJob(W, <<>>)
  BY CommitRows, StockAssumption, TotalType DEF IInv, Types, Job
<1>1. /\ \A r \in Rows : level[r].reserved = promised(r)
      /\ Total(Stock) + inflow = onHand + issued
  BY DEF IInv, ReservedMatchesLines, Conservation
<1>2. /\ \A l \in Lines : line'[l] = IF l \in DOMAIN W.line THEN W.line[l] ELSE line[l]
      /\ \A r \in Rows : level'[r] = IF r \in DOMAIN W.level THEN W.level[r] ELSE level[r]
  BY CommitRows
<1> HIDE DEF W
<1>3. \A r \in Rows : level'[r].reserved <= level'[r].onHand
  BY <1>0 DEF StockState
<1>4. /\ onHand \in Int /\ onHand' \in Int /\ issued \in Int /\ issued' \in Int
      /\ \A r \in Rows : promised(r) \in Int /\ promised(r)' \in Int
  BY <1>0, LinesTotal, RowsTotal
<1>8. Total(Stock) \in Int /\ inflow \in Int /\ inflow' = inflow + W.inflow
  BY <1>0
<1> SUFFICES /\ \A r \in Rows : level'[r].reserved = promised(r)'
             /\ Total(Stock) + inflow' = onHand' + issued'
  BY <1>3 DEF ReservedMatchesLines, Conservation
<1>5. CASE DOMAIN W.line \cap Backed = {} /\ \A r \in Rows : level'[r].reserved = level[r].reserved
  <2>1. issued' = issued /\ \A r \in Rows : promised(r)' = promised(r)
    BY <1>0, <1>2, <1>5, LinesTotal
  <2>2. CASE NoStock(W, <<>>)
    <3>1. onHand' = onHand /\ W.inflow = 0
      BY <2>2, <1>0, <1>2, RowsTotal DEF NoStock
    <3> QED
      BY <2>1, <3>1, <1>0, <1>1, <1>5
  <2>3. CASE CountJob(W, <<>>)
    <3>1. PICK r \in Rows, type \in {"receive", "adjust"} :
            /\ W.inflow \in Int /\ DOMAIN W.level = {r} /\ Moved(W, r, type, W.inflow)
      BY <2>3 DEF CountJob, OneMove
    <3>2. level'[r].onHand = level[r].onHand + W.inflow
      BY <3>1, <1>0, <1>2 DEF Moved, applyMovement, StockState
    <3>3. onHand' = onHand + level'[r].onHand - level[r].onHand
      BY <3>1, <1>0, <1>2, RowsTotal
    <3>4. level[r].onHand \in Int /\ level'[r].onHand \in Int
      BY <1>0 DEF StockState
    <3>5. Total(Stock) + inflow' = onHand' + issued'
      BY <2>1, <3>1, <3>2, <3>3, <3>4, <1>1, <1>4, <1>8
    <3> QED
      BY <2>1, <3>5, <1>1, <1>5
  <2>4. CASE TransferJob(W, <<>>)
    <3>1. PICK r \in Rows, s \in Rows, q \in Quantities, leg \in Legs :
            /\ r # s /\ W.inflow = 0
            /\ DOMAIN W.level = {r, s} /\ Moved(W, r, leg[1], q) /\ Moved(W, s, leg[2], q)
      BY <2>4 DEF TransferJob
    <3>2. q \in Int
      BY StockAssumption
    <3>3. /\ level[r].onHand \in Int /\ level'[r].onHand \in Int
          /\ level[s].onHand \in Int /\ level'[s].onHand \in Int
      BY <1>0 DEF StockState
    <3>4. (level'[r].onHand - level[r].onHand) + (level'[s].onHand - level[s].onHand) = 0
      <4>0. /\ level'[r] = applyMovement(level[r], leg[1], q)
            /\ level'[s] = applyMovement(level[s], leg[2], q)
        BY <3>1, <1>2 DEF Moved
      <4>1. CASE leg[1] = "transfer_out" /\ leg[2] = "transfer_in"
        <5>1. level'[r].onHand = level[r].onHand - q
          BY <4>0, <4>1, <3>2, <1>0, Movements
        <5>2. level'[s].onHand = level[s].onHand + q
          BY <4>0, <4>1, <3>2, <1>0, Movements
        <5> QED
          BY <5>1, <5>2, <3>2, <3>3
      <4>2. CASE leg[1] = "transfer_in" /\ leg[2] = "transfer_out"
        BY <4>0, <4>2, <3>2, <3>3, <1>0, Movements
      <4> QED
        BY <4>1, <4>2 DEF Legs
    <3>5. onHand' = onHand + (level'[r].onHand - level[r].onHand)
                           + (level'[s].onHand - level[s].onHand)
      BY <3>1, <1>0, <1>2, RowsTotal
    <3>6. Total(Stock) + inflow' = onHand' + issued'
      BY <2>1, <3>1, <3>3, <3>4, <3>5, <1>1, <1>4, <1>8
    <3> QED
      BY <2>1, <3>6, <1>1, <1>5
  <2>5. CASE PartJob(W, <<>>)
    BY <2>5, <1>5 DEF PartJob
  <2> QED
    BY <2>2, <2>3, <2>4, <2>5, <1>0 DEF StockJob
<1>6. CASE PartJob(W, <<>>)
  <2>1. PICK l \in Backed, mv \in LineMoves :
          /\ DOMAIN W.line = {l} /\ W.inflow = 0
          /\ line[l].at = mv[2] /\ W.line[l].at = mv[3]
          /\ DOMAIN W.level = {rowOf[l]} /\ Moved(W, rowOf[l], mv[1], qtyOf[l])
    BY <1>6 DEF PartJob, OneMove
  <2> DEFINE r == rowOf[l]
             q == qtyOf[l]
  <2>2. r \in Rows /\ q \in Int /\ l \in Lines
    BY StockAssumption
  <2>3. /\ issued' = issued + inState("issued", l)' - inState("issued", l)
        /\ promised(r)' = promised(r) + inState("present", l)' - inState("present", l)
        /\ \A s \in Rows \ {r} : promised(s)' = promised(s)
    BY <1>0, <1>2, <2>1, LinesTotal
  <2>4. /\ onHand' = onHand + level'[r].onHand - level[r].onHand
        /\ \A s \in Rows \ {r} : level'[s] = level[s]
    BY <1>0, <1>2, <2>1, <2>2, RowsTotal
  <2>5. /\ level[r].onHand \in Int /\ level'[r].onHand \in Int
        /\ level[r].reserved \in Int /\ level'[r].reserved \in Int
    BY <1>0, <2>2 DEF StockState
  <2>6. level'[r] = applyMovement(level[r], mv[1], q) /\ level[r] \in StockState
    BY <1>0, <1>2, <2>1, <2>2 DEF Moved
  <2>7. line'[l].at = mv[3] /\ line[l].at = mv[2]
    BY <1>2, <2>1, <2>2
  <2>8. /\ level'[r].reserved = level[r].reserved + inState("present", l)' - inState("present", l)
        /\ level'[r].onHand + inState("issued", l)' = level[r].onHand + inState("issued", l)
    <3>1. CASE mv = <<"reserve", "absent", "present">>
      BY <3>1, <2>2, <2>5, <2>6, <2>7 DEF applyMovement, StockState, inState
    <3>2. CASE mv = <<"issue", "present", "issued">>
      BY <3>2, <2>2, <2>5, <2>6, <2>7 DEF applyMovement, StockState, inState
    <3>3. CASE mv = <<"release", "present", "absent">>
      BY <3>3, <2>2, <2>5, <2>6, <2>7 DEF applyMovement, StockState, inState
    <3> QED
      BY <3>1, <3>2, <3>3 DEF LineMoves
  <2>9. /\ inState("issued", l) \in Int /\ inState("issued", l)' \in Int
        /\ inState("present", l) \in Int /\ inState("present", l)' \in Int
    BY <2>2 DEF inState
  <2> HIDE DEF r, q
  <2>10. \A s \in Rows : level'[s].reserved = promised(s)'
    <3> SUFFICES ASSUME NEW s \in Rows PROVE level'[s].reserved = promised(s)'
      OBVIOUS
    <3>1. CASE s = r
      BY <3>1, <1>1, <1>4, <2>3, <2>5, <2>8, <2>9
    <3>2. CASE s # r
      BY <3>2, <1>1, <2>3, <2>4
    <3> QED
      BY <3>1, <3>2
  <2>11. Total(Stock) + inflow' = onHand' + issued'
    BY <1>1, <1>4, <1>8, <2>1, <2>3, <2>4, <2>5, <2>8, <2>9
  <2> QED
    BY <2>10, <2>11
<1>7. \/ PartJob(W, <<>>)
      \/ DOMAIN W.line \cap Backed = {} /\ \A r \in Rows : level'[r].reserved = level[r].reserved
  <2>1. CASE NoStock(W, <<>>)
    BY <2>1, <1>2 DEF NoStock
  <2>2. CASE CountJob(W, <<>>)
    <3>1. PICK r \in Rows, type \in {"receive", "adjust"} :
            /\ DOMAIN W.line = {} /\ W.inflow \in Int
            /\ DOMAIN W.level = {r} /\ Moved(W, r, type, W.inflow)
      BY <2>2 DEF CountJob, OneMove
    <3>2. level'[r] = applyMovement(level[r], type, W.inflow)
      BY <3>1, <1>2 DEF Moved
    <3>3. level'[r].reserved = level[r].reserved
      BY <3>1, <3>2, <1>0, Movements
    <3> QED
      BY <3>1, <3>3, <1>2
  <2>3. CASE TransferJob(W, <<>>)
    <3>1. PICK r \in Rows, s \in Rows, q \in Quantities, leg \in Legs :
            /\ DOMAIN W.line = {} /\ DOMAIN W.level = {r, s}
            /\ Moved(W, r, leg[1], q) /\ Moved(W, s, leg[2], q)
      BY <2>3 DEF TransferJob
    <3>2. /\ level'[r] = applyMovement(level[r], leg[1], q)
          /\ level'[s] = applyMovement(level[s], leg[2], q)
      BY <3>1, <1>2 DEF Moved
    <3>3. /\ q \in Int
          /\ leg[1] \in {"transfer_in", "transfer_out"} /\ leg[2] \in {"transfer_in", "transfer_out"}
      BY StockAssumption DEF Legs
    <3>4. level'[r].reserved = level[r].reserved /\ level'[s].reserved = level[s].reserved
      BY <3>2, <3>3, <1>0, Movements
    <3> QED
      BY <3>1, <3>4, <1>2
  <2> QED
    BY <2>1, <2>2, <2>3, <1>0 DEF StockJob
<1> QED
  BY <1>5, <1>6, <1>7

LEMMA CommitPreserves == ASSUME IInv, NEW t \in Tx, Commit(t) PROVE IInv'
<1>1. /\ work' = [work EXCEPT ![t] = NoWork] /\ todo' = [todo EXCEPT ![t] = <<>>]
  BY DEF Commit, End
<1>2. /\ work'[t] = NoWork /\ todo'[t] = <<>>
      /\ \A u \in Tx \ {t} : work'[u] = work[u] /\ todo'[u] = todo[u]
      /\ work' = [u \in Tx |-> work'[u]] /\ todo' = [u \in Tx |-> todo'[u]]
  BY <1>1 DEF IInv, Types
<1>3. Types'
  BY <1>2, CommitRows DEF Types
<1>4. Jobs'
  <2> SUFFICES ASSUME NEW u \in Tx PROVE Job(work[u], todo[u])'
    BY DEF Jobs
  <2>1. CASE u = t
    <3>1. DOMAIN Nothing = {}
      BY DEF Nothing
    <3>2. Job(NoWork, <<>>)'
      BY <3>1 DEF NoWork, Job, OrderJob, LineJob, EntryJob, StockJob, NoStock
    <3> QED
      BY <2>1, <3>2, <1>2
  <2>2. CASE u # t
    BY <2>2, <1>2, CommitOthers
  <2> QED
    BY <2>1, <2>2
<1>5. Locks'
  <2> SUFFICES ASSUME NEW u \in Tx, NEW v \in Tx, u # v PROVE Apart(work'[u], work'[v])
    BY DEF Locks, Apart
  <2>1. CASE u = t \/ v = t
    BY <2>1, <1>2, NoWorkJob
  <2>2. CASE u # t /\ v # t
    BY <2>2, <1>2 DEF IInv, Locks
  <2> QED
    BY <2>1, <2>2
<1> QED
  BY <1>3, <1>4, <1>5, CommitBills, CommitStock DEF IInv

-----------------------------------------------------------------------------
LEMMA NextIInv == IInv /\ [Next]_vars => IInv'
<1> SUFFICES ASSUME IInv, [Next]_vars PROVE IInv'
  OBVIOUS
<1>1. CASE UNCHANGED vars
  <2>1. UNCHANGED rows /\ UNCHANGED <<work, todo>>
    BY <1>1 DEF vars
  <2> QED
    BY <2>1, RowsUnchanged DEF IInv, Types, Locks, Jobs, Apart
<1>2. ASSUME NEW t \in Tx, Request(t) PROVE IInv'
  <2>1. CASE \E l \in Lines : AddLine(t, l) \/ IssueLine(t, l) \/ UpdateLine(t, l) \/ RemoveLine(t, l)
    BY <2>1, LineRequests
  <2>2. CASE \E w \in Orders : \/ \E to \in Statuses : Transition(t, w, to)
                               \/ \E m \in Mechanics : ClockOn(t, w, m)
                               \/ IssueInvoice(t, w)
    BY <2>2, HeaderRequests
  <2>3. CASE \E w \in Orders, m \in Mechanics : ClockOff(t, w, m)
    BY <2>3, ClockOffPreserves
  <2>4. CASE \E r \in Rows, q \in Quantities : \/ Receive(t, r, q) \/ Adjust(t, r, q)
                                               \/ \E s \in Rows : Transfer(t, r, s, q)
    BY <2>4, StockRequests
  <2> QED
    BY <1>2, <2>1, <2>2, <2>3, <2>4 DEF Request
<1>3. ASSUME NEW t \in Tx, Proceed(t) PROVE IInv'
  BY <1>3, MoveStockPreserves, InsertEntryPreserves, CommitPreserves DEF Proceed
<1>4. ASSUME NEW t \in Tx, Rollback(t) PROVE IInv'
  BY <1>4, EndPreserves DEF Rollback
<1> QED
  BY <1>1, <1>2, <1>3, <1>4 DEF Next

LEMMA SpecIInv == Spec => []IInv
BY InitIInv, NextIInv, PTL DEF Spec

-----------------------------------------------------------------------------
(* Only a transaction that has begun holds rows or has statements to go.     *)
Begun ==
    /\ running \subseteq Tx
    /\ used \in 0 .. MaxRequests
    /\ \A t \in Tx \ running : work[t] = NoWork /\ todo[t] = <<>>

LEMMA BeginBegun ==
    ASSUME Begun, NEW t \in Tx, NEW writes, NEW statements, Begin(t, writes, statements)
    PROVE  Begun'
<1>1. /\ running' = running \cup {t}
      /\ \A u \in Tx \ {t} : work'[u] = work[u] /\ todo'[u] = todo[u]
  BY DEF Begin
<1>2. used' \in 0 .. MaxRequests
  BY StockAssumption DEF Begun, Begin
<1> QED
  BY <1>1, <1>2 DEF Begun

LEMMA RequestBegun == ASSUME Begun, NEW t \in Tx, Request(t) PROVE Begun'
<1>1. PICK writes, statements : Begin(t, writes, statements)
  <2>1. ASSUME NEW l \in Lines,
               AddLine(t, l) \/ IssueLine(t, l) \/ UpdateLine(t, l) \/ RemoveLine(t, l)
        PROVE  \E writes, statements : Begin(t, writes, statements)
    BY <2>1, Zenon DEF AddLine, IssueLine, UpdateLine, RemoveLine
  <2>2. ASSUME NEW w \in Orders,
               \/ \E to \in Statuses : Transition(t, w, to)
               \/ \E m \in Mechanics : ClockOn(t, w, m) \/ ClockOff(t, w, m)
               \/ IssueInvoice(t, w)
        PROVE  \E writes, statements : Begin(t, writes, statements)
    BY <2>2, Zenon DEF Transition, ClockOn, ClockOff, IssueInvoice
  <2>3. ASSUME NEW r \in Rows, NEW q \in Quantities,
               \/ Receive(t, r, q) \/ Adjust(t, r, q)
               \/ \E s \in Rows : Transfer(t, r, s, q)
        PROVE  \E writes, statements : Begin(t, writes, statements)
    BY <2>3, Zenon DEF Receive, Adjust, Transfer
  <2> QED
    BY <2>1, <2>2, <2>3, Zenon DEF Request
<1> QED
  BY <1>1, BeginBegun

LEMMA EndBegun ==
    ASSUME IInv, Begun, NEW t \in Tx, End(t)
    PROVE  Begun'
<1>1. /\ running' = running \ {t} /\ used' = used
      /\ work'[t] = NoWork /\ todo'[t] = <<>>
      /\ \A u \in Tx \ {t} : work'[u] = work[u] /\ todo'[u] = todo[u]
  BY DEF End, IInv, Types
<1> QED
  BY <1>1 DEF Begun

(* A statement is executed by a transaction that has one to go. *)
LEMMA StatementBegun ==
    ASSUME Begun, NEW t \in Tx, todo[t] # <<>>, UNCHANGED <<running, used>>,
           \A u \in Tx \ {t} : work'[u] = work[u] /\ todo'[u] = todo[u]
    PROVE  Begun'
BY DEF Begun

LEMMA NextBegun == IInv /\ Begun /\ [Next]_vars => Begun'
<1> SUFFICES ASSUME IInv, Begun, [Next]_vars PROVE Begun'
  OBVIOUS
<1>1. CASE UNCHANGED vars
  BY <1>1 DEF Begun, vars
<1>2. ASSUME NEW t \in Tx, MoveStock(t) PROVE Begun'
  <2>1. CASE End(t)
    BY <2>1, EndBegun
  <2>2. CASE ~End(t)
    <3>1. /\ todo[t] # <<>> /\ UNCHANGED <<running, used>>
          /\ \A u \in Tx \ {t} : work'[u] = work[u] /\ todo'[u] = todo[u]
      BY <1>2, <2>2 DEF MoveStock, IInv, Types
    <3> QED
      BY <3>1, StatementBegun
  <2> QED
    BY <2>1, <2>2
<1>3. ASSUME NEW t \in Tx, InsertEntry(t) PROVE Begun'
  <2>1. CASE End(t)
    BY <2>1, EndBegun
  <2>2. CASE ~End(t)
    <3>1. /\ todo[t] # <<>> /\ UNCHANGED <<running, used>>
          /\ \A u \in Tx \ {t} : work'[u] = work[u] /\ todo'[u] = todo[u]
      BY <1>3, <2>2 DEF InsertEntry, IInv, Types
    <3> QED
      BY <3>1, StatementBegun
  <2> QED
    BY <2>1, <2>2
<1>4. ASSUME NEW t \in Tx, Commit(t) \/ Rollback(t) PROVE Begun'
  BY <1>4, EndBegun DEF Commit, Rollback
<1> QED
  BY <1>1, <1>2, <1>3, <1>4, RequestBegun DEF Next, Proceed

(* StockTypeCorrect: rows keep their shape, no committed stock row promises   *)
(* more than it has (applyMovement's StockErrors), and whatever way a request *)
(* ends it leaves no lock and no statement behind.                           *)
THEOREM StockTypeCorrect == Spec => []TypeOK
<1>1. Init => Begun
  BY StockAssumption DEF Init, Begun
<1>2. IInv /\ Begun => TypeOK
  <2> SUFFICES ASSUME IInv, Begun PROVE TypeOK
    OBVIOUS
  <2>1. entry \in [Mechanics -> SUBSET Orders]
    BY DEF IInv, Types
  <2> QED
    BY <2>1 DEF IInv, Types, Begun, TypeOK, OrderRow, LineRow
<1> QED
  BY <1>1, <1>2, SpecIInv, NextBegun, PTL DEF Spec

(* ReservedAlwaysMatchesLines: in every reachable state, whatever requests   *)
(* are under way, what each stock row says is reserved is what the lines     *)
(* waiting for it ask for, and no more than is on hand (addLine, issueLine,  *)
(* removeLine, InventoryService.move and transfer).                          *)
THEOREM ReservedAlwaysMatchesLines == Spec => []ReservedMatchesLines
BY SpecIInv, PTL DEF IInv

(* StockIsConserved: every part received or adjusted in is on a row or on a  *)
(* line, once, however transactions interleave, fail or are rolled back.     *)
THEOREM StockIsConserved == Spec => []Conservation
BY SpecIInv, PTL DEF IInv

(* ReadyIsAlwaysFinished: nobody is clocked on to an order that is ready,    *)
(* although transition counts the open entries without a lock and clockOn    *)
(* inserts one: both hold the order's row.                                   *)
THEOREM ReadyIsAlwaysFinished == Spec => []ReadyIsFinished
BY SpecIInv, PTL DEF IInv

(* OneClockAlways: a mechanic has one open time entry, although clockOn looks *)
(* for it without a lock (uq_one_open_entry_per_mechanic).                   *)
THEOREM OneClockAlways == Spec => []OneClock
<1>1. IInv => OneClock
  <2> SUFFICES ASSUME IInv, NEW m \in Mechanics PROVE Cardinality(entry[m]) <= 1
    BY DEF OneClock
  <2>1. entry[m] \in {{}} \cup {{w} : w \in Orders}
    BY DEF IInv, Types
  <2>2. CASE entry[m] = {}
    BY <2>2, FS_EmptySet
  <2>3. ASSUME NEW w \in Orders, entry[m] = {w} PROVE Cardinality(entry[m]) <= 1
    <3>1. Cardinality({w}) = 1
      BY FS_Singleton
    <3> QED
      BY <3>1, <2>3
  <2> QED
    BY <2>1, <2>2, <2>3
<1> QED
  BY <1>1, SpecIInv, PTL

(* BillIsAlwaysComplete: an invoice bills the billable lines of its order,    *)
(* and none is added, repriced or removed behind it (issueFromWorkOrder, and  *)
(* the editable check of the line handlers, under the order's lock).         *)
THEOREM BillIsAlwaysComplete == Spec => []BillIsComplete
<1>1. IInv => BillIsComplete
  BY DEF IInv, Billed, BillIsComplete
<1> QED
  BY <1>1, SpecIInv, PTL

-----------------------------------------------------------------------------
(* No set of transactions waits in a circle, the safety under Ends: whoever   *)
(* has statements to go holds no time entry, and no stock row that does not   *)
(* sort before the next one it asks for (transfer's order of its legs).       *)

(* u holds what the next statement of t needs. *)
waitsFor(t, u) ==
    /\ t # u
    /\ todo[t] # <<>>
    /\ LET s == Head(todo[t]) IN
       \/ "row" \in DOMAIN s /\ s.row \in DOMAIN work[u].level
       \/ "mechanic" \in DOMAIN s /\ s.mechanic \in DOMAIN work[u].entry

NoCircle == \A D \in SUBSET Tx : D # {} => \E t \in D : \A u \in D : ~waitsFor(t, u)

MovementTypes == {"receive", "adjust", "transfer_in", "transfer_out", "reserve", "release", "issue"}

OnePunch(td) == \E m \in Mechanics, w \in Orders : td = <<Punch(m, w)>>
OneMovement(W, td) ==
    \E r \in Rows, type \in MovementTypes, q \in Int :
        td = <<Move(r, type, q)>> /\ \A k \in DOMAIN W.level : k < r
TwoMovements(td) ==
    \E r, s \in Rows, q \in Int, leg \in Legs :
        r < s /\ td = <<Move(r, leg[1], q), Move(s, leg[2], q)>>

Ordered(W, td) ==
    \/ td = <<>>
    \/ /\ DOMAIN W.entry = {}
       /\ \/ DOMAIN W.level = {} /\ (OnePunch(td) \/ TwoMovements(td))
          \/ OneMovement(W, td)

Ascending == \A t \in Tx : Ordered(work[t], todo[t])

LEMMA BeginAscending ==
    ASSUME IInv, Ascending, NEW t \in Tx, NEW writes, NEW statements,
           Begin(t, writes, statements), Ordered(writes, statements)
    PROVE  Ascending'
<1>1. /\ work'[t] = writes /\ todo'[t] = statements
      /\ \A u \in Tx \ {t} : work'[u] = work[u] /\ todo'[u] = todo[u]
  BY DEF Begin, IInv, Types
<1> QED
  BY <1>1 DEF Ascending

LEMMA EndAscending ==
    ASSUME IInv, Ascending, NEW t \in Tx, End(t)
    PROVE  Ascending'
<1>1. /\ todo'[t] = <<>>
      /\ \A u \in Tx \ {t} : work'[u] = work[u] /\ todo'[u] = todo[u]
  BY DEF End, IInv, Types
<1> QED
  BY <1>1 DEF Ascending, Ordered

(* A request that holds no stock row and no entry yet, and asks for a row.   *)
LEMMA OneOrdered ==
    ASSUME NEW W, DOMAIN W.entry = {}, DOMAIN W.level = {},
           NEW r \in Rows, NEW type \in MovementTypes, NEW q \in Int
    PROVE  Ordered(W, <<Move(r, type, q)>>)
BY DEF Ordered, OneMovement

(* What comes next: an entry, or a movement of a row. *)
LEMMA PunchFirst == \A td : OnePunch(td) => "row" \notin DOMAIN Head(td)
<1> SUFFICES ASSUME NEW m \in Mechanics, NEW w \in Orders
             PROVE  "row" \notin DOMAIN Head(<<Punch(m, w)>>)
  BY Zenon DEF OnePunch
<1>1. Head(<<Punch(m, w)>>) = [mechanic |-> m, order |-> w]
  BY DEF Punch
<1>2. DOMAIN [mechanic |-> m, order |-> w] = {"mechanic", "order"}
  OBVIOUS
<1> QED
  BY <1>1, <1>2

LEMMA MovementsFirst ==
    ASSUME NEW W, NEW td, OneMovement(W, td) \/ TwoMovements(td)
    PROVE  Head(td).row \in Rows /\ "mechanic" \notin DOMAIN Head(td)
<1>1. PICK r, type, q : r \in Rows /\ Head(td) = Move(r, type, q)
  BY DEF OneMovement, TwoMovements
<1>2. Move(r, type, q).row = r /\ DOMAIN Move(r, type, q) = {"row", "type", "qty"}
  BY DEF Move
<1> QED
  BY <1>1, <1>2

LEMMA EmptyOrdered == \A W : Ordered(W, <<>>)
BY DEF Ordered

LEMMA RequestAscending == ASSUME IInv, Ascending, NEW t \in Tx, Request(t) PROVE Ascending'
<1>1. DOMAIN Nothing = {}
  BY DEF Nothing
<1> HIDE DEF Nothing
<1>2. ASSUME NEW l \in Lines, l \in Backed
      PROVE  rowOf[l] \in Rows /\ qtyOf[l] \in Int
  BY <1>2, StockAssumption
<1>3. ASSUME NEW l \in Lines, AddLine(t, l) \/ RemoveLine(t, l) PROVE Ascending'
  <2>1. PICK r, type :
            /\ type \in {"reserve", "release"}
            /\ Begin(t, OnLine(l, r), IF l \in Backed THEN <<Move(rowOf[l], type, qtyOf[l])>> ELSE <<>>)
    <3>1. CASE AddLine(t, l)
      BY <3>1, Zenon DEF AddLine
    <3>2. CASE RemoveLine(t, l)
      BY <3>2, Zenon DEF RemoveLine
    <3> QED
      BY <1>3, <3>1, <3>2
  <2>2. DOMAIN OnLine(l, r).entry = {} /\ DOMAIN OnLine(l, r).level = {}
    BY <1>1 DEF OnLine
  <2> HIDE DEF OnLine
  <2>3. type \in MovementTypes
    BY <2>1 DEF MovementTypes
  <2>4. CASE l \in Backed
    <3>1. Ordered(OnLine(l, r), <<Move(rowOf[l], type, qtyOf[l])>>)
      BY <1>2, <2>2, <2>3, <2>4, OneOrdered
    <3> QED
      BY <2>1, <2>4, <3>1, BeginAscending
  <2>5. CASE l \notin Backed
    BY <2>1, <2>5, EmptyOrdered, BeginAscending
  <2> QED
    BY <2>4, <2>5
<1>4. ASSUME NEW l \in Lines, IssueLine(t, l) PROVE Ascending'
  <2>1. PICK r : /\ l \in Backed
                 /\ Begin(t, OnLine(l, r), <<Move(rowOf[l], "issue", qtyOf[l])>>)
    BY <1>4 DEF IssueLine
  <2>2. DOMAIN OnLine(l, r).entry = {} /\ DOMAIN OnLine(l, r).level = {}
    BY <1>1 DEF OnLine
  <2> HIDE DEF OnLine
  <2>3. "issue" \in MovementTypes
    BY DEF MovementTypes
  <2>4. Ordered(OnLine(l, r), <<Move(rowOf[l], "issue", qtyOf[l])>>)
    BY <1>2, <2>1, <2>2, <2>3, OneOrdered
  <2> QED
    BY <2>1, <2>4, BeginAscending
<1>5. ASSUME NEW writes, Begin(t, writes, <<>>) PROVE Ascending'
  BY <1>5, EmptyOrdered, BeginAscending
<1>6. ASSUME NEW w \in Orders, NEW m \in Mechanics, ClockOn(t, w, m) PROVE Ascending'
  <2>1. PICK W : /\ DOMAIN W.entry = {} /\ DOMAIN W.level = {}
                 /\ Begin(t, W, <<Punch(m, w)>>)
    BY <1>1, <1>6 DEF ClockOn, NoWork
  <2>2. Ordered(W, <<Punch(m, w)>>)
    BY <2>1 DEF Ordered, OnePunch
  <2> QED
    BY <2>1, <2>2, BeginAscending
<1>7. ASSUME NEW r \in Rows, NEW q \in Quantities, Receive(t, r, q) \/ Adjust(t, r, q) PROVE Ascending'
  <2>1. PICK W, type, d :
            /\ type \in {"receive", "adjust"} /\ d \in {q, -q}
            /\ DOMAIN W.entry = {} /\ DOMAIN W.level = {}
            /\ Begin(t, W, <<Move(r, type, d)>>)
    <3>1. \A d : LET W == [NoWork EXCEPT !.inflow = d]
                 IN  DOMAIN W.entry = {} /\ DOMAIN W.level = {}
      BY <1>1 DEF NoWork
    <3>2. \/ Begin(t, [NoWork EXCEPT !.inflow = q], <<Move(r, "receive", q)>>)
          \/ \E d \in {q, -q} : Begin(t, [NoWork EXCEPT !.inflow = d], <<Move(r, "adjust", d)>>)
      BY <1>7, Zenon DEF Receive, Adjust
    <3> QED
      BY <3>1, <3>2, Zenon
  <2>2. type \in MovementTypes /\ d \in Int
    BY <2>1, StockAssumption DEF MovementTypes
  <2>3. Ordered(W, <<Move(r, type, d)>>)
    BY <2>1, <2>2, OneOrdered
  <2> QED
    BY <2>1, <2>3, BeginAscending
<1>8. ASSUME NEW from \in Rows, NEW to \in Rows, NEW q \in Quantities, Transfer(t, from, to, q)
      PROVE  Ascending'
  <2>1. DOMAIN NoWork.entry = {} /\ DOMAIN NoWork.level = {}
    BY <1>1 DEF NoWork
  <2> HIDE DEF NoWork
  <2>2. PICK r \in Rows, s \in Rows, leg \in Legs :
            r < s /\ Begin(t, NoWork, <<Move(r, leg[1], q), Move(s, leg[2], q)>>)
    <3>1. from # to /\ from \in Nat /\ to \in Nat
      BY <1>8, StockAssumption DEF Transfer
    <3>2. CASE from < to
      BY <1>8, <3>2 DEF Transfer, Legs
    <3>3. CASE to < from
      <4>1. ~(from < to)
        BY <3>1, <3>3
      <4> QED
        BY <1>8, <3>3, <4>1 DEF Transfer, Legs
    <3>4. from < to \/ to < from
      BY <3>1
    <3> QED
      BY <3>2, <3>3, <3>4
  <2>3. q \in Int
    BY StockAssumption
  <2>4. TwoMovements(<<Move(r, leg[1], q), Move(s, leg[2], q)>>)
    BY <2>2, <2>3 DEF TwoMovements
  <2>5. Ordered(NoWork, <<Move(r, leg[1], q), Move(s, leg[2], q)>>)
    BY <2>1, <2>4 DEF Ordered
  <2> QED
    BY <2>2, <2>5, BeginAscending
<1>9. ASSUME NEW l \in Lines, UpdateLine(t, l) PROVE Ascending'
  <2>1. PICK writes : Begin(t, writes, <<>>)
    BY <1>9, Zenon DEF UpdateLine
  <2> QED
    BY <2>1, <1>5
<1>10. ASSUME NEW w \in Orders,
              \/ \E to \in Statuses : Transition(t, w, to)
              \/ \E m \in Mechanics : ClockOff(t, w, m)
              \/ IssueInvoice(t, w)
       PROVE  Ascending'
  <2>1. PICK writes : Begin(t, writes, <<>>)
    BY <1>10, Zenon DEF Transition, ClockOff, IssueInvoice
  <2> QED
    BY <2>1, <1>5
<1> QED
  BY <1>3, <1>4, <1>6, <1>7, <1>8, <1>9, <1>10 DEF Request

(* Carrying out a movement locks its row: the second leg's sorts after it.    *)
LEMMA MoveStockAscending == ASSUME IInv, Ascending, NEW t \in Tx, MoveStock(t) PROVE Ascending'
<1>1. CASE End(t)
  BY <1>1, EndAscending
<1>2. CASE ~End(t)
  <2>1. PICK td, next : td = todo[t] /\ next = applyMovement(over(work[t].level, level)[Head(td).row], Head(td).type, Head(td).qty)
    OBVIOUS
  <2>2. /\ td # <<>> /\ "row" \in DOMAIN Head(td)
        /\ work' = [work EXCEPT ![t].level = over(one(Head(td).row, next), @)]
        /\ todo' = [todo EXCEPT ![t] = Tail(@)]
    BY <1>2, <2>1 DEF MoveStock
  <2>3. todo'[t] = Tail(td) /\ \A u \in Tx \ {t} : work'[u] = work[u] /\ todo'[u] = todo[u]
    BY <2>1, <2>2 DEF IInv, Types
  <2>4. work'[t].entry = work[t].entry /\ work'[t].level = over(one(Head(td).row, next), work[t].level)
    <3>1. work = [u \in Tx |-> work[u]] /\ Job(work[t], todo[t])
      BY DEF IInv, Types, Jobs
    <3> QED
      BY <2>2, <3>1 DEF Job
  <2>5. Ordered(work'[t], Tail(td))
    <3>1. Ordered(work[t], td)
      BY <2>1 DEF Ascending
    <3>2. CASE OnePunch(td)
      BY <2>2, <3>2 DEF OnePunch, Punch
    <3>3. CASE OneMovement(work[t], td)
      <4>1. Tail(td) = <<>>
        BY <3>3 DEF OneMovement
      <4> QED
        BY <4>1, EmptyOrdered
    <3>4. ASSUME DOMAIN work[t].entry = {}, DOMAIN work[t].level = {}, TwoMovements(td)
          PROVE  Ordered(work'[t], Tail(td))
      <4>1. PICK r \in Rows, s \in Rows, q \in Int, leg \in Legs :
                r < s /\ td = <<Move(r, leg[1], q), Move(s, leg[2], q)>>
        BY <3>4 DEF TwoMovements
      <4>2. Tail(td) = <<Move(s, leg[2], q)>> /\ Head(td).row = r
        BY <4>1 DEF Move
      <4>3. DOMAIN work'[t].level = {r}
        BY <2>4, <3>4, <4>2 DEF over, one
      <4>4. leg[2] \in MovementTypes
        BY DEF Legs, MovementTypes
      <4>5. OneMovement(work'[t], <<Move(s, leg[2], q)>>)
        BY <4>1, <4>3, <4>4 DEF OneMovement
      <4> QED
        BY <2>4, <3>4, <4>2, <4>5 DEF Ordered
    <3> QED
      BY <2>2, <3>1, <3>2, <3>3, <3>4 DEF Ordered
  <2> QED
    BY <2>3, <2>5 DEF Ascending
<1> QED
  BY <1>1, <1>2

LEMMA InsertEntryAscending == ASSUME IInv, Ascending, NEW t \in Tx, InsertEntry(t) PROVE Ascending'
<1>1. CASE End(t)
  BY <1>1, EndAscending
<1>2. CASE ~End(t)
  <2>1. /\ todo[t] # <<>> /\ "mechanic" \in DOMAIN Head(todo[t])
        /\ todo'[t] = Tail(todo[t])
        /\ \A u \in Tx \ {t} : work'[u] = work[u] /\ todo'[u] = todo[u]
    BY <1>2 DEF InsertEntry, IInv, Types
  <2>2. OnePunch(todo[t])
    <3>1. Ordered(work[t], todo[t])
      BY DEF Ascending
    <3> QED
      BY <2>1, <3>1, MovementsFirst DEF Ordered
  <2>3. todo'[t] = <<>>
    BY <2>1, <2>2 DEF OnePunch
  <2> QED
    BY <2>1, <2>3, EmptyOrdered DEF Ascending
<1> QED
  BY <1>1, <1>2

LEMMA NextAscending == IInv /\ Ascending /\ [Next]_vars => Ascending'
<1> SUFFICES ASSUME IInv, Ascending, [Next]_vars PROVE Ascending'
  OBVIOUS
<1>1. CASE UNCHANGED vars
  BY <1>1 DEF Ascending, vars
<1>2. ASSUME NEW t \in Tx, Commit(t) \/ Rollback(t) PROVE Ascending'
  BY <1>2, EndAscending DEF Commit, Rollback
<1> QED
  BY <1>1, <1>2, RequestAscending, MoveStockAscending, InsertEntryAscending DEF Next, Proceed

(* Who is waited for has nothing to go, or waits for a row that sorts after.  *)
LEMMA WaitsAscend ==
    ASSUME Ascending, NEW t \in Tx, NEW u \in Tx, waitsFor(t, u), todo[u] # <<>>,
           NEW v \in Tx, waitsFor(u, v)
    PROVE  /\ Head(todo[t]).row \in Rows
           /\ Head(todo[u]).row \in Rows
           /\ Head(todo[t]).row < Head(todo[u]).row
<1>1. Ordered(work[t], todo[t]) /\ Ordered(work[u], todo[u])
  BY DEF Ascending
<1>2. DOMAIN work[u].entry = {}
  BY <1>1 DEF Ordered
<1>3. "row" \in DOMAIN Head(todo[t]) /\ Head(todo[t]).row \in DOMAIN work[u].level
  BY <1>2 DEF waitsFor
<1>4. OneMovement(work[u], todo[u])
  BY <1>1, <1>3 DEF Ordered
<1>5. Head(todo[u]).row \in Rows /\ Head(todo[t]).row < Head(todo[u]).row
  BY <1>3, <1>4 DEF OneMovement, Move
<1>6. Head(todo[t]).row \in Rows
  <2>1. todo[t] # <<>>
    BY DEF waitsFor
  <2> QED
    BY <1>1, <1>3, <2>1, PunchFirst, MovementsFirst DEF Ordered
<1> QED
  BY <1>5, <1>6

LEMMA AscendingNoCircle == Ascending => NoCircle
<1> SUFFICES ASSUME Ascending, NEW D \in SUBSET Tx, D # {}, \A t \in D : \E u \in D : waitsFor(t, u)
             PROVE  FALSE
  BY DEF NoCircle
<1> DEFINE next(t) == Head(todo[t]).row
           H == {next(t) : t \in D}
<1>1. ASSUME NEW t \in D
      PROVE  next(t) \in Rows /\ \E u \in D : next(t) < next(u)
  <2>1. PICK u \in D : waitsFor(t, u)
    OBVIOUS
  <2>2. PICK v \in D : waitsFor(u, v)
    OBVIOUS
  <2>3. todo[u] # <<>>
    BY <2>2 DEF waitsFor
  <2> QED
    BY <2>1, <2>2, <2>3, WaitsAscend
<1> HIDE DEF next
<1>2. H \subseteq Rows /\ H # {}
  BY <1>1
<1>3. IsFiniteSet(H) /\ H \subseteq Nat
  <2>1. H \in SUBSET Rows
    BY <1>2
  <2> QED
    BY <1>2, <2>1, StockAssumption, FS_Subset
<1>4. PICK k \in H : \A j \in H : j <= k
  BY <1>2, <1>3, LargestNumber
<1>5. PICK t \in D, u \in D : k = next(t) /\ k < next(u) /\ next(u) \in H
  BY <1>1
<1>6. next(u) <= k /\ next(u) \in Nat /\ k \in Nat
  BY <1>3, <1>4, <1>5
<1> QED
  BY <1>5, <1>6

(* NobodyWaitsInACircle: among any set of transactions there is one that      *)
(* waits for none of them, so no set of requests deadlocks: transfer locks    *)
(* the row that sorts first before the other, every other request needs one   *)
(* row, and clockOn's insert comes when it holds no row another can wait for. *)
THEOREM NobodyWaitsInACircle == Spec => []NoCircle
<1>1. Init => Ascending
  BY DEF Init, Ascending, Ordered
<1> QED
  BY <1>1, SpecIInv, NextAscending, AscendingNoCircle, PTL DEF Spec

-----------------------------------------------------------------------------
(* The queue of the tablets that replay these operations (OfflineSync), for   *)
(* any number of tabs, requests and mutations.                                *)
(*                                                                            *)
(* InOrder rests on NoneSkipped: a request takes the whole queue along, so    *)
(* that what the tablet still holds of what is older than a request's next    *)
(* mutation has been applied.  RepeatHasCause rests on a mutation being at    *)
(* hand in one request at a time, with no record of it yet.                   *)

(* A flushing tab waits for one request at most. *)
OneRequest ==
    \A r, s \in Slots : client[r] = client[s] /\ client[r] # NoTab => r = s

TypeInv == SyncTypeOK /\ OneRequest

(* Each mutation is queued once. *)
QueuedOnce ==
    /\ queued \in Seq(Mutations)
    /\ \A i, j \in 1 .. Len(queued) : queued[i] = queued[j] => i = j

(* A sequence of queued mutations, in the order they were queued. *)
InQueueOrder(q) ==
    /\ \A i \in 1 .. Len(q) : \E k \in 1 .. Len(queued) : queued[k] = q[i]
    /\ \A i, j \in 1 .. Len(q) : i < j => before(q[i], q[j])

(* m is in the sequence q. *)
Listed(q, m) == \E i \in 1 .. Len(q) : q[i] = m

(* What the tablet still holds, a request has yet to apply, has applied, or   *)
(* it came later than all the request carries.                               *)
NoneSkipped ==
    \A s \in Slots : \A m \in Mutations : Listed(store, m) =>
        \/ m \in applied
        \/ Listed(rest[s], m)
        \/ \A i \in 1 .. Len(rest[s]) : before(rest[s][i], m)

(* A mutation is recorded as applied after it was, and applied after it was   *)
(* queued.                                                                    *)
RecordFollows ==
    /\ seen \subseteq applied
    /\ \A m \in applied : Listed(queued, m)
    /\ \A s \in Slots : phase[s] = "record" => Head(rest[s]) \in applied

OrderInv ==
    /\ TypeInv
    /\ QueuedOnce
    /\ InQueueOrder(store)
    /\ \A s \in Slots : InQueueOrder(rest[s])
    /\ NoneSkipped
    /\ RecordFollows
    /\ InOrder

(* But for a race: one request at a time is at a mutation, it is not recorded *)
(* yet, and an effect that was had is recorded or about to be.                *)
OneAtHand ==
    \A m \in Mutations \ raced :
        /\ \A r, s \in Slots : atHand(r, m) /\ atHand(s, m) => r = s
        /\ \A s \in Slots : atHand(s, m) => m \notin seen
EffectRecorded ==
    \A m \in Mutations \ (raced \cup unrecorded) :
        /\ effects[m] \in {0, 1}
        /\ effects[m] = 1 => m \in seen \/ \E s \in Slots : phase[s] = "record" /\ Head(rest[s]) = m

RepeatInv == TypeInv /\ OneAtHand /\ EffectRecorded

-----------------------------------------------------------------------------
(* Nothing is queued or sent at first. *)
LEMMA InitTypeInv == SyncInit => TypeInv
<1> SUFFICES ASSUME SyncInit PROVE TypeInv
  OBVIOUS
<1>1. <<>> \in Seq(Mutations) /\ 0 \in Nat
  OBVIOUS
<1>2. store \in Seq(Mutations) /\ rest \in [Slots -> Seq(Mutations)] /\ effects \in [Mutations -> Nat]
  BY <1>1 DEF SyncInit
<1>3. \A s \in Slots : phase[s] = "free" /\ client[s] = NoTab
  BY DEF SyncInit
<1> QED
  BY <1>2, <1>3 DEF SyncInit, TypeInv, SyncTypeOK, OneRequest

(* A request is sent by a tab that waits for none. *)
LEMMA SendTyped ==
    ASSUME TypeInv, NEW t \in Tabs, t \notin flushing, NEW q \in Seq(Mutations), q # <<>>, Send(t, q)
    PROVE  /\ flushing' \subseteq Tabs
           /\ client' \in [Slots -> Tabs \cup {NoTab}]
           /\ rest' \in [Slots -> Seq(Mutations)]
           /\ phase' \in [Slots -> {"free", "check", "dispatch", "record", "ok", "failed"}]
           /\ \A s \in Slots : phase'[s] \in {"check", "dispatch", "record"} => rest'[s] # <<>>
           /\ \A s \in Slots : client'[s] # NoTab => client'[s] \in flushing'
           /\ OneRequest'
<1>1. PICK s \in Slots :
         /\ phase[s] = "free"
         /\ flushing' = flushing \cup {t}
         /\ client' = [client EXCEPT ![s] = t]
         /\ rest' = [rest EXCEPT ![s] = q]
         /\ phase' = [phase EXCEPT ![s] = "check"]
  BY DEF Send, freeSlots
<1> QED
  BY <1>1 DEF TypeInv, SyncTypeOK, OneRequest

(* One more in the queue, sent at once or not. *)
LEMMA EnqueueTyped ==
    ASSUME TypeInv, NEW t \in Tabs, NEW m \in Mutations, Enqueue(t, m)
    PROVE  TypeInv'
<1>1. /\ store \in Seq(Mutations) /\ store' = Append(store, m)
      /\ store' \in Seq(Mutations) /\ store' # <<>>
  <2>1. store \in Seq(Mutations) /\ store' = Append(store, m)
    BY DEF Enqueue, TypeInv, SyncTypeOK
  <2>2. Append(store, m) \in Seq(Mutations) /\ Len(Append(store, m)) = Len(store) + 1 /\ Len(store) \in Nat
    BY <2>1
  <2>3. Append(store, m) # <<>>
    BY <2>2
  <2> QED
    BY <2>1, <2>2, <2>3
<1>2. /\ seen' \subseteq Mutations /\ status' \in {"in_progress", "ready"}
      /\ clocked' \in BOOLEAN /\ effects' \in [Mutations -> Nat]
  BY DEF Enqueue, TypeInv, SyncTypeOK, job
<1>3. CASE t \notin flushing /\ Send(t, store')
  <2>1. PICK q : q = store'
    OBVIOUS
  <2>2. q \in Seq(Mutations) /\ q # <<>> /\ Send(t, q)
    BY <1>1, <1>3, <2>1
  <2>3. /\ flushing' \subseteq Tabs
        /\ client' \in [Slots -> Tabs \cup {NoTab}]
        /\ rest' \in [Slots -> Seq(Mutations)]
        /\ phase' \in [Slots -> {"free", "check", "dispatch", "record", "ok", "failed"}]
        /\ \A s \in Slots : phase'[s] \in {"check", "dispatch", "record"} => rest'[s] # <<>>
        /\ \A s \in Slots : client'[s] # NoTab => client'[s] \in flushing'
        /\ OneRequest'
    BY <1>3, <2>2, SendTyped
  <2> QED
    BY <1>1, <1>2, <2>3 DEF TypeInv, SyncTypeOK
<1>4. CASE UNCHANGED <<flushing, requests>>
  BY <1>1, <1>2, <1>4 DEF TypeInv, SyncTypeOK, OneRequest, requests
<1> QED
  BY <1>3, <1>4 DEF Enqueue

(* The queue is sent. *)
LEMMA FlushTyped ==
    ASSUME TypeInv, NEW t \in Tabs, Flush(t)
    PROVE  TypeInv'
<1>1. /\ flushing' \subseteq Tabs
      /\ client' \in [Slots -> Tabs \cup {NoTab}]
      /\ rest' \in [Slots -> Seq(Mutations)]
      /\ phase' \in [Slots -> {"free", "check", "dispatch", "record", "ok", "failed"}]
      /\ \A s \in Slots : phase'[s] \in {"check", "dispatch", "record"} => rest'[s] # <<>>
      /\ \A s \in Slots : client'[s] # NoTab => client'[s] \in flushing'
      /\ OneRequest'
  <2>1. store \in Seq(Mutations) /\ store # <<>> /\ t \notin flushing /\ Send(t, store)
    BY DEF Flush, TypeInv, SyncTypeOK
  <2>2. PICK q : q = store
    OBVIOUS
  <2>3. q \in Seq(Mutations) /\ q # <<>> /\ Send(t, q)
    BY <2>1, <2>2
  <2> QED
    BY <2>1, <2>3, SendTyped
<1> QED
  BY <1>1 DEF Flush, TypeInv, SyncTypeOK, job, history

(* On to the next mutation: there is one, or the request is through. *)
LEMMA AdvanceTyped ==
    ASSUME TypeInv, NEW s \in Slots, phase[s] \in {"check", "record"}, Advance(s)
    PROVE  /\ rest' \in [Slots -> Seq(Mutations)]
           /\ phase' \in [Slots -> {"free", "check", "dispatch", "record", "ok", "failed"}]
           /\ \A r \in Slots : phase'[r] \in {"check", "dispatch", "record"} => rest'[r] # <<>>
<1>1. rest[s] \in Seq(Mutations) /\ rest[s] # <<>>
  BY DEF TypeInv, SyncTypeOK
<1>2. /\ Tail(rest[s]) \in Seq(Mutations)
      /\ Len(rest[s]) # 1 => Tail(rest[s]) # <<>>
  <2>1. Tail(rest[s]) \in Seq(Mutations) /\ Len(Tail(rest[s])) = Len(rest[s]) - 1 /\ Len(rest[s]) \in Nat
    BY <1>1
  <2>2. Len(rest[s]) >= 1
    BY <1>1
  <2>3. Len(rest[s]) # 1 => Len(Tail(rest[s])) # 0
    BY <2>1, <2>2
  <2>4. Len(<<>>) = 0
    OBVIOUS
  <2> QED
    BY <2>1, <2>3, <2>4, Zenon
<1>3. /\ rest' = [rest EXCEPT ![s] = Tail(rest[s])]
      /\ phase' = [phase EXCEPT ![s] = IF Len(rest[s]) = 1 THEN "ok" ELSE "check"]
  BY DEF Advance
<1> QED
  BY <1>2, <1>3 DEF TypeInv, SyncTypeOK

(* replay at work. *)
LEMMA ServeTyped ==
    ASSUME TypeInv, NEW s \in Slots, Check(s) \/ Dispatch(s) \/ Record(s) \/ ServerFails(s)
    PROVE  TypeInv'
<1>1. CASE Check(s)
  <2>1. /\ rest' \in [Slots -> Seq(Mutations)]
        /\ phase' \in [Slots -> {"free", "check", "dispatch", "record", "ok", "failed"}]
        /\ \A r \in Slots : phase'[r] \in {"check", "dispatch", "record"} => rest'[r] # <<>>
    <3>1. CASE Head(rest[s]) \in seen
      BY <1>1, <3>1, AdvanceTyped DEF Check
    <3>2. CASE Head(rest[s]) \notin seen
      BY <1>1, <3>2 DEF Check, TypeInv, SyncTypeOK
    <3> QED
      BY <3>1, <3>2
  <2> QED
    BY <1>1, <2>1 DEF Check, TypeInv, SyncTypeOK, OneRequest, device, job
<1>2. CASE Dispatch(s)
  <2>1. rest[s] \in Seq(Mutations) /\ rest[s] # <<>>
    BY <1>2 DEF Dispatch, TypeInv, SyncTypeOK
  <2>2. PICK m : m = Head(rest[s])
    OBVIOUS
  <2>3. m \in Mutations
    BY <2>1, <2>2
  <2>4. /\ status' \in {"in_progress", "ready"} /\ clocked' \in BOOLEAN
        /\ effects' \in [Mutations -> Nat]
    <3>1. CASE UNCHANGED <<job, effects>>
      BY <3>1 DEF TypeInv, SyncTypeOK, job
    <3>2. CASE perform(m) /\ effects' = [effects EXCEPT ![m] = @ + 1]
      <4>1. effects' \in [Mutations -> Nat]
        BY <3>2, <2>3 DEF TypeInv, SyncTypeOK
      <4>2. status' \in {"in_progress", "ready"}
        BY <3>2 DEF perform, TypeInv, SyncTypeOK
      <4>3. clocked' = clocked \/ clocked' = (kind[m] = "clock_on")
        BY <3>2, Zenon DEF perform
      <4>4. clocked \in BOOLEAN /\ (kind[m] = "clock_on") \in BOOLEAN
        BY Zenon DEF TypeInv, SyncTypeOK
      <4>5. clocked' \in BOOLEAN
        BY <4>3, <4>4, Zenon
      <4> QED
        BY <4>1, <4>2, <4>5
    <3> QED
      BY <1>2, <2>2, <3>1, <3>2 DEF Dispatch
  <2>5. phase' = [phase EXCEPT ![s] = "failed"] \/ phase' = [phase EXCEPT ![s] = "record"]
    BY <1>2 DEF Dispatch
  <2> QED
    BY <1>2, <2>1, <2>4, <2>5 DEF Dispatch, TypeInv, SyncTypeOK, OneRequest, device
<1>3. CASE Record(s)
  <2>1. /\ rest' \in [Slots -> Seq(Mutations)]
        /\ phase' \in [Slots -> {"free", "check", "dispatch", "record", "ok", "failed"}]
        /\ \A r \in Slots : phase'[r] \in {"check", "dispatch", "record"} => rest'[r] # <<>>
    BY <1>3, AdvanceTyped DEF Record
  <2>2. Head(rest[s]) \in Mutations
    <3>1. rest[s] \in Seq(Mutations) /\ rest[s] # <<>>
      BY <1>3 DEF Record, TypeInv, SyncTypeOK
    <3> QED
      BY <3>1
  <2> QED
    BY <1>3, <2>1, <2>2 DEF Record, TypeInv, SyncTypeOK, OneRequest, device, job, history
<1>4. CASE ServerFails(s)
  BY <1>4 DEF ServerFails, TypeInv, SyncTypeOK, OneRequest, device, job
<1> QED
  BY <1>1, <1>2, <1>3, <1>4

(* The end of a request, or of its connection: its tab waits no more. *)
LEMMA AnswerTyped ==
    ASSUME TypeInv, NEW s \in Slots, Succeed(s) \/ Fail(s) \/ Drop(s) \/ LoseConnection(s)
    PROVE  TypeInv'
<1>1. client' = [client EXCEPT ![s] = NoTab]
  BY DEF Succeed, Fail, Drop, LoseConnection, Free
<1>2. /\ \/ rest' = [rest EXCEPT ![s] = <<>>] /\ phase' = [phase EXCEPT ![s] = "free"]
         \/ rest' = rest /\ phase' = phase
      /\ store' = store \/ store' = <<>>
  <2>1. CASE Succeed(s)
    BY <2>1 DEF Succeed, Free
  <2>2. CASE Fail(s)
    BY <2>2 DEF Fail, Free
  <2>3. CASE Drop(s)
    BY <2>3 DEF Drop, Free, device
  <2>4. CASE LoseConnection(s)
    BY <2>4 DEF LoseConnection
  <2> QED
    BY <2>1, <2>2, <2>3, <2>4
<1>6. UNCHANGED <<seen, job, history>>
  BY DEF Succeed, Fail, Drop, LoseConnection
<1>7. /\ store' \in Seq(Mutations) /\ seen' \subseteq Mutations
      /\ status' \in {"in_progress", "ready"} /\ effects' \in [Mutations -> Nat]
  <2>1. <<>> \in Seq(Mutations)
    OBVIOUS
  <2> QED
    BY <1>2, <1>6, <2>1 DEF job, history, TypeInv, SyncTypeOK
<1>8. clocked' \in BOOLEAN
  BY <1>6 DEF job, TypeInv, SyncTypeOK
<1>3. \/ client[s] # NoTab /\ flushing' = flushing \ {client[s]}
      \/ client[s] = NoTab /\ flushing' = flushing
  BY DEF Succeed, Fail, Drop, LoseConnection, Settle, device
<1>4. /\ client' \in [Slots -> Tabs \cup {NoTab}] /\ flushing' \subseteq Tabs
      /\ \A r \in Slots : client'[r] # NoTab => client'[r] \in flushing'
      /\ OneRequest'
  BY <1>1, <1>3 DEF TypeInv, SyncTypeOK, OneRequest
<1>5. /\ rest' \in [Slots -> Seq(Mutations)]
      /\ phase' \in [Slots -> {"free", "check", "dispatch", "record", "ok", "failed"}]
      /\ \A r \in Slots : phase'[r] \in {"check", "dispatch", "record"} => rest'[r] # <<>>
  <2>1. <<>> \in Seq(Mutations)
    OBVIOUS
  <2>2. CASE rest' = [rest EXCEPT ![s] = <<>>] /\ phase' = [phase EXCEPT ![s] = "free"]
    BY <2>1, <2>2 DEF TypeInv, SyncTypeOK
  <2>3. CASE rest' = rest /\ phase' = phase
    BY <2>3 DEF TypeInv, SyncTypeOK
  <2> QED
    BY <1>2, <2>2, <2>3
<1> QED
  BY <1>4, <1>5, <1>7, <1>8 DEF TypeInv, SyncTypeOK

(* Every step keeps the types. *)
LEMMA NextTypeInv == TypeInv /\ [SyncNext]_syncVars => TypeInv'
<1> SUFFICES ASSUME TypeInv, [SyncNext]_syncVars PROVE TypeInv'
  OBVIOUS
<1>1. CASE UNCHANGED syncVars
  BY <1>1 DEF syncVars, device, requests, job, history, TypeInv, SyncTypeOK, OneRequest
<1>2. CASE Office
  BY <1>2 DEF Office, device, requests, history, TypeInv, SyncTypeOK, OneRequest
<1> QED
  BY <1>1, <1>2, EnqueueTyped, FlushTyped, ServeTyped, AnswerTyped DEF SyncNext, Serve

(* Type correctness: a request under way has a mutation to apply, and whoever *)
(* waits for an answer is a tab that is flushing (flush, replay).             *)
THEOREM SyncTypeCorrect == SyncSpec => []SyncTypeOK
<1>1. TypeInv => SyncTypeOK
  BY DEF TypeInv
<1> QED
  BY InitTypeInv, NextTypeInv, <1>1, PTL DEF SyncSpec

-----------------------------------------------------------------------------
(* A mutation's position is where it was queued. *)
LEMMA PositionOf ==
    ASSUME QueuedOnce, NEW k \in 1 .. Len(queued)
    PROVE  position(queued[k]) = k
<1>1. k \in DOMAIN queued
  BY DEF QueuedOnce
<1>2. \A i \in DOMAIN queued : queued[i] = queued[k] => i = k
  BY DEF QueuedOnce
<1> QED
  BY <1>1, <1>2 DEF position

(* Of two queued mutations one is before the other, and not both. *)
LEMMA BeforeOrders ==
    ASSUME QueuedOnce, NEW m, NEW n, Listed(queued, m), Listed(queued, n)
    PROVE  /\ before(m, n) => ~before(n, m)
           /\ m # n => before(m, n) \/ before(n, m)
           /\ before(m, n) => m # n
<1>1. PICK i \in 1 .. Len(queued) : queued[i] = m
  BY DEF Listed
<1>2. PICK j \in 1 .. Len(queued) : queued[j] = n
  BY DEF Listed
<1>3. position(m) = i /\ position(n) = j
  BY <1>1, <1>2, PositionOf
<1> QED
  BY <1>1, <1>2, <1>3 DEF before

(* One more is queued: it comes after all the others, whose order stays. *)
LEMMA OneMoreQueued ==
    ASSUME QueuedOnce, NEW m \in Mutations, m \notin ToSet(queued), queued' = Append(queued, m)
    PROVE  /\ QueuedOnce'
           /\ \A n : Listed(queued, n) => Listed(queued, n)'
           /\ Listed(queued, m)' /\ ~Listed(queued, m)
           /\ \A l : \A n : Listed(queued, l) /\ Listed(queued, n) => before(l, n)' = before(l, n)
           /\ \A n : Listed(queued, n) => before(n, m)' /\ ~before(m, n)'
<1>1. /\ queued \in Seq(Mutations) /\ Len(queued) \in Nat
      /\ queued' \in Seq(Mutations) /\ Len(queued') = Len(queued) + 1
      /\ queued'[Len(queued) + 1] = m
      /\ \A i \in 1 .. Len(queued) : queued'[i] = queued[i]
  BY DEF QueuedOnce
<1>2. \A i \in 1 .. Len(queued) : queued[i] # m
  BY <1>1 DEF ToSet
<1>3. QueuedOnce'
  <2> SUFFICES ASSUME NEW i \in 1 .. Len(queued'), NEW j \in 1 .. Len(queued'), queued'[i] = queued'[j]
               PROVE  i = j
    BY <1>1 DEF QueuedOnce
  <2>1. i \in 1 .. Len(queued) \/ i = Len(queued) + 1
    BY <1>1
  <2>2. j \in 1 .. Len(queued) \/ j = Len(queued) + 1
    BY <1>1
  <2> QED
    BY <1>1, <1>2, <2>1, <2>2 DEF QueuedOnce
<1>4. Len(queued) + 1 \in 1 .. Len(queued') /\ \A i \in 1 .. Len(queued) : i \in 1 .. Len(queued')
  BY <1>1
<1>5. ASSUME NEW n, NEW k \in 1 .. Len(queued'), queued'[k] = n
      PROVE  position(n)' = k
  <2>1. k \in DOMAIN queued'
    BY <1>1
  <2>2. \A i \in DOMAIN queued' : queued'[i] = queued'[k] => i = k
    BY <1>3, <1>1 DEF QueuedOnce
  <2> QED
    BY <2>1, <2>2, <1>5 DEF position
<1>6. ASSUME NEW n, Listed(queued, n)
      PROVE  \E k \in 1 .. Len(queued) : n = queued[k] /\ position(n) = k /\ position(n)' = k
  <2>1. PICK k \in 1 .. Len(queued) : queued[k] = n
    BY <1>6 DEF Listed
  <2>2. position(n) = k
    BY <2>1, PositionOf
  <2>3. k \in 1 .. Len(queued') /\ queued'[k] = n
    BY <2>1, <1>1, <1>4
  <2>4. position(n)' = k
    BY <2>3, <1>5
  <2> QED
    BY <2>1, <2>2, <2>4
<1>7. position(m)' = Len(queued) + 1
  BY <1>1, <1>4, <1>5
<1>8. \A l : \A n : Listed(queued, l) /\ Listed(queued, n) => before(l, n)' = before(l, n)
  BY <1>6 DEF before
<1>9. \A n : Listed(queued, n) => before(n, m)' /\ ~before(m, n)'
  BY <1>6, <1>7, <1>1 DEF before
<1> QED
  BY <1>1, <1>2, <1>3, <1>4, <1>8, <1>9 DEF Listed

-----------------------------------------------------------------------------
(* What is left of a request that has done with its first mutation. *)
LEMMA TailOf ==
    ASSUME NEW q \in Seq(Mutations), q # <<>>
    PROVE  /\ Head(q) \in Mutations /\ Listed(q, Head(q)) /\ Tail(q) \in Seq(Mutations)
           /\ InQueueOrder(q) => /\ InQueueOrder(Tail(q))
                                 /\ \A i \in 1 .. Len(Tail(q)) : before(Head(q), Tail(q)[i])
           /\ \A m : Listed(q, m) => m = Head(q) \/ Listed(Tail(q), m)
           /\ \A i \in 1 .. Len(Tail(q)) : Listed(q, Tail(q)[i])
<1>1. /\ Len(q) \in Nat /\ Len(q) >= 1 /\ Len(Tail(q)) = Len(q) - 1 /\ Head(q) = q[1]
      /\ Head(q) \in Mutations /\ Tail(q) \in Seq(Mutations)
  OBVIOUS
<1>2. \A i \in 1 .. Len(q) - 1 : Tail(q)[i] = q[i + 1]
  OBVIOUS
<1>3. \A i \in 1 .. Len(q) - 1 : i + 1 \in 1 .. Len(q) /\ 1 < i + 1
  BY <1>1
<1>4. 1 \in 1 .. Len(q)
  BY <1>1
<1>5. ASSUME InQueueOrder(q)
      PROVE  InQueueOrder(Tail(q)) /\ \A i \in 1 .. Len(Tail(q)) : before(Head(q), Tail(q)[i])
  <2>1. \A i, j \in 1 .. Len(q) - 1 : i < j => i + 1 < j + 1
    BY <1>1
  <2> QED
    BY <1>1, <1>2, <1>3, <1>4, <1>5, <2>1 DEF InQueueOrder
<1>6. ASSUME NEW m, Listed(q, m) PROVE m = Head(q) \/ Listed(Tail(q), m)
  <2>1. PICK i \in 1 .. Len(q) : q[i] = m
    BY <1>6 DEF Listed
  <2>2. CASE i = 1
    BY <2>1, <2>2, <1>1
  <2>3. CASE i # 1
    <3>1. i - 1 \in 1 .. Len(q) - 1 /\ (i - 1) + 1 = i
      BY <2>3, <1>1
    <3>2. Tail(q)[i - 1] = m
      BY <3>1, <2>1, <1>2
    <3> QED
      BY <3>1, <3>2, <1>1 DEF Listed
  <2> QED
    BY <2>2, <2>3
<1>7. Listed(q, Head(q)) /\ \A i \in 1 .. Len(Tail(q)) : Listed(q, Tail(q)[i])
  BY <1>1, <1>2, <1>3, <1>4 DEF Listed
<1> QED
  BY <1>1, <1>5, <1>6, <1>7

(* Where nothing is queued or sent, the queue and the requests stay in order, *)
(* and none skips what it should not.                                         *)
LEMMA NothingSent ==
    ASSUME OrderInv, queued' = queued, applied \subseteq applied', store' = store \/ store' = <<>>,
           \A s \in Slots : \/ rest'[s] = rest[s]
                            \/ rest'[s] = <<>>
                            \/ (rest[s] # <<>> /\ rest'[s] = Tail(rest[s]) /\ Head(rest[s]) \in applied')
    PROVE  QueuedOnce' /\ InQueueOrder(store)' /\ (\A s \in Slots : InQueueOrder(rest[s])') /\ NoneSkipped'
<1>1. \A l, n : before(l, n)' = before(l, n)
  BY DEF before, position
<1>2. QueuedOnce'
  BY DEF OrderInv, QueuedOnce
<1>3. ASSUME NEW q, NEW p, q = p, InQueueOrder(p) PROVE InQueueOrder(q)'
  BY <1>1, <1>3 DEF InQueueOrder
<1>4. Len(<<>>) = 0 /\ InQueueOrder(<<>>) /\ \A m : ~Listed(<<>>, m)
  BY DEF InQueueOrder, Listed
<1>5. InQueueOrder(store)'
  <2>1. PICK q : q = store'
    OBVIOUS
  <2>2. InQueueOrder(q)
    BY <2>1, <1>4 DEF OrderInv
  <2> QED
    BY <2>1, <2>2, <1>1 DEF InQueueOrder
<1>6. ASSUME NEW s \in Slots PROVE InQueueOrder(rest[s])'
  <2>1. PICK q : q = rest'[s]
    OBVIOUS
  <2>2. InQueueOrder(rest[s]) /\ rest[s] \in Seq(Mutations)
    BY DEF OrderInv, TypeInv, SyncTypeOK
  <2>3. InQueueOrder(q)
    BY <2>1, <2>2, <1>4, TailOf
  <2> QED
    BY <2>1, <2>3, <1>1 DEF InQueueOrder
<1>7. NoneSkipped'
  <2> SUFFICES ASSUME NEW s \in Slots, NEW m \in Mutations, Listed(store', m), m \notin applied'
               PROVE  Listed(rest'[s], m) \/ \A i \in 1 .. Len(rest'[s]) : before(rest'[s][i], m)
    BY <1>1 DEF NoneSkipped, Listed
  <2>1. Listed(store, m) /\ m \notin applied
    BY <1>4
  <2>2. Listed(rest[s], m) \/ \A i \in 1 .. Len(rest[s]) : before(rest[s][i], m)
    BY <2>1 DEF OrderInv, NoneSkipped
  <2>3. CASE rest'[s] = rest[s]
    BY <2>2, <2>3
  <2>4. CASE rest'[s] = <<>>
    BY <2>4, <1>4
  <2>5. CASE rest[s] # <<>> /\ rest'[s] = Tail(rest[s]) /\ Head(rest[s]) \in applied'
    <3>1. rest[s] \in Seq(Mutations)
      BY DEF OrderInv, TypeInv, SyncTypeOK
    <3>2. PICK q \in Seq(Mutations) : q = rest[s]
      BY <3>1
    <3>3. /\ Listed(q, m) => Listed(Tail(q), m)
          /\ \A i \in 1 .. Len(Tail(q)) : Listed(q, Tail(q)[i])
      BY <2>5, <3>2, TailOf
    <3> QED
      BY <2>2, <2>5, <3>2, <3>3 DEF Listed
  <2> QED
    BY <2>3, <2>4, <2>5
<1> QED
  BY <1>2, <1>5, <1>6, <1>7

(* A request is sent with the whole of the queue, to which one more may have  *)
(* been added.                                                                *)
LEMMA AllSent ==
    ASSUME OrderInv, NEW t \in Tabs, NEW m \in Mutations, Enqueue(t, m)
    PROVE  QueuedOnce' /\ InQueueOrder(store)' /\ (\A s \in Slots : InQueueOrder(rest[s])') /\ NoneSkipped'
<1>1. /\ QueuedOnce'
      /\ \A n : Listed(queued, n) => Listed(queued, n)'
      /\ Listed(queued, m)' /\ ~Listed(queued, m)
      /\ \A l : \A n : Listed(queued, l) /\ Listed(queued, n) => before(l, n)' = before(l, n)
      /\ \A n : Listed(queued, n) => before(n, m)'
  BY OneMoreQueued DEF Enqueue, OrderInv
<1>2. /\ store \in Seq(Mutations) /\ store' = Append(store, m) /\ Len(store) \in Nat
      /\ Len(store') = Len(store) + 1 /\ store'[Len(store) + 1] = m
      /\ \A i \in 1 .. Len(store) : store'[i] = store[i]
  <2>1. store \in Seq(Mutations) /\ store' = Append(store, m)
    BY DEF Enqueue, OrderInv, TypeInv, SyncTypeOK
  <2> QED
    BY <2>1
<1>3. ASSUME NEW q, InQueueOrder(q) PROVE InQueueOrder(q)'
  <2>1. \A i \in 1 .. Len(q) : Listed(queued, q[i])
    BY <1>3 DEF InQueueOrder, Listed
  <2>2. \A i \in 1 .. Len(q) : Listed(queued, q[i])'
    BY <2>1, <1>1
  <2>3. \A i, j \in 1 .. Len(q) : i < j => before(q[i], q[j])'
    BY <2>1, <1>1, <1>3 DEF InQueueOrder
  <2> QED
    BY <2>2, <2>3 DEF InQueueOrder, Listed
<1>4. InQueueOrder(store)'
  <2>1. \A i \in 1 .. Len(store) : Listed(queued, store[i])
    BY DEF OrderInv, InQueueOrder, Listed
  <2>2. \A i \in 1 .. Len(store') : i \in 1 .. Len(store) \/ i = Len(store) + 1
    BY <1>2
  <2>3. \A i \in 1 .. Len(store') : Listed(queued', store'[i])
    <3> SUFFICES ASSUME NEW i \in 1 .. Len(store') PROVE Listed(queued', store'[i])
      OBVIOUS
    <3>1. PICK n : n = store'[i]
      OBVIOUS
    <3>2. n = m \/ Listed(queued, n)
      BY <3>1, <2>1, <2>2, <1>2
    <3>3. Listed(queued, n)'
      BY <3>2, <1>1
    <3> QED
      BY <3>1, <3>3
  <2>4. ASSUME NEW i \in 1 .. Len(store'), NEW j \in 1 .. Len(store'), i < j
        PROVE  before(store[i], store[j])'
    <3>1. i \in 1 .. Len(store) /\ store'[i] = store[i]
      BY <2>4, <1>2
    <3>2. PICK n : n = store[i]
      OBVIOUS
    <3>3. Listed(queued, n)
      BY <3>1, <3>2, <2>1
    <3>4. CASE j \in 1 .. Len(store)
      <4>1. PICK p : p = store[j]
        OBVIOUS
      <4>2. before(n, p) /\ Listed(queued, p)
        BY <3>1, <3>2, <3>4, <4>1, <2>1, <2>4 DEF OrderInv, InQueueOrder
      <4>3. before(n, p)'
        BY <3>3, <4>2, <1>1
      <4>4. n = store'[i] /\ p = store'[j]
        BY <3>1, <3>2, <3>4, <4>1, <1>2
      <4> QED
        BY <4>3, <4>4
    <3>5. CASE j = Len(store) + 1
      <4>1. before(n, m)'
        BY <3>3, <1>1
      <4>2. n = store'[i] /\ m = store'[j]
        BY <3>1, <3>2, <3>5, <1>2
      <4> QED
        BY <4>1, <4>2
    <3> QED
      BY <2>2, <3>4, <3>5
  <2> QED
    BY <2>3, <2>4 DEF InQueueOrder, Listed
<1>5. ASSUME NEW s \in Slots PROVE rest'[s] = rest[s] \/ rest'[s] = store'
  <2>1. CASE Send(t, store')
    BY <2>1 DEF Send, OrderInv, TypeInv, SyncTypeOK
  <2>2. CASE UNCHANGED <<flushing, requests>>
    BY <2>2 DEF requests
  <2> QED
    BY <2>1, <2>2 DEF Enqueue
<1>6. ASSUME NEW s \in Slots PROVE InQueueOrder(rest[s])'
  <2>1. CASE rest'[s] = rest[s]
    <3>1. PICK q : q = rest[s]
      OBVIOUS
    <3>2. InQueueOrder(q)'
      BY <3>1, <1>3 DEF OrderInv
    <3> QED
      BY <3>1, <3>2, <2>1 DEF InQueueOrder
  <2>2. CASE rest'[s] = store'
    BY <2>2, <1>4 DEF InQueueOrder
  <2> QED
    BY <1>5, <2>1, <2>2
<1>7. NoneSkipped'
  <2> SUFFICES ASSUME NEW s \in Slots, NEW n \in Mutations, Listed(store', n), n \notin applied'
               PROVE  Listed(rest'[s], n) \/ \A i \in 1 .. Len(rest'[s]) : before(rest[s][i], n)'
    BY DEF NoneSkipped, Listed
  <2>1. applied' = applied
    BY DEF Enqueue
  <2>2. CASE rest'[s] = store'
    BY <2>2
  <2>3. CASE rest'[s] = rest[s]
    <3>1. PICK q : q = rest[s]
      OBVIOUS
    <3>2. \A i \in 1 .. Len(q) : Listed(queued, q[i])
      BY <3>1 DEF OrderInv, InQueueOrder, Listed
    <3>3. CASE n = m
      <4>1. \A i \in 1 .. Len(q) : before(q[i], n)'
        BY <3>2, <3>3, <1>1
      <4> QED
        BY <4>1, <3>1, <2>3
    <3>4. CASE n # m
      <4>1. Listed(store, n)
        BY <3>4, <1>2 DEF Listed
      <4>2. Listed(queued, n)
        BY <4>1 DEF OrderInv, InQueueOrder, Listed
      <4>3. Listed(q, n) \/ \A i \in 1 .. Len(q) : before(q[i], n)
        BY <4>1, <3>1, <2>1 DEF OrderInv, NoneSkipped
      <4>4. Listed(q, n) \/ \A i \in 1 .. Len(q) : before(q[i], n)'
        BY <4>2, <4>3, <3>2, <1>1
      <4> QED
        BY <4>4, <3>1, <2>3
    <3> QED
      BY <3>3, <3>4
  <2> QED
    BY <1>5, <2>2, <2>3
<1> QED
  BY <1>1, <1>4, <1>6, <1>7

(* A request is sent with the whole of the queue as it is. *)
LEMMA AllFlushed ==
    ASSUME OrderInv, NEW t \in Tabs, Flush(t)
    PROVE  QueuedOnce' /\ InQueueOrder(store)' /\ (\A s \in Slots : InQueueOrder(rest[s])') /\ NoneSkipped'
<1>1. UNCHANGED <<queued, store, applied>>
  BY DEF Flush, history
<1>2. \A l, n : before(l, n)' = before(l, n)
  BY <1>1 DEF before, position
<1>3. QueuedOnce' /\ InQueueOrder(store)'
  BY <1>1, <1>2 DEF OrderInv, QueuedOnce, InQueueOrder
<1>4. ASSUME NEW s \in Slots PROVE rest'[s] = rest[s] \/ rest'[s] = store
  BY DEF Flush, Send, OrderInv, TypeInv, SyncTypeOK
<1>5. ASSUME NEW s \in Slots PROVE InQueueOrder(rest[s])'
  BY <1>1, <1>2, <1>4 DEF OrderInv, InQueueOrder
<1>6. NoneSkipped'
  BY <1>1, <1>2, <1>4 DEF OrderInv, NoneSkipped, Listed
<1> QED
  BY <1>3, <1>5, <1>6

-----------------------------------------------------------------------------
(* InOrder, but for what is recorded: that was applied. *)
OlderApplied ==
    \A m \in Mutations, n \in applied : Listed(store, m) /\ m \notin applied => ~before(m, n)

(* The two say the same, as a recorded mutation was applied. *)
LEMMA OlderAppliedSuffices ==
    ASSUME store \in Seq(Mutations), seen \subseteq applied
    PROVE  OlderApplied <=> InOrder
<1>1. \A m : m \in ToSet(store) <=> m \in Mutations /\ Listed(store, m)
  BY DEF ToSet, Listed
<1> QED
  BY <1>1 DEF OlderApplied, InOrder

(* Nothing is applied at first. *)
LEMMA InitOrderInv == SyncInit => OrderInv
<1> SUFFICES ASSUME SyncInit PROVE OrderInv
  OBVIOUS
<1>1. Len(<<>>) = 0 /\ <<>> \in Seq(Mutations) /\ InQueueOrder(<<>>) /\ \A m : ~Listed(<<>>, m)
  BY DEF InQueueOrder, Listed
<1>2. store = <<>> /\ queued = <<>> /\ applied = {} /\ seen = {}
  BY DEF SyncInit
<1>3. \A s \in Slots : rest[s] = <<>> /\ phase[s] = "free"
  BY DEF SyncInit
<1>4. QueuedOnce
  BY <1>1, <1>2 DEF QueuedOnce
<1>5. InQueueOrder(store) /\ \A s \in Slots : InQueueOrder(rest[s])
  BY <1>1, <1>2, <1>3
<1>6. NoneSkipped
  BY <1>1, <1>2 DEF NoneSkipped
<1>7. RecordFollows /\ InOrder
  <2>1. \A m : m \notin applied /\ m \notin seen
    BY <1>2
  <2> QED
    BY <2>1, <1>3 DEF RecordFollows, InOrder
<1> QED
  BY <1>4, <1>5, <1>6, <1>7, InitTypeInv DEF OrderInv

(* A request that is at a mutation has one. *)
LEMMA AtWork ==
    ASSUME TypeInv, NEW s \in Slots, phase[s] \in {"check", "dispatch", "record"}
    PROVE  rest[s] \in Seq(Mutations) /\ rest[s] # <<>> /\ Head(rest[s]) \in Mutations
<1>1. rest[s] \in Seq(Mutations) /\ rest[s] # <<>>
  BY DEF TypeInv, SyncTypeOK
<1> QED
  BY <1>1

(* What the work-order service accepts is the oldest that was not. *)
LEMMA DispatchInOrder ==
    ASSUME OrderInv, NEW s \in Slots, Dispatch(s)
    PROVE  RecordFollows' /\ OlderApplied'
<1>1. PICK n : n = Head(rest[s])
  OBVIOUS
<1>2. rest[s] \in Seq(Mutations) /\ rest[s] # <<>> /\ n \in Mutations
  BY <1>1, AtWork DEF Dispatch, OrderInv
<1>3. /\ store' = store /\ queued' = queued /\ rest' = rest /\ seen' = seen
      /\ \/ applied' = applied /\ phase' = [phase EXCEPT ![s] = "failed"]
         \/ applied' = applied \cup {n} /\ phase' = [phase EXCEPT ![s] = "record"]
  BY <1>1 DEF Dispatch, device
<1>9. Listed(queued, n)
  <2>1. PICK q \in Seq(Mutations) : q = rest[s] /\ q # <<>>
    BY <1>2
  <2>2. InQueueOrder(q) /\ 1 \in 1 .. Len(q) /\ n = q[1]
    BY <2>1, <1>1 DEF OrderInv
  <2> QED
    BY <2>2 DEF InQueueOrder, Listed
<1>4. RecordFollows'
  <2>1. \A m \in applied' : Listed(queued, m)'
    BY <1>3, <1>9 DEF RecordFollows, OrderInv, Listed
  <2> QED
    BY <2>1, <1>1, <1>3 DEF RecordFollows, OrderInv, TypeInv, SyncTypeOK
<1>5. \A l, m : before(l, m)' = before(l, m)
  BY <1>3 DEF before, position
<1>6. OlderApplied
  BY OlderAppliedSuffices DEF OrderInv, TypeInv, SyncTypeOK, RecordFollows
<1>7. ASSUME NEW m \in Mutations, Listed(store, m), m \notin applied, m # n
      PROVE  ~before(m, n)
  <2>1. PICK q \in Seq(Mutations) : q = rest[s] /\ q # <<>>
    BY <1>2
  <2>2. InQueueOrder(q)
    BY <2>1 DEF OrderInv
  <2>3. Listed(queued, m) /\ \A i \in 1 .. Len(q) : Listed(queued, q[i])
    BY <1>7, <2>2 DEF OrderInv, InQueueOrder, Listed
  <2>4. 1 \in 1 .. Len(q) /\ n = q[1]
    BY <2>1, <1>1
  <2>5. Listed(queued, n)
    BY <2>3, <2>4
  <2>6. CASE Listed(q, m)
    <3>1. PICK i \in 1 .. Len(q) : q[i] = m
      BY <2>6 DEF Listed
    <3>2. 1 < i
      BY <3>1, <2>4, <1>7
    <3>3. before(n, m)
      BY <3>1, <3>2, <2>2, <2>4 DEF InQueueOrder
    <3> QED
      BY <3>3, <2>3, <2>5, BeforeOrders DEF OrderInv
  <2>7. CASE \A i \in 1 .. Len(q) : before(q[i], m)
    <3>1. before(n, m)
      BY <2>4, <2>7
    <3> QED
      BY <3>1, <2>3, <2>5, BeforeOrders DEF OrderInv
  <2> QED
    BY <1>7, <2>1, <2>6, <2>7 DEF OrderInv, NoneSkipped
<1>8. OlderApplied'
  BY <1>3, <1>5, <1>6, <1>7 DEF OlderApplied, Listed
<1> QED
  BY <1>4, <1>8

(* Every step keeps the order. *)
LEMMA NextOrderInv == OrderInv /\ [SyncNext]_syncVars => OrderInv'
<1> SUFFICES ASSUME OrderInv, [SyncNext]_syncVars PROVE OrderInv'
  OBVIOUS
<1>1. TypeInv'
  BY NextTypeInv DEF OrderInv
<1>2. store' \in Seq(Mutations) /\ rest' \in [Slots -> Seq(Mutations)]
  BY <1>1 DEF TypeInv, SyncTypeOK
<1> DEFINE Order == QueuedOnce /\ InQueueOrder(store) /\ (\A s \in Slots : InQueueOrder(rest[s])) /\ NoneSkipped
<1>3. Order' /\ RecordFollows' /\ OlderApplied' => OrderInv'
  <2>1. RecordFollows' => seen' \subseteq applied'
    BY DEF RecordFollows
  <2>2. RecordFollows' /\ OlderApplied' => InOrder'
    <3>1. \A m : m \in ToSet(store') <=> m \in Mutations /\ Listed(store', m)
      BY <1>2 DEF ToSet, Listed
    <3> QED
      BY <2>1, <3>1 DEF OlderApplied, InOrder, Listed
  <2> QED
    BY <1>1, <2>2 DEF OrderInv
<1>4. OlderApplied
  BY OlderAppliedSuffices DEF OrderInv, TypeInv, SyncTypeOK, RecordFollows
<1>5. ASSUME NEW t \in Tabs, NEW m \in Mutations, Enqueue(t, m) PROVE OrderInv'
  <2>1. Order'
    BY <1>5, AllSent
  <2>2. /\ QueuedOnce'
        /\ \A n : Listed(queued, n) => Listed(queued, n)'
        /\ Listed(queued, m)' /\ ~Listed(queued, m)
        /\ \A l : \A n : Listed(queued, l) /\ Listed(queued, n) => before(l, n)' = before(l, n)
        /\ \A n : Listed(queued, n) => before(n, m)' /\ ~before(m, n)'
    BY <1>5, OneMoreQueued DEF Enqueue, OrderInv
  <2>3. applied' = applied /\ seen' = seen /\ store' = Append(store, m) /\ store \in Seq(Mutations)
    BY <1>5 DEF Enqueue, OrderInv, TypeInv, SyncTypeOK
  <2>4. RecordFollows'
    <3>1. \A n \in applied' : Listed(queued, n)'
      BY <2>2, <2>3 DEF RecordFollows, OrderInv
    <3>2. ASSUME NEW s \in Slots, phase'[s] = "record" PROVE phase[s] = "record" /\ rest'[s] = rest[s]
      <4>1. CASE Send(t, store')
        BY <4>1, <3>2 DEF Send, freeSlots, OrderInv, TypeInv, SyncTypeOK
      <4>2. CASE UNCHANGED <<flushing, requests>>
        BY <4>2, <3>2 DEF requests
      <4> QED
        BY <1>5, <4>1, <4>2 DEF Enqueue
    <3> QED
      BY <2>3, <3>1, <3>2 DEF RecordFollows, OrderInv
  <2>5. OlderApplied'
    <3> SUFFICES ASSUME NEW l \in Mutations, NEW n \in applied, Listed(store', l), l \notin applied
                 PROVE  ~before(l, n)'
      BY <2>3 DEF OlderApplied, Listed
    <3>1. Listed(queued, n)
      BY DEF OrderInv, RecordFollows
    <3>2. CASE l = m
      BY <3>1, <3>2, <2>2
    <3>3. CASE l # m
      <4>1. Listed(store, l)
        BY <2>3, <3>3 DEF Listed
      <4>2. Listed(queued, l)
        BY <4>1 DEF OrderInv, InQueueOrder, Listed
      <4>3. ~before(l, n)
        BY <4>1, <1>4 DEF OlderApplied
      <4> QED
        BY <3>1, <4>2, <4>3, <2>2
    <3> QED
      BY <3>2, <3>3
  <2> QED
    BY <1>3, <2>1, <2>4, <2>5
<1>6. ASSUME UNCHANGED <<queued, applied>>, store' = store \/ store' = <<>>
      PROVE  OlderApplied'
  <2>1. \A l, n : before(l, n)' = before(l, n)
    BY <1>6 DEF before, position
  <2>2. \A l : Listed(store', l) => Listed(store, l)
    BY <1>6 DEF Listed
  <2> QED
    BY <1>4, <1>6, <2>1, <2>2 DEF OlderApplied, Listed
<1>7. ASSUME UNCHANGED <<queued, applied, seen>>,
             \A s \in Slots : phase'[s] = "record" => phase[s] = "record" /\ rest'[s] = rest[s]
      PROVE  RecordFollows'
  BY <1>7 DEF RecordFollows, OrderInv, Listed
<1>8. ASSUME NEW t \in Tabs, Flush(t) PROVE OrderInv'
  <2>1. Order'
    BY <1>8, AllFlushed
  <2>2. UNCHANGED <<queued, applied, seen, store>>
    BY <1>8 DEF Flush, history
  <2>3. \A s \in Slots : phase'[s] = "record" => phase[s] = "record" /\ rest'[s] = rest[s]
    BY <1>8 DEF Flush, Send, freeSlots, OrderInv, TypeInv, SyncTypeOK
  <2> QED
    BY <1>3, <1>6, <1>7, <2>1, <2>2, <2>3
<1>9. ASSUME NEW s \in Slots, Dispatch(s) PROVE OrderInv'
  <2>1. Order'
    BY <1>9, NothingSent DEF Dispatch, device
  <2> QED
    BY <1>3, <1>9, <2>1, DispatchInOrder
<1>10. ASSUME NEW s \in Slots, phase[s] \in {"check", "record"}, Advance(s), Head(rest[s]) \in applied,
              UNCHANGED <<queued, applied, store>>, seen' = seen \/ seen' = seen \cup {Head(rest[s])}
       PROVE  OrderInv'
  <2>1. rest[s] # <<>>
    BY <1>10, AtWork DEF OrderInv
  <2>2. \A r \in Slots : IF r = s THEN rest'[r] = Tail(rest[r]) ELSE rest'[r] = rest[r]
    BY <1>10 DEF Advance, OrderInv, TypeInv, SyncTypeOK
  <2>3. Order'
    BY <1>10, <2>1, <2>2, NothingSent
  <2>4. \A r \in Slots : phase'[r] = "record" => r # s /\ phase[r] = "record"
    BY <1>10 DEF Advance, OrderInv, TypeInv, SyncTypeOK
  <2>5. RecordFollows'
    BY <1>10, <2>2, <2>4 DEF RecordFollows, OrderInv, Listed
  <2> QED
    BY <1>3, <1>6, <1>10, <2>3, <2>5
<1>11. ASSUME UNCHANGED <<queued, applied, seen>>, store' = store \/ store' = <<>>,
              \A s \in Slots : \/ rest'[s] = rest[s] /\ (phase'[s] = "record" => phase[s] = "record")
                               \/ rest'[s] = <<>> /\ phase'[s] = "free"
       PROVE  OrderInv'
  <2>1. Order'
    BY <1>11, NothingSent
  <2>2. RecordFollows'
    BY <1>7, <1>11
  <2> QED
    BY <1>3, <1>6, <1>11, <2>1, <2>2
<1>12. ASSUME NEW s \in Slots, Check(s) PROVE OrderInv'
  <2>1. CASE Head(rest[s]) \in seen
    BY <1>10, <1>12, <2>1 DEF Check, device, OrderInv, RecordFollows
  <2>2. CASE Head(rest[s]) \notin seen
    <3>1. \A r \in Slots : rest'[r] = rest[r] /\ (phase'[r] = "record" => phase[r] = "record")
      BY <1>12, <2>2 DEF Check, OrderInv, TypeInv, SyncTypeOK
    <3> QED
      BY <1>11, <1>12, <3>1 DEF Check, device
  <2> QED
    BY <2>1, <2>2
<1>13. ASSUME NEW s \in Slots, Record(s) PROVE OrderInv'
  BY <1>10, <1>13 DEF Record, device, history, OrderInv, RecordFollows
<1>14. ASSUME NEW s \in Slots, Succeed(s) \/ Fail(s) \/ Drop(s) PROVE OrderInv'
  <2>1. Free(s) /\ UNCHANGED <<queued, applied, seen>> /\ (store' = store \/ store' = <<>>)
    BY <1>14 DEF Succeed, Fail, Drop, device, history
  <2>2. \A r \in Slots : \/ rest'[r] = rest[r] /\ (phase'[r] = "record" => phase[r] = "record")
                         \/ rest'[r] = <<>> /\ phase'[r] = "free"
    BY <2>1 DEF Free, OrderInv, TypeInv, SyncTypeOK
  <2> QED
    BY <1>11, <2>1, <2>2
<1>15. ASSUME NEW s \in Slots, ServerFails(s) \/ LoseConnection(s) PROVE OrderInv'
  <2>1. UNCHANGED <<queued, applied, seen, store, rest>>
    BY <1>15 DEF ServerFails, LoseConnection, device, history
  <2>2. \A r \in Slots : phase'[r] = "record" => phase[r] = "record"
    BY <1>15 DEF ServerFails, LoseConnection, OrderInv, TypeInv, SyncTypeOK
  <2> QED
    BY <1>11, <2>1, <2>2
<1>16. CASE Office \/ UNCHANGED syncVars
  BY <1>11, <1>16 DEF Office, syncVars, device, requests, history
<1> QED
  BY <1>5, <1>8, <1>9, <1>12, <1>13, <1>14, <1>15, <1>16 DEF SyncNext, Serve

(* InOrder of every behaviour: over any number of tabs, requests, lost        *)
(* connections and refusals no mutation is applied before an older one that   *)
(* still waits (replay, flush).                                               *)
THEOREM SyncInOrder == SyncSpec => []InOrder
<1>1. OrderInv => InOrder
  BY DEF OrderInv
<1> QED
  BY InitOrderInv, NextOrderInv, <1>1, PTL DEF SyncSpec

-----------------------------------------------------------------------------
(* Nothing has an effect at first. *)
LEMMA InitRepeatInv == SyncInit => RepeatInv
<1> SUFFICES ASSUME SyncInit PROVE RepeatInv
  OBVIOUS
<1>1. \A s \in Slots : phase[s] = "free"
  BY DEF SyncInit
<1>2. \A m \in Mutations : effects[m] = 0
  BY DEF SyncInit
<1>3. OneAtHand
  BY <1>1 DEF OneAtHand, atHand
<1>4. EffectRecorded
  BY <1>2 DEF EffectRecorded
<1> QED
  BY <1>3, <1>4, InitTypeInv DEF RepeatInv

(* Where no request comes to a mutation, none has an effect and none is        *)
(* recorded, what holds of those at hand goes on to hold of fewer.            *)
LEMMA NoEffect ==
    ASSUME RepeatInv, UNCHANGED <<seen, effects, raced>>, unrecorded \subseteq unrecorded',
           \A s \in Slots : \A m \in Mutations : atHand(s, m)' => atHand(s, m),
           \A s \in Slots : \A m \in Mutations \ unrecorded' :
               phase[s] = "record" /\ Head(rest[s]) = m => phase'[s] = "record" /\ Head(rest'[s]) = m
    PROVE  OneAtHand' /\ EffectRecorded'
<1>1. OneAtHand'
  BY DEF RepeatInv, OneAtHand
<1>2. EffectRecorded'
  <2> SUFFICES ASSUME NEW m \in Mutations, m \notin raced, m \notin unrecorded'
               PROVE  /\ effects[m] \in {0, 1}
                      /\ effects[m] = 1 => m \in seen \/ \E s \in Slots : phase'[s] = "record" /\ Head(rest'[s]) = m
    BY DEF EffectRecorded
  <2>1. /\ effects[m] \in {0, 1}
        /\ effects[m] = 1 => m \in seen \/ \E s \in Slots : phase[s] = "record" /\ Head(rest[s]) = m
    BY DEF RepeatInv, EffectRecorded
  <2> QED
    BY <2>1
<1> QED
  BY <1>1, <1>2

(* A request comes to a mutation that is not recorded: alone, or it races. *)
LEMMA CheckAlone ==
    ASSUME RepeatInv, NEW s \in Slots, Check(s)
    PROVE  OneAtHand' /\ EffectRecorded'
<1>1. PICK n : n = Head(rest[s])
  OBVIOUS
<1>2. n \in Mutations /\ phase[s] = "check"
  BY <1>1, AtWork DEF Check, RepeatInv
<1>3. CASE n \in seen
  <2>1. \A r \in Slots : IF r = s THEN phase'[r] \in {"ok", "check"}
                                  ELSE phase'[r] = phase[r] /\ rest'[r] = rest[r]
    BY <1>1, <1>2, <1>3 DEF Check, Advance, RepeatInv, TypeInv, SyncTypeOK
  <2>2. UNCHANGED <<seen, effects, raced, unrecorded>>
    BY <1>1, <1>3 DEF Check
  <2>3. \A r \in Slots : \A m \in Mutations : atHand(r, m)' => atHand(r, m)
    BY <2>1 DEF atHand
  <2> QED
    BY <1>2, <2>1, <2>2, <2>3, NoEffect
<1>4. CASE n \notin seen
  <2>1. /\ phase' = [phase EXCEPT ![s] = "dispatch"] /\ rest' = rest
        /\ raced' = IF \E r \in Slots : atHand(r, n) THEN raced \cup {n} ELSE raced
        /\ UNCHANGED <<seen, effects, unrecorded>>
    BY <1>1, <1>4 DEF Check
  <2>2. \A r \in Slots : phase'[r] = IF r = s THEN "dispatch" ELSE phase[r]
    BY <2>1 DEF RepeatInv, TypeInv, SyncTypeOK
  <2>3. \A r \in Slots : \A m \in Mutations : atHand(r, m)' <=> (r = s /\ m = n) \/ (r # s /\ atHand(r, m))
    BY <1>1, <2>1, <2>2 DEF atHand
  <2>4. OneAtHand'
    BY <1>4, <2>1, <2>3 DEF RepeatInv, OneAtHand
  <2>5. \A r \in Slots : phase[r] = "record" => phase'[r] = "record" /\ rest'[r] = rest[r]
    BY <1>2, <2>1, <2>2
  <2>6. EffectRecorded'
    BY <2>1, <2>5 DEF RepeatInv, EffectRecorded
  <2> QED
    BY <2>4, <2>6
<1> QED
  BY <1>3, <1>4

(* The operation has its effect, for the first time but for a race or a       *)
(* record that was lost.                                                      *)
LEMMA DispatchOnce ==
    ASSUME RepeatInv, NEW s \in Slots, Dispatch(s)
    PROVE  OneAtHand' /\ EffectRecorded'
<1>1. PICK n : n = Head(rest[s])
  OBVIOUS
<1>2. n \in Mutations /\ phase[s] = "dispatch"
  BY <1>1, AtWork DEF Dispatch, RepeatInv
<1>3. /\ UNCHANGED <<rest, seen, raced, unrecorded>>
      /\ \/ /\ effects' = effects
            /\ phase' = [phase EXCEPT ![s] = "failed"] \/ phase' = [phase EXCEPT ![s] = "record"]
         \/ effects' = [effects EXCEPT ![n] = @ + 1] /\ phase' = [phase EXCEPT ![s] = "record"]
  BY <1>1 DEF Dispatch, job
<1>4. \A r \in Slots : IF r = s THEN phase'[r] \in {"failed", "record"} ELSE phase'[r] = phase[r]
  BY <1>3 DEF RepeatInv, TypeInv, SyncTypeOK
<1>5. \A r \in Slots : \A m \in Mutations : atHand(r, m)' => atHand(r, m)
  BY <1>1, <1>2, <1>3, <1>4 DEF atHand
<1>6. \A r \in Slots : phase[r] = "record" => phase'[r] = "record" /\ rest'[r] = rest[r]
  BY <1>2, <1>3, <1>4
<1>7. CASE effects' = effects
  BY <1>3, <1>5, <1>6, <1>7, NoEffect
<1>8. CASE effects' = [effects EXCEPT ![n] = @ + 1] /\ phase' = [phase EXCEPT ![s] = "record"]
  <2>1. OneAtHand'
    BY <1>3, <1>5 DEF RepeatInv, OneAtHand
  <2>2. \A m \in Mutations : effects'[m] = IF m = n THEN effects[m] + 1 ELSE effects[m]
    BY <1>8 DEF RepeatInv, TypeInv, SyncTypeOK
  <2>3. phase'[s] = "record" /\ Head(rest'[s]) = n
    BY <1>1, <1>3, <1>8 DEF RepeatInv, TypeInv, SyncTypeOK
  <2>4. ASSUME n \notin raced, n \notin unrecorded PROVE effects[n] = 0
    <3>1. atHand(s, n)
      BY <1>1, <1>2 DEF atHand
    <3>2. n \notin seen
      BY <1>2, <2>4, <3>1 DEF RepeatInv, OneAtHand
    <3>3. ~\E r \in Slots : phase[r] = "record" /\ Head(rest[r]) = n
      BY <1>2, <2>4, <3>1 DEF RepeatInv, OneAtHand, atHand
    <3> QED
      BY <1>2, <2>4, <3>2, <3>3 DEF RepeatInv, EffectRecorded
  <2>5. EffectRecorded'
    <3> SUFFICES ASSUME NEW m \in Mutations, m \notin raced, m \notin unrecorded
                 PROVE  /\ effects'[m] \in {0, 1}
                        /\ effects'[m] = 1 => m \in seen \/ \E r \in Slots : phase'[r] = "record" /\ Head(rest'[r]) = m
      BY <1>3 DEF EffectRecorded
    <3>1. CASE m = n
      BY <2>2, <2>3, <2>4, <3>1
    <3>2. CASE m # n
      <4>1. /\ effects[m] \in {0, 1}
            /\ effects[m] = 1 => m \in seen \/ \E r \in Slots : phase[r] = "record" /\ Head(rest[r]) = m
        BY DEF RepeatInv, EffectRecorded
      <4> QED
        BY <1>6, <2>2, <3>2, <4>1
    <3> QED
      BY <3>1, <3>2
  <2> QED
    BY <2>1, <2>5
<1> QED
  BY <1>3, <1>7, <1>8

(* The record is written: the effect is known from now on. *)
LEMMA RecordOnce ==
    ASSUME RepeatInv, NEW s \in Slots, Record(s)
    PROVE  OneAtHand' /\ EffectRecorded'
<1>1. PICK n : n = Head(rest[s])
  OBVIOUS
<1>2. n \in Mutations /\ phase[s] = "record" /\ atHand(s, n)
  BY <1>1, AtWork DEF Record, RepeatInv, atHand
<1>3. seen' = seen \cup {n} /\ UNCHANGED <<effects, raced, unrecorded>>
  BY <1>1 DEF Record, history
<1>4. \A r \in Slots : IF r = s THEN phase'[r] \in {"ok", "check"}
                                ELSE phase'[r] = phase[r] /\ rest'[r] = rest[r]
  BY DEF Record, Advance, RepeatInv, TypeInv, SyncTypeOK
<1>5. \A r \in Slots : \A m \in Mutations : atHand(r, m)' => atHand(r, m) /\ r # s
  BY <1>4 DEF atHand
<1>6. OneAtHand'
  BY <1>2, <1>3, <1>5 DEF RepeatInv, OneAtHand
<1>7. EffectRecorded'
  BY <1>1, <1>3, <1>4 DEF RepeatInv, EffectRecorded
<1> QED
  BY <1>6, <1>7

(* Every step keeps what is known of effects and their records. *)
LEMMA NextRepeatInv == RepeatInv /\ [SyncNext]_syncVars => RepeatInv'
<1> SUFFICES ASSUME RepeatInv, [SyncNext]_syncVars PROVE RepeatInv'
  OBVIOUS
<1>1. TypeInv'
  BY NextTypeInv DEF RepeatInv
<1>2. ASSUME UNCHANGED <<seen, effects, raced, unrecorded>>,
             \A s \in Slots : \/ phase'[s] = phase[s] /\ rest'[s] = rest[s]
                              \/ phase'[s] \notin {"dispatch", "record"} /\ phase[s] \notin {"dispatch", "record"}
      PROVE  RepeatInv'
  <2>1. \A s \in Slots : \A m \in Mutations : atHand(s, m)' => atHand(s, m)
    BY <1>2 DEF atHand
  <2>2. \A s \in Slots : \A m \in Mutations :
            phase[s] = "record" /\ Head(rest[s]) = m => phase'[s] = "record" /\ Head(rest'[s]) = m
    BY <1>2
  <2> QED
    BY <1>1, <1>2, <2>1, <2>2, NoEffect DEF RepeatInv
<1>3. ASSUME NEW t \in Tabs, Flush(t) \/ \E m \in Mutations : Enqueue(t, m) PROVE RepeatInv'
  <2>1. UNCHANGED <<seen, effects, raced, unrecorded>>
    BY <1>3 DEF Enqueue, Flush, history
  <2>2. \A s \in Slots : \/ phase'[s] = phase[s] /\ rest'[s] = rest[s]
                         \/ phase'[s] \notin {"dispatch", "record"} /\ phase[s] \notin {"dispatch", "record"}
    <3>1. CASE UNCHANGED <<flushing, requests>>
      BY <3>1 DEF requests
    <3>2. ASSUME NEW q, Send(t, q)
          PROVE  \A s \in Slots : \/ phase'[s] = phase[s] /\ rest'[s] = rest[s]
                                  \/ phase'[s] \notin {"dispatch", "record"} /\ phase[s] \notin {"dispatch", "record"}
      BY <3>2 DEF Send, freeSlots, RepeatInv, TypeInv, SyncTypeOK
    <3>3. PICK q, p : q = store /\ p = store'
      OBVIOUS
    <3> QED
      BY <1>3, <3>1, <3>2, <3>3 DEF Enqueue, Flush
  <2> QED
    BY <1>2, <2>1, <2>2
<1>4. ASSUME NEW s \in Slots, Check(s) \/ Dispatch(s) \/ Record(s) PROVE RepeatInv'
  BY <1>1, <1>4, CheckAlone, DispatchOnce, RecordOnce DEF RepeatInv
<1>5. ASSUME NEW s \in Slots, ServerFails(s) PROVE RepeatInv'
  <2>1. /\ UNCHANGED <<seen, effects, raced, rest>>
        /\ unrecorded' = IF phase[s] = "record" THEN unrecorded \cup {Head(rest[s])} ELSE unrecorded
    BY <1>5 DEF ServerFails, job
  <2>2. \A r \in Slots : phase'[r] = IF r = s THEN "failed" ELSE phase[r]
    BY <1>5 DEF ServerFails, RepeatInv, TypeInv, SyncTypeOK
  <2>3. \A r \in Slots : \A m \in Mutations : atHand(r, m)' => atHand(r, m)
    BY <2>1, <2>2 DEF atHand
  <2>4. \A r \in Slots : \A m \in Mutations \ unrecorded' :
            phase[r] = "record" /\ Head(rest[r]) = m => phase'[r] = "record" /\ Head(rest'[r]) = m
    BY <2>1, <2>2
  <2>5. unrecorded \subseteq unrecorded'
    BY <2>1
  <2> QED
    BY <1>1, <2>1, <2>3, <2>4, <2>5, NoEffect DEF RepeatInv
<1>6. ASSUME NEW s \in Slots, Succeed(s) \/ Fail(s) \/ Drop(s) PROVE RepeatInv'
  <2>1. Free(s) /\ phase[s] \in {"ok", "failed"} /\ UNCHANGED <<seen, effects, raced, unrecorded>>
    BY <1>6 DEF Succeed, Fail, Drop, history
  <2>2. \A r \in Slots : \/ phase'[r] = phase[r] /\ rest'[r] = rest[r]
                         \/ phase'[r] \notin {"dispatch", "record"} /\ phase[r] \notin {"dispatch", "record"}
    BY <2>1 DEF Free, RepeatInv, TypeInv, SyncTypeOK
  <2> QED
    BY <1>2, <2>1, <2>2
<1>7. ASSUME NEW s \in Slots, LoseConnection(s) PROVE RepeatInv'
  BY <1>2, <1>7 DEF LoseConnection, history
<1>8. CASE Office \/ UNCHANGED syncVars
  BY <1>2, <1>8 DEF Office, syncVars, device, requests, history
<1> QED
  BY <1>3, <1>4, <1>5, <1>6, <1>7, <1>8 DEF SyncNext, Serve

(* RepeatHasCause of every behaviour: a second effect takes a lost record or  *)
(* two requests at one mutation (applyOne between its transactions).          *)
THEOREM SyncRepeatHasCause == SyncSpec => []RepeatHasCause
<1>1. RepeatInv => RepeatHasCause
  BY DEF RepeatInv, EffectRecorded, RepeatHasCause, TypeInv, SyncTypeOK
<1> QED
  BY InitRepeatInv, NextRepeatInv, <1>1, PTL DEF SyncSpec
=============================================================================
