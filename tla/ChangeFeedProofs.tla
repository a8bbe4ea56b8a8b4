-------------------------- MODULE ChangeFeedProofs --------------------------
(***************************************************************************)
(* Why a device misses no audited change around audited ones, and is behind  *)
(* for a known cause only, for any sessions, orders, page sizes and bounds.  *)
(*                                                                          *)
(* The first inductive invariant follows a row from its cursor to the        *)
(* commit: a transaction with an audited row that is not committed holds the *)
(* tip of the audit log, so that whatever is committed beside it with a      *)
(* later cursor is not audited.  The second adds what the rows say: the row  *)
(* locks of the tables make the newest row of an order or time entry the one *)
(* with its version, and the device keeps the version of the newest.         *)
(* The third bounds the versions a device has by the committed ones.         *)
(***************************************************************************)
EXTENDS ChangeFeed, TableTheorems

Statements == {"audit", "work_order", "time_entry"}
Transaction == [op : Operations, of : Orders, entry : TimeEntries \cup {NoEntry},
                todo : Seq(Statements)]

(* What each session is at, and the rows it has got cursors for.             *)
TxOK ==
    /\ tx \in [Sessions -> {Idle} \cup Transaction]
    /\ tip \subseteq Sessions
    /\ appended = [s \in Sessions |-> appended[s]]
    /\ \A s \in Sessions : IsFiniteSet(appended[s])
    /\ IsFiniteSet(change_feed)

RowOK(r) == r.cursor \in Nat \ {0} /\ r.cursor < nextval

(* Cursors are given out once and upwards.                                   *)
Cursors ==
    /\ nextval \in Nat \ {0}
    /\ \A r \in change_feed : RowOK(r)
    /\ \A s \in Sessions : \A r \in appended[s] :
          /\ RowOK(r)
          /\ \A q \in change_feed : q.cursor # r.cursor
          /\ \A t \in Sessions \ {s} : \A q \in appended[t] : q.cursor # r.cursor

(* One session holds the tip; an audited operation gets it before it appends *)
(* to the feed.                                                              *)
TipFirst ==
    /\ \A s, t \in tip : s = t
    /\ \A s \in Sessions :
          /\ tx[s] = Idle => appended[s] = {}
          /\ \A r \in appended[s] : r.audited = audited(tx[s].op)
          /\ tx[s] # Idle /\ audited(tx[s].op) =>
                 s \in tip \/ (appended[s] = {} /\ tx[s].todo = steps(tx[s].op))

(* What is committed with a cursor past that of an audited row still open    *)
(* is not audited.                                                           *)
CommitOrder ==
    \A s \in Sessions : \A r \in appended[s] : \A q \in change_feed :
        r.audited /\ q.cursor > r.cursor => ~q.audited

(* The device is at the start or at a row it was given.                      *)
SinceGiven ==
    /\ since \in Nat
    /\ since = 0 \/ (since \in received /\ \E q \in change_feed : q.cursor = since)

IInv == TxOK /\ Cursors /\ TipFirst /\ CommitOrder /\ SinceGiven /\ MissHasCause

-----------------------------------------------------------------------------
(* The invariant speaks of these variables only.                             *)
proved == <<change_feed, nextval, tx, appended, tip, since, received>>

LEMMA Unchanged == IInv /\ UNCHANGED proved => IInv'
BY DEF IInv, Operations, proved, TxOK, Transaction, Cursors, RowOK, TipFirst, CommitOrder, SinceGiven,
       MissHasCause, missed, Idle, steps, audited

LEMMA InitIInv == Init => IInv
<1> SUFFICES ASSUME Init PROVE IInv
  OBVIOUS
<1>1. TxOK
  BY FS_EmptySet DEF Init, TxOK
<1>2. Cursors /\ TipFirst /\ CommitOrder /\ SinceGiven /\ MissHasCause
  BY DEF Init, Cursors, TipFirst, CommitOrder, SinceGiven, MissHasCause, missed, Idle
<1> QED
  BY <1>1, <1>2 DEF IInv

(* The statements of an operation; an audited one begins with its audit.     *)
LEMMA StepsType == ASSUME NEW op \in Operations PROVE steps(op) \in Seq(Statements)
<1>1. /\ <<"audit", "work_order">> \in Seq(Statements)
      /\ <<"audit">> \in Seq(Statements)
      /\ <<"audit", "work_order", "time_entry">> \in Seq(Statements)
      /\ <<"time_entry">> \in Seq(Statements)
  BY DEF Statements
<1>2. CASE op \in {"create", "edit", "open", "start"}
  <2>1. steps(op) = <<"audit", "work_order">>
    BY <1>2 DEF steps
  <2> QED
    BY <1>1, <2>1
<1>3. CASE op = "bill"
  <2>1. steps(op) = <<"audit">>
    BY <1>3 DEF steps
  <2> QED
    BY <1>1, <2>1
<1>4. CASE op = "clockOn"
  <2>1. steps(op) = <<"audit", "work_order", "time_entry">>
    BY <1>4 DEF steps
  <2> QED
    BY <1>1, <2>1
<1>5. CASE op \in {"resume", "clockOff"}
  <2>1. steps(op) = <<"time_entry">>
    BY <1>5 DEF steps
  <2> QED
    BY <1>1, <2>1
<1> QED
  BY <1>2, <1>3, <1>4, <1>5 DEF Operations

LEMMA AuditFirst ==
  ASSUME NEW op \in Operations, audited(op)
  PROVE  steps(op) # <<>> /\ Head(steps(op)) = "audit"
BY DEF Operations, steps, audited

LEMMA BeginPreserves ==
  ASSUME NEW s \in Sessions, IInv, Begin(s)
  PROVE  IInv'
<1> PICK op \in Operations, o \in Orders, e \in TimeEntries \cup {NoEntry} :
        tx' = [tx EXCEPT ![s] = [op |-> op, of |-> o, entry |-> e, todo |-> steps(op)]]
  BY DEF Begin
<1> USE DEF IInv
<1>0. [op |-> op, of |-> o, entry |-> e, todo |-> steps(op)] \in Transaction
  BY StepsType DEF Transaction
<1>1. TxOK'
  <2>1. tx' \in [Sessions -> {Idle} \cup Transaction]
    BY <1>0 DEF TxOK
  <2>2. UNCHANGED <<change_feed, appended, tip>>
    BY DEF Begin, tables
  <2> QED
    BY <2>1, <2>2 DEF TxOK
<1>2. Cursors' /\ CommitOrder' /\ SinceGiven' /\ MissHasCause'
  BY DEF Cursors, RowOK, CommitOrder, SinceGiven, MissHasCause, missed, Begin, tables, device
<1>3. TipFirst'
  <2>1. tx'[s].op = op /\ tx'[s].todo = steps(op) /\ appended[s] = {}
    BY DEF Begin, TxOK, TipFirst
  <2>2. \A t \in Sessions \ {s} : tx'[t] = tx[t]
    BY DEF TxOK
  <2> QED
    BY <2>1, <2>2 DEF TipFirst, TxOK, Begin, device
<1> QED
  BY <1>1, <1>2, <1>3

(* done(s): one statement less to do, the operation stays what it is.        *)
LEMMA DoneType ==
  ASSUME NEW s \in Sessions, NEW what, TxOK, doing(s, what), done(s)
  PROVE  /\ tx' \in [Sessions -> {Idle} \cup Transaction]
         /\ tx[s] # Idle /\ tx[s] \in Transaction
         /\ tx'[s] # Idle
         /\ tx'[s].op = tx[s].op /\ tx'[s].of = tx[s].of /\ tx'[s].entry = tx[s].entry
         /\ tx'[s].todo = Tail(tx[s].todo)
         /\ \A t \in Sessions \ {s} : tx'[t] = tx[t]
<1>1. tx[s] # Idle /\ tx[s] \in Transaction
  BY DEF TxOK, doing, Idle
<1>2. tx[s].todo \in Seq(Statements) /\ tx[s].todo # <<>>
  BY <1>1 DEF Transaction, doing
<1>3. Tail(tx[s].todo) \in Seq(Statements)
  BY <1>2
<1>4. [tx[s] EXCEPT !.todo = Tail(@)] \in Transaction
  BY <1>1, <1>3 DEF Transaction
<1>5. tx' = [tx EXCEPT ![s] = [tx[s] EXCEPT !.todo = Tail(@)]]
  BY DEF done
<1>6. tx'[s] = [tx[s] EXCEPT !.todo = Tail(@)]
  BY <1>5 DEF TxOK
<1>7. /\ tx'[s].op = tx[s].op /\ tx'[s].of = tx[s].of /\ tx'[s].entry = tx[s].entry
      /\ tx'[s].todo = Tail(tx[s].todo)
  BY <1>1, <1>6 DEF Transaction
<1>8. tx'[s] # Idle
  BY <1>4, <1>6 DEF Transaction, Idle, Operations
<1> QED
  BY <1>1, <1>4, <1>5, <1>7, <1>8 DEF TxOK

LEMMA AuditPreserves ==
  ASSUME NEW s \in Sessions, IInv, Audit(s)
  PROVE  IInv'
<1> USE DEF IInv
<1>0. done(s) /\ doing(s, "audit")
  BY DEF Audit
<1>1. TxOK'
  BY <1>0, DoneType DEF TxOK, Audit, tables
<1>2. Cursors' /\ CommitOrder' /\ SinceGiven' /\ MissHasCause'
  BY DEF Cursors, RowOK, CommitOrder, SinceGiven, MissHasCause, missed, Audit, tables, device
<1>3. TipFirst'
  BY <1>0, DoneType DEF TipFirst, TxOK, Audit
<1> QED
  BY <1>1, <1>2, <1>3

(* The row append(s) writes.                                                 *)
LEMMA AppendRow ==
  ASSUME NEW s \in Sessions, TxOK, append(s)
  PROVE  \E r : /\ r.cursor = nextval /\ r.audited = audited(tx[s].op)
                /\ appended' = [appended EXCEPT ![s] = @ \cup {r}]
                /\ done(s)
                /\ \E type \in {"work_order", "time_entry"} :
                      /\ doing(s, type)
                      /\ r.entity = entity(s, type) /\ r.version = newVersion(s, type)
<1> DEFINE row(type) == [cursor |-> nextval, entity |-> entity(s, type),
                         version |-> newVersion(s, type), audited |-> audited(tx[s].op)]
<1>1. PICK type \in {"work_order", "time_entry"} :
          doing(s, type) /\ appended' = [appended EXCEPT ![s] = @ \cup {row(type)}]
  BY DEF append
<1>2. /\ row(type).cursor = nextval /\ row(type).audited = audited(tx[s].op)
      /\ row(type).entity = entity(s, type) /\ row(type).version = newVersion(s, type)
  OBVIOUS
<1>3. done(s)
  BY DEF append
<1> HIDE DEF row
<1> WITNESS row(type)
<1> QED
  BY <1>1, <1>2, <1>3

LEMMA AppendPreserves ==
  ASSUME NEW s \in Sessions, IInv, append(s)
  PROVE  IInv'
<1> USE DEF IInv
<1> PICK r : /\ r.cursor = nextval /\ r.audited = audited(tx[s].op)
             /\ appended' = [appended EXCEPT ![s] = @ \cup {r}]
             /\ done(s)
             /\ \E type \in {"work_order", "time_entry"} : doing(s, type)
  BY AppendRow
<1> PICK type \in {"work_order", "time_entry"} : doing(s, type)
  OBVIOUS
<1>0. /\ nextval' = nextval + 1 /\ nextval \in Nat \ {0}
      /\ UNCHANGED <<change_feed, tip, since, received>>
  BY DEF append, tables, device, Cursors
<1>1. /\ appended'[s] = appended[s] \cup {r}
      /\ \A t \in Sessions \ {s} : appended'[t] = appended[t]
  BY DEF TxOK
<1>2. TxOK'
  <2>1. IsFiniteSet(appended'[s])
    BY <1>1, FS_AddElement DEF TxOK
  <2> QED
    BY <1>0, <1>1, <2>1, DoneType DEF TxOK
<1>3. Cursors'
  <2>1. \A q \in change_feed : RowOK(q)' /\ q.cursor # nextval
    BY <1>0 DEF Cursors, RowOK
  <2>2. \A t \in Sessions : \A q \in appended[t] : RowOK(q)' /\ q.cursor # nextval
    BY <1>0 DEF Cursors, RowOK
  <2>3. RowOK(r)'
    BY <1>0 DEF RowOK
  <2> QED
    BY <1>0, <1>1, <2>1, <2>2, <2>3 DEF Cursors
<1>4. TipFirst'
  <2>1. audited(tx[s].op) => s \in tip
    <3>1. tx[s] \in Transaction /\ tx[s] # Idle
      BY DoneType
    <3>2. tx[s].op \in Operations
      BY <3>1 DEF Transaction
    <3>3. audited(tx[s].op) => tx[s].todo # steps(tx[s].op)
      BY <3>2, AuditFirst DEF doing
    <3> QED
      BY <3>1, <3>3 DEF TipFirst
  <2> QED
    BY <1>0, <1>1, <2>1, DoneType DEF TipFirst
<1>5. CommitOrder'
  <2>1. \A q \in change_feed : ~(q.cursor > r.cursor)
    BY <1>0 DEF Cursors, RowOK
  <2> QED
    BY <1>0, <1>1, <2>1 DEF CommitOrder
<1>6. SinceGiven' /\ MissHasCause'
  BY <1>0 DEF SinceGiven, MissHasCause, missed
<1> QED
  BY <1>2, <1>3, <1>4, <1>5, <1>6

(* The end of a transaction, committed or not.                               *)
LEMMA EndTxOK ==
  ASSUME NEW s \in Sessions, TxOK, End(s), IsFiniteSet(change_feed')
  PROVE  /\ TxOK'
         /\ appended'[s] = {} /\ tx'[s] = Idle
         /\ \A t \in Sessions \ {s} : appended'[t] = appended[t] /\ tx'[t] = tx[t]
         /\ UNCHANGED <<nextval, since, received>>
<1>1. /\ appended'[s] = {} /\ tx'[s] = Idle
      /\ \A t \in Sessions \ {s} : appended'[t] = appended[t] /\ tx'[t] = tx[t]
  BY DEF End, TxOK
<1>2. TxOK'
  BY <1>1, FS_EmptySet DEF End, TxOK
<1> QED
  BY <1>1, <1>2 DEF End, device

LEMMA EndTipFirst ==
  ASSUME NEW s \in Sessions, TxOK, TipFirst, End(s), IsFiniteSet(change_feed')
  PROVE  TipFirst'
<1>1. /\ appended'[s] = {} /\ tx'[s] = Idle
      /\ \A t \in Sessions \ {s} : appended'[t] = appended[t] /\ tx'[t] = tx[t]
  BY EndTxOK
<1>2. tip' = tip \ {s}
  BY DEF End
<1>3. \A t, u \in tip' : t = u
  BY <1>2 DEF TipFirst
<1>4. ASSUME NEW t \in Sessions, t # s
      PROVE  /\ tx'[t] = Idle => appended'[t] = {}
             /\ \A r \in appended'[t] : r.audited = audited(tx'[t].op)
             /\ tx'[t] # Idle /\ audited(tx'[t].op) =>
                    t \in tip' \/ (appended'[t] = {} /\ tx'[t].todo = steps(tx'[t].op))
  BY <1>1, <1>2, <1>4 DEF TipFirst
<1> QED
  BY <1>1, <1>3, <1>4 DEF TipFirst, audited, steps

LEMMA CommitPreserves ==
  ASSUME NEW s \in Sessions, IInv, Commit(s)
  PROVE  IInv'
<1> USE DEF IInv
<1>0. End(s) /\ change_feed' = change_feed \cup appended[s]
  BY DEF Commit
<1>1. IsFiniteSet(change_feed')
  BY <1>0, FS_Union DEF TxOK
<1>2. /\ appended'[s] = {}
      /\ \A t \in Sessions \ {s} : appended'[t] = appended[t]
      /\ UNCHANGED <<nextval, since, received>>
  BY <1>0, <1>1, EndTxOK
<1>3. TxOK' /\ TipFirst'
  BY <1>0, <1>1, EndTxOK, EndTipFirst
<1>4. Cursors'
  BY <1>0, <1>2 DEF Cursors, RowOK
<1>5. CommitOrder'
  <2> SUFFICES ASSUME NEW t \in Sessions, NEW r \in appended'[t], NEW q \in change_feed',
                      r.audited, q.cursor > r.cursor
               PROVE  ~q.audited
    BY DEF CommitOrder
  <2>1. t # s /\ r \in appended[t]
    BY <1>2
  <2>2. CASE q \in change_feed
    BY <2>1, <2>2 DEF CommitOrder
  <2>3. CASE q \in appended[s]
    <3>1. q.audited => s \in tip
      BY <2>3 DEF TipFirst
    <3>2. t \in tip
      BY <2>1 DEF TipFirst
    <3> QED
      BY <2>1, <3>1, <3>2 DEF TipFirst
  <2> QED
    BY <1>0, <2>2, <2>3
<1>6. SinceGiven'
  BY <1>0, <1>2 DEF SinceGiven
<1>7. MissHasCause'
  <2> SUFFICES ASSUME NEW r \in missed', r.audited
               PROVE  \E q \in change_feed' : q.cursor \in received' /\ q.cursor > r.cursor /\ ~q.audited
    BY DEF MissHasCause
  <2>1. CASE r \in change_feed
    BY <1>0, <1>2, <2>1 DEF MissHasCause, missed
  <2>2. CASE r \in appended[s]
    <3>1. r.cursor \in Nat \ {0} /\ r.cursor <= since
      BY <1>2, <2>2 DEF missed, Cursors, RowOK
    <3>2. PICK q \in change_feed : q.cursor = since /\ since \in received
      BY <3>1 DEF SinceGiven
    <3>3. q.cursor # r.cursor
      BY <2>2 DEF Cursors
    <3>4. q.cursor > r.cursor
      BY <3>1, <3>2, <3>3 DEF SinceGiven
    <3>5. ~q.audited
      BY <2>2, <3>4 DEF CommitOrder
    <3> QED
      BY <1>0, <1>2, <3>2, <3>4, <3>5
  <2> QED
    BY <1>0, <2>1, <2>2 DEF missed
<1> QED
  BY <1>3, <1>4, <1>5, <1>6, <1>7

LEMMA RollbackPreserves ==
  ASSUME NEW s \in Sessions, IInv, Rollback(s)
  PROVE  IInv'
<1> USE DEF IInv
<1>0. End(s) /\ UNCHANGED change_feed
  BY DEF Rollback, tables
<1>1. IsFiniteSet(change_feed')
  BY <1>0 DEF TxOK
<1>2. /\ appended'[s] = {}
      /\ \A t \in Sessions \ {s} : appended'[t] = appended[t]
      /\ UNCHANGED <<nextval, since, received>>
  BY <1>0, <1>1, EndTxOK
<1>3. TxOK' /\ TipFirst'
  BY <1>0, <1>1, EndTxOK, EndTipFirst
<1>4. Cursors' /\ CommitOrder'
  BY <1>0, <1>2 DEF Cursors, RowOK, CommitOrder
<1>5. SinceGiven' /\ MissHasCause'
  BY <1>0, <1>2 DEF SinceGiven, MissHasCause, missed
<1> QED
  BY <1>3, <1>4, <1>5

(* A page has no holes: with a row it has every row after the cursor that    *)
(* comes before it.                                                          *)
LEMMA PageNoHoles ==
  ASSUME TxOK, Cursors, SinceGiven,
         NEW limit \in Nat, NEW last \in page(limit), NEW r \in change_feed,
         r.cursor > since, r.cursor <= last.cursor
  PROVE  r \in page(limit)
<1> DEFINE after == {q \in change_feed : q.cursor > since}
           before(p) == {q \in after : q.cursor < p.cursor}
<1>1. IsFiniteSet(before(last)) /\ last \in after /\ Cardinality(before(last)) < limit
  <2>1. IsFiniteSet(before(last))
    BY FS_Subset DEF TxOK
  <2> QED
    BY <2>1 DEF page
<1>2. before(r) \subseteq before(last)
  BY <1>1 DEF Cursors, RowOK
<1>3. Cardinality(before(r)) <= Cardinality(before(last)) /\ Cardinality(before(r)) \in Nat
      /\ Cardinality(before(last)) \in Nat
  BY <1>1, <1>2, FS_Subset, FS_CardinalityType
<1>4. Cardinality(before(r)) < limit
  BY <1>1, <1>3
<1> QED
  BY <1>4 DEF page

LEMMA PullPreserves ==
  ASSUME IInv, Pull
  PROVE  IInv'
<1> USE DEF IInv
<1> PICK limit \in 1 .. MaxLimit : \E last \in page(limit) :
          /\ \A r \in page(limit) : r.cursor <= last.cursor
          /\ since' = last.cursor
          /\ received' = received \cup {r.cursor : r \in page(limit)}
  BY DEF Pull
<1> PICK last \in page(limit) :
          /\ since' = last.cursor
          /\ received' = received \cup {r.cursor : r \in page(limit)}
  OBVIOUS
<1>0. UNCHANGED <<change_feed, nextval, tx, appended, tip>>
  BY DEF Pull, tables
<1>1. last \in change_feed /\ last.cursor > since /\ last.cursor \in Nat
  BY DEF page, Cursors, RowOK
<1>2. TxOK' /\ Cursors' /\ TipFirst' /\ CommitOrder'
  BY <1>0 DEF TxOK, Transaction, Cursors, RowOK, TipFirst, CommitOrder
<1>3. SinceGiven'
  BY <1>0, <1>1 DEF SinceGiven
<1>4. MissHasCause'
  <2> SUFFICES ASSUME NEW r \in missed', r.audited
               PROVE  \E q \in change_feed' : q.cursor \in received' /\ q.cursor > r.cursor /\ ~q.audited
    BY DEF MissHasCause
  <2>1. r \in change_feed /\ r.cursor \notin received' /\ r.cursor <= last.cursor /\ r.cursor \in Nat
    BY <1>0 DEF missed, Cursors, RowOK
  <2>2. r.cursor <= since
    <3>1. limit \in Nat
      BY ChangeFeedAssumption
    <3>2. r \notin page(limit)
      BY <2>1
    <3> QED
      BY <2>1, <3>1, <3>2, PageNoHoles DEF SinceGiven
  <2>3. r \in missed
    BY <2>1, <2>2 DEF missed
  <2> QED
    BY <1>0, <2>3 DEF MissHasCause
<1> QED
  BY <1>2, <1>3, <1>4

(* The invariant is inductive.                                               *)
LEMMA NextPreserves == IInv /\ [Next]_vars => IInv'
<1> SUFFICES ASSUME IInv, [Next]_vars PROVE IInv'
  OBVIOUS
<1>1. CASE UNCHANGED vars
  BY <1>1, Unchanged DEF vars, tables, device, proved
<1>2. ASSUME NEW s \in Sessions, Begin(s) PROVE IInv'
  BY <1>2, BeginPreserves
<1>3. ASSUME NEW s \in Sessions, Run(s) PROVE IInv'
  BY <1>3, AuditPreserves, AppendPreserves, CommitPreserves DEF Run
<1>4. ASSUME NEW s \in Sessions, Rollback(s) PROVE IInv'
  BY <1>4, RollbackPreserves
<1>5. CASE Pull
  BY <1>5, PullPreserves
<1> QED
  BY <1>1, <1>2, <1>3, <1>4, <1>5 DEF Next

(* MissedHasCause: for any sessions, orders, page sizes and bounds, a device *)
(* misses a committed row only if the row was not audited, or if the device  *)
(* had been given a later row that was not (clocking off, clocking on to a   *)
(* running job).                                                             *)
THEOREM MissedHasCause == Spec => []MissHasCause
<1>1. IInv => MissHasCause
  BY DEF IInv
<1> QED
  BY <1>1, InitIInv, NextPreserves, PTL DEF Spec

-----------------------------------------------------------------------------
(* A device that is behind is so for a known cause.                          *)
Order == [status : {"none", "draft", "open", "in_progress", "invoiced"}, version : Nat]
Tables ==
    /\ order \in [Orders -> Order]
    /\ entry \in [TimeEntries -> Nat]
    /\ copy = [e \in Entities |-> copy[e]]

(* Two transactions hold different locks; one that clocks finds its time     *)
(* entry, one of its order, as it was when it began.                         *)
Clocked(t) ==
    /\ target(t.op, t.of, t.entry)
    /\ t.op \in {"clockOn", "resume"} => entry[t.entry] = 0
    /\ t.op = "clockOff" => entry[t.entry] = 1
Locks ==
    /\ \A s, t \in Sessions :
          s # t /\ tx[s] # Idle /\ tx[t] # Idle => locked(tx[s]) # locked(tx[t])
    /\ \A s \in Sessions : tx[s] # Idle => Clocked(tx[s])

(* The rows a transaction has to show for what it has done so far, one for   *)
(* each entity.                                                              *)
work(s) == <<"work_order", tx[s].of>>
time(s) == <<"time_entry", tx[s].entry>>
shown(s) == {r.entity : r \in appended[s]}
Progress(s) ==
    LET todo == tx[s].todo
    IN \/ tx[s] = Idle
       \/ /\ tx[s].op \in {"create", "edit", "open", "start"}
          /\ \/ todo \in {<<"audit", "work_order">>, <<"work_order">>} /\ shown(s) = {}
             \/ todo = <<>> /\ shown(s) = {work(s)}
       \/ tx[s].op = "bill" /\ todo \in {<<"audit">>, <<>>} /\ shown(s) = {}
       \/ /\ tx[s].op = "clockOn"
          /\ \/ /\ todo \in {<<"audit", "work_order", "time_entry">>, <<"work_order", "time_entry">>}
                /\ shown(s) = {}
             \/ todo = <<"time_entry">> /\ shown(s) = {work(s)}
             \/ todo = <<>> /\ shown(s) = {work(s), time(s)}
       \/ /\ tx[s].op \in {"resume", "clockOff"}
          /\ \/ todo = <<"time_entry">> /\ shown(s) = {}
             \/ todo = <<>> /\ shown(s) = {time(s)}

(* A row not committed is later than every committed one of its entity, and  *)
(* has the version its entity will have.                                     *)
Latest(s) ==
    /\ \A r, q \in appended[s] : r.entity = q.entity \/ r.cursor = q.cursor => r = q
    /\ \A r \in appended[s] :
        /\ \A q \in change_feed : q.entity = r.entity => q.cursor < r.cursor
        /\ r.entity = work(s) => r.version = order[tx[s].of].version + 1
        /\ r.entity = time(s) => r.version = entry[tx[s].entry] + 1

(* The last row of an entity has its version.                                *)
newest(r) == r \in change_feed /\ \A q \in change_feed : q.entity = r.entity => q.cursor <= r.cursor
Told(e, version) ==
    \/ version = 0 /\ \A r \in change_feed : r.entity # e
    \/ \E r \in change_feed : r.entity = e /\ r.version = version /\ newest(r)

(* The device has the version of the last row it could have been given.      *)
Copied ==
    /\ received \subseteq 1 .. since
    /\ \A c \in received : \E r \in change_feed : r.cursor = c
    /\ \A r \in change_feed : newest(r) /\ r.cursor \in received => copy[r.entity] = r.version
    /\ \A e \in Entities : (\A r \in change_feed : r.entity # e) => copy[e] = 0

DInv ==
    /\ IInv
    /\ Tables /\ Locks
    /\ \A s \in Sessions : Progress(s) /\ Latest(s)
    /\ \A r \in change_feed : r.entity \in Entities
    /\ \A r, q \in change_feed : r.cursor = q.cursor => r = q
    /\ \A o \in Orders : o \in silent \/ Told(<<"work_order", o>>, order[o].version)
    /\ \A e \in TimeEntries : Told(<<"time_entry", e>>, entry[e])
    /\ Copied

-----------------------------------------------------------------------------
LEMMA InitDInv == Init => DInv
<1> SUFFICES ASSUME Init PROVE DInv
  OBVIOUS
<1>1. IInv
  BY InitIInv
<1>2. Tables
  BY DEF Init, Tables, Order
<1>3. Locks /\ \A s \in Sessions : Progress(s) /\ Latest(s)
  BY DEF Init, Locks, Progress, Latest
<1>4. \A e, version : version = 0 => Told(e, version)
  BY DEF Init, Told
<1>5. (\A o \in Orders : order[o].version = 0) /\ \A e \in TimeEntries : entry[e] = 0
  BY DEF Init
<1>6. Copied
  BY DEF Init, Copied
<1> QED
  BY <1>1, <1>2, <1>3, <1>4, <1>5, <1>6 DEF DInv, Init

(* A session that is left alone, on tables that are left alone.              *)
LEMMA SessionKept ==
    ASSUME NEW s \in Sessions, Progress(s), Latest(s),
           tx'[s] = tx[s], appended'[s] = appended[s],
           UNCHANGED <<order, entry, change_feed>>
    PROVE  Progress(s)' /\ Latest(s)'
BY DEF Progress, Latest, shown, work, time, Idle

(* What of the invariant speaks of committed rows only.                      *)
LEMMA CommittedKept ==
    ASSUME DInv, UNCHANGED <<order, entry, change_feed, silent, since, copy, received>>
    PROVE  /\ Tables'
           /\ \A r \in change_feed' : r.entity \in Entities
           /\ \A r, q \in change_feed' : r.cursor = q.cursor => r = q
           /\ \A o \in Orders : o \in silent' \/ Told(<<"work_order", o>>, order[o].version)'
           /\ \A e \in TimeEntries : Told(<<"time_entry", e>>, entry[e])'
           /\ Copied'
<1>1. \A r : newest(r)' <=> newest(r)
  BY DEF newest
<1> QED
  BY <1>1 DEF DInv, Tables, Told, Copied

LEMMA UnchangedDInv == DInv /\ UNCHANGED vars => DInv'
<1> SUFFICES ASSUME DInv, UNCHANGED vars PROVE DInv'
  OBVIOUS
<1> USE DEF vars, tables, device
<1>1. IInv'
  BY Unchanged DEF DInv, proved
<1>2. Locks'
  BY DEF DInv, Locks, Clocked
<1>3. \A s \in Sessions : Progress(s)' /\ Latest(s)'
  BY SessionKept DEF DInv
<1> QED
  BY <1>1, <1>2, <1>3, CommittedKept DEF DInv

(* Begin: the lock is free, and the time entry is as the operation needs it. *)
LEMMA BeginDInv == ASSUME DInv, NEW s \in Sessions, Begin(s) PROVE DInv'
<1>0. IInv'
  BY BeginPreserves DEF DInv
<1>1. PICK r : /\ tx' = [tx EXCEPT ![s] = r]
               /\ Free(r) /\ Clocked(r)
               /\ r.op \in Operations /\ r.todo = steps(r.op)
  <2>1. PICK op \in Operations, o \in Orders, e \in TimeEntries \cup {NoEntry} :
          LET t == [op |-> op, of |-> o, entry |-> e, todo |-> steps(op)] IN
          /\ target(op, o, e) /\ Free(t) /\ possible(op, o, e)
          /\ tx' = [tx EXCEPT ![s] = t]
    BY DEF Begin
  <2>2. PICK t : t = [op |-> op, of |-> o, entry |-> e, todo |-> steps(op)]
    OBVIOUS
  <2>3. t.op = op /\ t.of = o /\ t.entry = e /\ t.todo = steps(op)
    BY <2>2
  <2>4. Clocked(t)
    BY <2>1, <2>3 DEF Clocked, possible
  <2> QED
    BY <2>1, <2>2, <2>3, <2>4
<1>2. UNCHANGED <<order, entry, change_feed, appended, silent, since, copy, received>>
  BY DEF Begin, tables, device
<1>3. /\ tx'[s] = r
      /\ \A t \in Sessions \ {s} : tx'[t] = tx[t]
      /\ tx[s] = Idle /\ appended[s] = {}
  BY <1>1 DEF DInv, IInv, TxOK, TipFirst, Begin
<1>6. Locks'
  <2>1. \A t \in Sessions \ {s} : tx[t] # Idle => locked(tx[t]) # locked(r)
    BY <1>1 DEF Free
  <2>2. ASSUME NEW t \in Sessions, NEW u \in Sessions, t # u, tx'[t] # Idle, tx'[u] # Idle
        PROVE  locked(tx'[t]) # locked(tx'[u])
    BY <1>3, <2>1, <2>2 DEF DInv, Locks
  <2>3. ASSUME NEW t \in Sessions, tx'[t] # Idle PROVE Clocked(tx[t])'
    <3>1. CASE t = s
      BY <1>1, <1>2, <1>3, <3>1 DEF Clocked
    <3>2. CASE t # s
      BY <1>2, <1>3, <2>3, <3>2 DEF DInv, Locks, Clocked
    <3> QED
      BY <3>1, <3>2
  <2> QED
    BY <2>2, <2>3 DEF Locks, locked
<1>7. Progress(s)' /\ Latest(s)'
  <2>1. shown(s)' = {}
    BY <1>2, <1>3 DEF shown
  <2>2. tx'[s].todo = steps(tx'[s].op) /\ tx'[s].op \in Operations
    BY <1>1, <1>3
  <2>3. Progress(s)'
    BY <2>1, <2>2 DEF Progress, steps, Operations
  <2> QED
    BY <1>2, <1>3, <2>3 DEF Latest
<1>8. \A t \in Sessions : Progress(t)' /\ Latest(t)'
  BY <1>2, <1>3, <1>7, SessionKept DEF DInv
<1> QED
  BY <1>0, <1>2, <1>6, <1>8, CommittedKept DEF DInv

(* What is left of the statements after the first.                           *)
LEMMA Tails ==
    /\ Head(<<"audit", "work_order">>) = "audit" /\ Tail(<<"audit", "work_order">>) = <<"work_order">>
    /\ Head(<<"work_order">>) = "work_order" /\ Tail(<<"work_order">>) = <<>>
    /\ Head(<<"audit">>) = "audit" /\ Tail(<<"audit">>) = <<>>
    /\ Head(<<"audit", "work_order", "time_entry">>) = "audit"
    /\ Tail(<<"audit", "work_order", "time_entry">>) = <<"work_order", "time_entry">>
    /\ Head(<<"work_order", "time_entry">>) = "work_order"
    /\ Tail(<<"work_order", "time_entry">>) = <<"time_entry">>
    /\ Head(<<"time_entry">>) = "time_entry" /\ Tail(<<"time_entry">>) = <<>>
  OBVIOUS

(* A step within a transaction keeps the locks.                              *)
LEMMA DoneLocks ==
    ASSUME DInv, NEW s \in Sessions, NEW what, doing(s, what), done(s), UNCHANGED entry
    PROVE  Locks'
<1>1. /\ tx'[s].op = tx[s].op /\ tx'[s].of = tx[s].of /\ tx'[s].entry = tx[s].entry
      /\ tx[s] # Idle
      /\ \A t \in Sessions \ {s} : tx'[t] = tx[t]
  BY DoneType DEF DInv, IInv
<1>2. ASSUME NEW t \in Sessions, tx'[t] # Idle
      PROVE  /\ tx[t] # Idle
             /\ locked(tx'[t]) = locked(tx[t])
             /\ Clocked(tx[t]) => Clocked(tx[t])'
  BY <1>1, <1>2 DEF locked, Clocked
<1>3. ASSUME NEW t \in Sessions, NEW u \in Sessions, t # u, tx'[t] # Idle, tx'[u] # Idle
      PROVE  locked(tx'[t]) # locked(tx'[u])
  BY <1>2, <1>3 DEF DInv, Locks
<1>4. \A t \in Sessions : tx'[t] # Idle => Clocked(tx[t])'
  BY <1>2 DEF DInv, Locks
<1> QED
  BY <1>3, <1>4 DEF Locks, locked

(* The audit is the first statement; no row is written.                      *)
LEMMA AuditDInv == ASSUME DInv, NEW s \in Sessions, Audit(s) PROVE DInv'
<1>0. IInv'
  BY AuditPreserves DEF DInv
<1>1. /\ doing(s, "audit") /\ done(s)
      /\ UNCHANGED <<order, entry, change_feed, appended, silent, since, copy, received>>
  BY DEF Audit, tables, device
<1>2. /\ tx'[s].op = tx[s].op /\ tx'[s].of = tx[s].of /\ tx'[s].entry = tx[s].entry
      /\ tx'[s].todo = Tail(tx[s].todo)
      /\ \A t \in Sessions \ {s} : tx'[t] = tx[t]
  BY <1>1, DoneType DEF DInv, IInv
<1>3. Locks'
  BY <1>1, DoneLocks
<1>4. work(s)' = work(s) /\ time(s)' = time(s) /\ shown(s)' = shown(s)
  BY <1>1, <1>2 DEF work, time, shown
<1>5. Progress(s)'
  <2>1. Progress(s) /\ tx[s] # Idle /\ tx[s].todo # <<>> /\ Head(tx[s].todo) = "audit"
    BY <1>1, DoneType DEF DInv, IInv, doing
  <2>2. \/ /\ tx[s].op \in {"create", "edit", "open", "start"} /\ shown(s) = {}
           /\ tx[s].todo = <<"audit", "work_order">>
        \/ tx[s].op = "bill" /\ shown(s) = {} /\ tx[s].todo = <<"audit">>
        \/ /\ tx[s].op = "clockOn" /\ shown(s) = {}
           /\ tx[s].todo = <<"audit", "work_order", "time_entry">>
    BY <2>1, Tails DEF Progress
  <2> QED
    BY <1>2, <1>4, <2>2, Tails DEF Progress
<1>6. Latest(s)'
  BY <1>1, <1>2, <1>4 DEF DInv, Latest
<1>7. \A t \in Sessions : Progress(t)' /\ Latest(t)'
  BY <1>1, <1>2, <1>5, <1>6, SessionKept DEF DInv
<1> QED
  BY <1>0, <1>1, <1>3, <1>7, CommittedKept DEF DInv

(* append: the row is the first of its entity in the transaction, later than *)
(* every committed one.                                                      *)
LEMMA AppendDInv == ASSUME DInv, NEW s \in Sessions, append(s) PROVE DInv'
<1>0. IInv'
  BY AppendPreserves DEF DInv
<1>1. PICK r : /\ r.cursor = nextval /\ r.audited = audited(tx[s].op)
               /\ appended' = [appended EXCEPT ![s] = @ \cup {r}]
               /\ done(s)
               /\ \E type \in {"work_order", "time_entry"} :
                     /\ doing(s, type)
                     /\ r.entity = entity(s, type) /\ r.version = newVersion(s, type)
  BY AppendRow DEF DInv, IInv
<1>2. PICK type \in {"work_order", "time_entry"} :
          doing(s, type) /\ r.entity = entity(s, type) /\ r.version = newVersion(s, type)
  BY <1>1
<1>3. UNCHANGED <<order, entry, change_feed, silent, since, copy, received>>
  BY DEF append, tables, device
<1>4. /\ tx'[s].op = tx[s].op /\ tx'[s].of = tx[s].of /\ tx'[s].entry = tx[s].entry
      /\ tx'[s].todo = Tail(tx[s].todo)
      /\ \A t \in Sessions \ {s} : tx'[t] = tx[t]
      /\ tx[s] # Idle
  BY <1>1, <1>2, DoneType DEF DInv, IInv
<1>5. /\ appended'[s] = appended[s] \cup {r}
      /\ \A t \in Sessions \ {s} : appended'[t] = appended[t]
  BY <1>1 DEF DInv, IInv, TxOK
<1>6. Locks'
  BY <1>1, <1>2, <1>3, DoneLocks
<1>7. work(s)' = work(s) /\ time(s)' = time(s) /\ work(s) # time(s)
  BY <1>4 DEF work, time
<1>8. shown(s)' = shown(s) \cup {r.entity}
  BY <1>5 DEF shown
<1>9. \/ /\ type = "work_order" /\ shown(s) = {}
         /\ tx[s].op \in {"create", "edit", "open", "start"} /\ tx[s].todo = <<"work_order">>
      \/ /\ type = "work_order" /\ shown(s) = {}
         /\ tx[s].op = "clockOn" /\ tx[s].todo = <<"work_order", "time_entry">>
      \/ /\ type = "time_entry" /\ shown(s) = {work(s)}
         /\ tx[s].op = "clockOn" /\ tx[s].todo = <<"time_entry">>
      \/ /\ type = "time_entry" /\ shown(s) = {}
         /\ tx[s].op \in {"resume", "clockOff"} /\ tx[s].todo = <<"time_entry">>
  <2>1. Progress(s) /\ tx[s].todo # <<>> /\ Head(tx[s].todo) = type
    BY <1>2 DEF DInv, doing
  <2> QED
    BY <1>4, <2>1, Tails DEF Progress
<1>10. r.entity = IF type = "work_order" THEN work(s) ELSE time(s)
  BY <1>2 DEF work, time, entity
<1>11. Progress(s)'
  <2>1. \/ tx[s].op \in {"create", "edit", "open", "start"} /\ tx'[s].todo = <<>> /\ shown(s)' = {work(s)}
        \/ tx[s].op = "clockOn" /\ tx'[s].todo = <<"time_entry">> /\ shown(s)' = {work(s)}
        \/ tx[s].op = "clockOn" /\ tx'[s].todo = <<>> /\ shown(s)' = {work(s), time(s)}
        \/ tx[s].op \in {"resume", "clockOff"} /\ tx'[s].todo = <<>> /\ shown(s)' = {time(s)}
    BY <1>4, <1>8, <1>9, <1>10, Tails
  <2> QED
    BY <1>4, <1>7, <2>1 DEF Progress
<1>12. Latest(s)'
  <2>1. /\ \A q \in appended[s] : q.cursor < r.cursor /\ q.cursor \in Nat
        /\ \A q \in change_feed : q.cursor < r.cursor
        /\ r.cursor \in Nat
    BY <1>1 DEF DInv, IInv, Cursors, RowOK
  <2>2. r.entity \notin shown(s)
    BY <1>7, <1>9, <1>10
  <2>3. \A q \in appended[s] : q.entity # r.entity
    BY <2>2 DEF shown
  <2>4. /\ r.entity = work(s) => r.version = order[tx[s].of].version + 1
        /\ r.entity = time(s) => r.version = entry[tx[s].entry] + 1
    BY <1>2, <1>7, <1>10 DEF newVersion
  <2>5. Latest(s)
    BY DEF DInv
  <2>6. \A p, q \in appended'[s] : p.entity = q.entity \/ p.cursor = q.cursor => p = q
    <3>1. \A p, q \in appended[s] : p.entity = q.entity \/ p.cursor = q.cursor => p = q
      BY <2>5 DEF Latest
    <3>2. \A q \in appended[s] : ~(q.cursor = r.cursor)
      BY <2>1
    <3> QED
      BY <1>5, <2>3, <3>1, <3>2
  <2>7. \A q \in appended[s] :
          /\ \A p \in change_feed : p.entity = q.entity => p.cursor < q.cursor
          /\ q.entity = work(s) => q.version = order[tx[s].of].version + 1
          /\ q.entity = time(s) => q.version = entry[tx[s].entry] + 1
    BY <2>5 DEF Latest
  <2>8. \A q \in appended'[s] :
          /\ \A p \in change_feed' : p.entity = q.entity => p.cursor < q.cursor
          /\ q.entity = work(s)' => q.version = order'[tx'[s].of].version + 1
          /\ q.entity = time(s)' => q.version = entry'[tx'[s].entry] + 1
    BY <1>3, <1>4, <1>5, <1>7, <2>1, <2>4, <2>7
  <2> QED
    BY <2>6, <2>8 DEF Latest
<1>13. \A t \in Sessions : Progress(t)' /\ Latest(t)'
  BY <1>3, <1>4, <1>5, <1>11, <1>12, SessionKept DEF DInv
<1> QED
  BY <1>0, <1>3, <1>6, <1>13, CommittedKept DEF DInv

(* The end of a transaction gives back its locks.                            *)
LEMMA RollbackDInv == ASSUME DInv, NEW s \in Sessions, Rollback(s) PROVE DInv'
<1>0. IInv'
  BY RollbackPreserves DEF DInv
<1>1. /\ End(s)
      /\ UNCHANGED <<order, entry, change_feed, silent, since, copy, received>>
  BY DEF Rollback, End, tables, device
<1>2. IsFiniteSet(change_feed')
  BY <1>1 DEF DInv, IInv, TxOK
<1>3. /\ appended'[s] = {} /\ tx'[s] = Idle
      /\ \A t \in Sessions \ {s} : appended'[t] = appended[t] /\ tx'[t] = tx[t]
  BY <1>1, <1>2, EndTxOK DEF DInv, IInv
<1>4. Locks'
  BY <1>1, <1>3 DEF DInv, Locks, Clocked, locked
<1>5. Progress(s)' /\ Latest(s)'
  BY <1>3 DEF Progress, Latest, Idle
<1>6. \A t \in Sessions : Progress(t)' /\ Latest(t)'
  BY <1>1, <1>3, <1>5, SessionKept DEF DInv
<1> QED
  BY <1>0, <1>1, <1>4, <1>6, CommittedKept DEF DInv

(* A row not committed is of its transaction's order, or of its time entry.  *)
LEMMA RowOf ==
    ASSUME DInv, NEW t \in Sessions, NEW r \in appended[t]
    PROVE  /\ tx[t] # Idle /\ tx[t].of \in Orders /\ tx[t].op \in Operations
           /\ clocks(tx[t].op) => tx[t].entry \in TimeEntries
           /\ \/ r.entity = work(t) /\ audited(tx[t].op) /\ tx[t].op # "bill"
              \/ r.entity = time(t) /\ clocks(tx[t].op)
<1>1. tx[t] # Idle
  BY DEF DInv, IInv, TipFirst
<1>2. tx[t] \in Transaction
  BY <1>1 DEF DInv, IInv, TxOK
<1>3. Progress(t) /\ r.entity \in shown(t)
  BY DEF DInv, shown
<1>4. \/ r.entity = work(t) /\ tx[t].op \in {"create", "edit", "open", "start", "clockOn"}
      \/ r.entity = time(t) /\ clocks(tx[t].op)
  BY <1>1, <1>3 DEF Progress, clocks
<1>5. clocks(tx[t].op) => tx[t].entry \in TimeEntries
  BY <1>1 DEF DInv, Locks, Clocked, target
<1> QED
  BY <1>1, <1>2, <1>4, <1>5 DEF Transaction, audited

(* Of two transactions, only one is audited on an order, and only one clocks *)
(* a time entry.                                                             *)
LEMMA Apart ==
    ASSUME DInv, NEW s \in Sessions, NEW t \in Sessions, s # t, tx[s] # Idle, tx[t] # Idle
    PROVE  /\ ~(audited(tx[s].op) /\ audited(tx[t].op) /\ tx[s].of = tx[t].of)
           /\ ~(clocks(tx[s].op) /\ clocks(tx[t].op) /\ tx[s].entry = tx[t].entry)
<1>1. locked(tx[s]) # locked(tx[t]) /\ Clocked(tx[s]) /\ Clocked(tx[t])
  BY DEF DInv, Locks
<1>2. ~(audited(tx[s].op) /\ audited(tx[t].op) /\ tx[s].of = tx[t].of)
  BY <1>1 DEF audited, locked
<1>3. ~(clocks(tx[s].op) /\ clocks(tx[t].op) /\ tx[s].entry = tx[t].entry)
  BY <1>1 DEF clocks, locked, Clocked, target
<1> QED
  BY <1>2, <1>3

(* A commit tells the version of what its rows are of, and nothing else.     *)
LEMMA ToldNew ==
    ASSUME DInv, NEW s \in Sessions, change_feed' = change_feed \cup appended[s],
           NEW r \in appended[s]
    PROVE  Told(r.entity, r.version)'
<1>1. /\ \A q \in change_feed : q.entity = r.entity => q.cursor < r.cursor
      /\ \A q \in appended[s] : q.entity = r.entity => q = r
  BY DEF DInv, Latest
<1>2. r.cursor \in Nat /\ \A q \in change_feed : q.cursor \in Nat
  BY DEF DInv, IInv, Cursors, RowOK
<1>3. newest(r)'
  BY <1>1, <1>2 DEF newest
<1> QED
  BY <1>3 DEF Told, newest

LEMMA ToldKept ==
    ASSUME NEW s \in Sessions, change_feed' = change_feed \cup appended[s],
           NEW e, NEW version, \A r \in appended[s] : r.entity # e, Told(e, version)
    PROVE  \/ version = 0 /\ \A r \in change_feed' : r.entity # e
           \/ \E r \in change_feed' : r.entity = e /\ r.version = version /\ newest(r)'
BY DEF Told, newest

(* What a commit makes of the tables.                                        *)
LEMMA CommitTables ==
    ASSUME DInv, NEW s \in Sessions, Commit(s)
    PROVE  /\ Tables'
           /\ tx[s].of \in Orders /\ tx[s].op \in Operations /\ tx[s] # Idle
           /\ clocks(tx[s].op) <=> tx[s].entry \in TimeEntries
           /\ \A p \in Orders \ {tx[s].of} : order'[p] = order[p]
           /\ order'[tx[s].of].version =
                  order[tx[s].of].version + (IF audited(tx[s].op) THEN 1 ELSE 0)
           /\ \A e \in TimeEntries :
                  entry'[e] = entry[e] + (IF e = tx[s].entry THEN 1 ELSE 0)
<1>1. tx[s] # Idle /\ tx[s] \in Transaction
  BY DEF Commit, DInv, IInv, TxOK
<1>2. PICK o, op : o = tx[s].of /\ op = tx[s].op
  OBVIOUS
<1>3. o \in Orders /\ op \in Operations
  BY <1>1, <1>2 DEF Transaction
<1>4. /\ order' = [order EXCEPT ![o].status = statusAfter(op, @),
                                ![o].version = IF audited(op) THEN @ + 1 ELSE @]
      /\ entry' = [e \in TimeEntries |-> IF e = tx[s].entry THEN entry[e] + 1 ELSE entry[e]]
      /\ UNCHANGED copy
  BY <1>2 DEF Commit, End, device
<1>5. order[o] \in Order
  BY <1>3 DEF DInv, Tables
<1>6. PICK row : row = order[o]
  OBVIOUS
<1>7. PICK q : q = [[row EXCEPT !.status = statusAfter(op, @)]
                       EXCEPT !.version = IF audited(op) THEN @ + 1 ELSE @]
  OBVIOUS
<1>8. /\ order' = [order EXCEPT ![o] = q]
      /\ q \in Order /\ q.version = order[o].version + (IF audited(op) THEN 1 ELSE 0)
  <2>1. row.version \in Nat /\ row.status \in {"none", "draft", "open", "in_progress", "invoiced"}
    BY <1>5, <1>6 DEF Order
  <2>2. PICK status : status = statusAfter(op, row.status)
    OBVIOUS
  <2>3. status \in {"none", "draft", "open", "in_progress", "invoiced"}
    BY <2>1, <2>2 DEF statusAfter
  <2>4. PICK version : version = IF audited(op) THEN row.version + 1 ELSE row.version
    OBVIOUS
  <2>5. version \in Nat /\ version = row.version + (IF audited(op) THEN 1 ELSE 0)
    BY <2>1, <2>4
  <2>6. row \in Order
    BY <1>5, <1>6
  <2>7. [row EXCEPT !.status = statusAfter(op, @)] = [row EXCEPT !.status = status]
    BY <2>2
  <2>8. [row EXCEPT !.status = status] = [status |-> status, version |-> row.version]
    BY <2>6 DEF Order
  <2>9. q = [status |-> status, version |-> version]
    BY <1>7, <2>4, <2>7, <2>8
  <2>10. order' = [order EXCEPT ![o] = q]
    BY <1>3, <1>4, <1>6, <1>7 DEF DInv, Tables
  <2> QED
    BY <1>6, <2>3, <2>5, <2>9, <2>10 DEF Order
<1>9. order' \in [Orders -> Order] /\ order'[o] = q /\ \A p \in Orders \ {o} : order'[p] = order[p]
  BY <1>3, <1>8 DEF DInv, Tables
<1>10. /\ entry' \in [TimeEntries -> Nat]
       /\ \A e \in TimeEntries : entry'[e] = entry[e] + (IF e = tx[s].entry THEN 1 ELSE 0)
  BY <1>4 DEF DInv, Tables
<1>11. clocks(op) <=> tx[s].entry \in TimeEntries
  BY <1>1, <1>2, ChangeFeedAssumption DEF DInv, Locks, Clocked, target
<1> QED
  BY <1>1, <1>2, <1>3, <1>4, <1>8, <1>9, <1>10, <1>11 DEF DInv, Tables

LEMMA CommitDInv == ASSUME DInv, NEW s \in Sessions, Commit(s) PROVE DInv'
<1>0. IInv'
  BY CommitPreserves DEF DInv
<1>1. PICK o, op : o = tx[s].of /\ op = tx[s].op
  OBVIOUS
<1>2. /\ Tables'
      /\ o \in Orders /\ op \in Operations /\ tx[s] # Idle
      /\ clocks(op) <=> tx[s].entry \in TimeEntries
      /\ \A p \in Orders \ {o} : order'[p] = order[p]
      /\ order'[o].version = order[o].version + (IF audited(op) THEN 1 ELSE 0)
      /\ \A e \in TimeEntries : entry'[e] = entry[e] + (IF e = tx[s].entry THEN 1 ELSE 0)
  BY <1>1, CommitTables
<1>3. /\ End(s) /\ tx[s].todo = <<>>
      /\ change_feed' = change_feed \cup appended[s]
      /\ silent' = CASE op = "bill" -> silent \cup {o}
                     [] op # "bill" /\ audited(op) -> silent \ {o}
                     [] OTHER -> silent
      /\ UNCHANGED <<since, copy, received>>
  BY <1>1 DEF Commit, End, device
<1>4. IsFiniteSet(change_feed')
  BY <1>0 DEF IInv, TxOK
<1>5. /\ appended'[s] = {} /\ tx'[s] = Idle
      /\ \A t \in Sessions \ {s} : appended'[t] = appended[t] /\ tx'[t] = tx[t]
  BY <1>3, <1>4, EndTxOK DEF DInv, IInv
<1>6. ASSUME NEW t \in Sessions \ {s}, tx[t] # Idle
      PROVE  /\ audited(tx[t].op) => order'[tx[t].of].version = order[tx[t].of].version
             /\ clocks(tx[t].op) => tx[t].entry \in TimeEntries
                                    /\ entry'[tx[t].entry] = entry[tx[t].entry]
  <2>1. /\ ~(audited(op) /\ audited(tx[t].op) /\ o = tx[t].of)
        /\ ~(clocks(op) /\ clocks(tx[t].op) /\ tx[s].entry = tx[t].entry)
    BY <1>1, <1>2, <1>6, Apart
  <2>2. tx[t].of \in Orders /\ (clocks(tx[t].op) => tx[t].entry \in TimeEntries)
    BY <1>6 DEF DInv, IInv, TxOK, Transaction, Locks, Clocked, target
  <2>3. order[o].version \in Nat /\ \A e \in TimeEntries : entry[e] \in Nat
    BY <1>2 DEF DInv, Tables, Order
  <2>4. ASSUME audited(tx[t].op)
        PROVE  order'[tx[t].of].version = order[tx[t].of].version
    <3>1. ~(audited(op) /\ o = tx[t].of)
      BY <2>1, <2>4
    <3> QED
      BY <1>2, <2>2, <2>3, <3>1
  <2>5. ASSUME clocks(tx[t].op)
        PROVE  tx[t].entry \in TimeEntries /\ entry'[tx[t].entry] = entry[tx[t].entry]
    BY <1>2, <2>1, <2>2, <2>3, <2>5
  <2> QED
    BY <2>4, <2>5
<1>7. Locks'
  <2>1. ASSUME NEW t \in Sessions, tx'[t] # Idle
        PROVE  t # s /\ tx'[t] = tx[t] /\ tx[t] # Idle /\ Clocked(tx[t])
    BY <1>5, <2>1 DEF DInv, Locks
  <2>2. ASSUME NEW t \in Sessions, tx'[t] # Idle PROVE Clocked(tx[t])'
    BY <1>6, <2>1, <2>2 DEF Clocked, clocks
  <2> QED
    BY <2>1, <2>2 DEF DInv, Locks, locked
<1>8. ASSUME NEW t \in Sessions PROVE Progress(t)' /\ Latest(t)'
  <2>1. CASE t = s
    BY <1>5, <2>1 DEF Progress, Latest, Idle
  <2>2. CASE t # s
    <3>1. Progress(t)'
      BY <1>5, <2>2 DEF DInv, Progress, shown, work, time, Idle
    <3>2. ASSUME NEW r \in appended[t], NEW q \in appended[s] PROVE q.entity # r.entity
      <4>1. tx[t] # Idle /\ tx[s] # Idle
        BY RowOf
      <4>2. /\ ~(audited(tx[s].op) /\ audited(tx[t].op) /\ tx[s].of = tx[t].of)
            /\ ~(clocks(tx[s].op) /\ clocks(tx[t].op) /\ tx[s].entry = tx[t].entry)
        BY <2>2, <4>1, Apart
      <4> QED
        BY <4>2, RowOf DEF work, time
    <3>3. /\ work(t)' = work(t) /\ time(t)' = time(t) /\ work(t) # time(t)
          /\ tx'[t].of = tx[t].of /\ tx'[t].entry = tx[t].entry
      BY <1>5, <2>2 DEF work, time
    <3>4. ASSUME NEW r \in appended[t]
          PROVE  /\ \A q \in change_feed' : q.entity = r.entity => q.cursor < r.cursor
                 /\ r.entity = work(t) => r.version = order'[tx[t].of].version + 1
                 /\ r.entity = time(t) => r.version = entry'[tx[t].entry] + 1
      <4>1. Latest(t)
        BY DEF DInv
      <4>2. \A q \in change_feed' : q.entity = r.entity => q.cursor < r.cursor
        BY <1>3, <3>2, <4>1 DEF Latest
      <4>3. /\ tx[t] # Idle
            /\ r.entity = work(t) => audited(tx[t].op)
            /\ r.entity = time(t) => clocks(tx[t].op)
        BY <3>3, RowOf
      <4> QED
        BY <1>6, <2>2, <4>1, <4>2, <4>3 DEF Latest
    <3>5. \A r, q \in appended[t] : r.entity = q.entity \/ r.cursor = q.cursor => r = q
      BY DEF DInv, Latest
    <3> QED
      BY <1>5, <2>2, <3>1, <3>3, <3>4, <3>5 DEF Latest
  <2> QED
    BY <2>1, <2>2
<1>9. \A r \in change_feed' : r.entity \in Entities
  <2>1. ASSUME NEW r \in appended[s] PROVE r.entity \in Entities
    <3>1. work(s) \in Entities /\ (clocks(op) => time(s) \in Entities)
      BY <1>1, <1>2 DEF Entities, work, time
    <3> QED
      BY <1>1, <3>1, RowOf
  <2> QED
    BY <1>3, <2>1 DEF DInv
<1>10. \A r, q \in change_feed' : r.cursor = q.cursor => r = q
  <2>1. \A r, q \in change_feed : r.cursor = q.cursor => r = q
    BY DEF DInv
  <2>2. \A r, q \in appended[s] : r.cursor = q.cursor => r = q
    BY DEF DInv, Latest
  <2>3. \A r \in appended[s] : \A q \in change_feed : q.cursor # r.cursor
    BY DEF DInv, IInv, Cursors
  <2> QED
    BY <1>3, <2>1, <2>2, <2>3
<1>11. ASSUME NEW p \in Orders, p \notin silent'
       PROVE  Told(<<"work_order", p>>, order[p].version)'
  <2>1. CASE p = o /\ audited(op)
    <3>1. op # "bill"
      BY <1>3, <1>11, <2>1
    <3>2. work(s) \in shown(s)
      BY <1>1, <1>2, <1>3, <2>1, <3>1 DEF DInv, Progress, audited, Operations
    <3>3. PICK r \in appended[s] : r.entity = work(s)
      BY <3>2 DEF shown
    <3>4. r.version = order'[p].version
      BY <1>1, <1>2, <2>1, <3>3 DEF DInv, Latest
    <3> QED
      BY <1>1, <1>3, <2>1, <3>3, <3>4, ToldNew DEF work
  <2>2. CASE p # o \/ ~audited(op)
    <3>1. \A r \in appended[s] : r.entity # <<"work_order", p>>
      BY <1>1, <2>2, RowOf DEF work, time
    <3>2. order'[p].version = order[p].version
      <4>1. order[o].version \in Nat
        BY <1>2 DEF DInv, Tables, Order
      <4> QED
        BY <1>2, <2>2, <4>1
    <3>3. p \notin silent
      BY <1>3, <1>11, <2>2 DEF audited
    <3>4. Told(<<"work_order", p>>, order[p].version)
      BY <3>3 DEF DInv
    <3>5. PICK v : v = order[p].version
      OBVIOUS
    <3>6. Told(<<"work_order", p>>, v)'
      BY <1>3, <3>1, <3>4, <3>5, ToldKept DEF Told
    <3> QED
      BY <3>2, <3>5, <3>6
  <2> QED
    BY <2>1, <2>2
<1>12. ASSUME NEW e \in TimeEntries PROVE Told(<<"time_entry", e>>, entry[e])'
  <2>1. CASE e = tx[s].entry
    <3>0. clocks(op)
      BY <1>2, <2>1
    <3>1. time(s) \in shown(s)
      <4>1. Progress(s) /\ tx[s] # Idle /\ tx[s].todo = <<>>
        BY <1>2, <1>3 DEF DInv
      <4>2. CASE op = "clockOn"
        BY <1>1, <4>1, <4>2 DEF Progress
      <4>3. CASE op \in {"resume", "clockOff"}
        BY <1>1, <4>1, <4>3 DEF Progress
      <4> QED
        BY <3>0, <4>2, <4>3 DEF clocks
    <3>2. PICK r \in appended[s] : r.entity = time(s)
      BY <3>1 DEF shown
    <3>3. r.version = entry'[e]
      BY <1>2, <2>1, <3>2 DEF DInv, Latest
    <3> QED
      BY <1>3, <2>1, <3>2, <3>3, ToldNew DEF time
  <2>2. CASE e # tx[s].entry
    <3>1. \A r \in appended[s] : r.entity # <<"time_entry", e>>
      BY <2>2, RowOf DEF work, time
    <3>2. entry'[e] = entry[e]
      BY <1>2, <2>2 DEF DInv, Tables
    <3>3. Told(<<"time_entry", e>>, entry[e])
      BY DEF DInv
    <3>4. PICK v : v = entry[e]
      OBVIOUS
    <3>5. Told(<<"time_entry", e>>, v)'
      BY <1>3, <3>1, <3>3, <3>4, ToldKept DEF Told
    <3> QED
      BY <3>2, <3>4, <3>5
  <2> QED
    BY <2>1, <2>2
<1>13. Copied'
  <2>1. Copied
    BY DEF DInv
  <2>2. \A r \in appended[s] : r.cursor \notin received
    BY <2>1 DEF DInv, IInv, Cursors, Copied
  <2>3. \A r \in change_feed : newest(r)' => newest(r)
    BY <1>3 DEF newest
  <2> QED
    BY <1>3, <2>1, <2>2, <2>3 DEF Copied
<1> QED
  BY <1>0, <1>2, <1>7, <1>8, <1>9, <1>10, <1>11, <1>12, <1>13 DEF DInv

-----------------------------------------------------------------------------
(* Pull: of the newest row of an entity the device has the version, if it    *)
(* was given that row now or before.                                         *)
LEMMA PullDInv == ASSUME DInv, Pull PROVE DInv'
<1>0. IInv'
  BY PullPreserves DEF DInv
<1>1. PICK limit \in 1 .. MaxLimit : \E end \in page(limit) :
          LET of(e) == {r \in page(limit) : r.entity = e} IN
          /\ \A r \in page(limit) : r.cursor <= end.cursor
          /\ since' = end.cursor
          /\ received' = received \cup {r.cursor : r \in page(limit)}
          /\ copy' = [e \in Entities |->
                 IF of(e) = {} THEN copy[e]
                 ELSE (CHOOSE r \in of(e) : \A q \in of(e) : q.cursor <= r.cursor).version]
  BY DEF Pull
<1>2. PICK P : P = page(limit)
  OBVIOUS
<1> DEFINE of(e) == {r \in P : r.entity = e}
<1>3. PICK end \in P :
          /\ \A r \in P : r.cursor <= end.cursor
          /\ since' = end.cursor
          /\ received' = received \cup {r.cursor : r \in P}
          /\ copy' = [e \in Entities |->
                 IF of(e) = {} THEN copy[e]
                 ELSE (CHOOSE r \in of(e) : \A q \in of(e) : q.cursor <= r.cursor).version]
  BY <1>1, <1>2
<1>4. \A r \in P : r \in change_feed /\ r.cursor > since /\ r.cursor \in Nat
  BY <1>2 DEF page, DInv, IInv, Cursors, RowOK
<1>5. UNCHANGED <<order, entry, change_feed, tx, appended, silent>>
  BY DEF Pull, tables
<1>6. /\ \A e \in Entities : copy'[e] =
             IF of(e) = {} THEN copy[e]
             ELSE (CHOOSE r \in of(e) : \A q \in of(e) : q.cursor <= r.cursor).version
      /\ copy' = [e \in Entities |-> copy'[e]]
  BY <1>3
<1>7. Copied
  BY DEF DInv
<1>8. received' \subseteq 1 .. since' /\ \A c \in received' : \E r \in change_feed : r.cursor = c
  <2>1. since \in Nat /\ since <= since' /\ since' \in Nat
    BY <1>3, <1>4 DEF DInv, IInv, SinceGiven
  <2>2. received \subseteq 1 .. since /\ \A c \in received : \E r \in change_feed : r.cursor = c
    BY <1>7 DEF Copied
  <2>3. ASSUME NEW c \in received' PROVE c \in 1 .. since' /\ \E r \in change_feed : r.cursor = c
    <3>1. CASE c \in received
      BY <2>1, <2>2, <3>1
    <3>2. ASSUME NEW r \in P, c = r.cursor PROVE c \in 1 .. since' /\ r \in change_feed
      BY <1>3, <1>4, <2>1, <3>2
    <3> QED
      BY <1>3, <3>1, <3>2
  <2> QED
    BY <2>3
<1>9. ASSUME NEW r \in change_feed, newest(r), r.cursor \in received'
      PROVE  copy'[r.entity] = r.version
  <2>0. r.entity \in Entities /\ \A q \in change_feed : q.cursor \in Nat
    BY DEF DInv, IInv, Cursors, RowOK
  <2>1. CASE r \in P
    <3>1. r \in of(r.entity) /\ \A q \in of(r.entity) : q.cursor <= r.cursor
      BY <1>4, <1>9, <2>1 DEF newest
    <3>2. ASSUME NEW p \in of(r.entity), \A q \in of(r.entity) : q.cursor <= p.cursor
          PROVE  p = r
      <4>1. p \in change_feed /\ p.cursor <= r.cursor /\ r.cursor <= p.cursor
        BY <1>4, <3>1, <3>2
      <4>2. p.cursor = r.cursor
        BY <2>0, <4>1
      <4> QED
        BY <4>1, <4>2 DEF DInv
    <3>3. (CHOOSE p \in of(r.entity) : \A q \in of(r.entity) : q.cursor <= p.cursor) = r
      BY <3>1, <3>2
    <3> QED
      BY <1>6, <2>0, <3>1, <3>3
  <2>2. CASE r \notin P
    <3>1. r.cursor \in received
      <4>1. \A q \in P : q.cursor # r.cursor
        BY <1>4, <2>2 DEF DInv
      <4> QED
        BY <1>3, <1>9, <4>1
    <3>2. r.cursor <= since /\ since \in Nat
      <4>1. since \in Nat
        BY DEF DInv, IInv, SinceGiven
      <4>2. r.cursor \in 1 .. since
        BY <1>7, <3>1 DEF Copied
      <4> QED
        BY <4>1, <4>2
    <3>3. \A q \in P : q.entity # r.entity
      BY <1>4, <1>9, <2>0, <3>2 DEF newest
    <3> QED
      BY <1>6, <1>7, <1>9, <2>0, <3>1, <3>3 DEF Copied
  <2> QED
    BY <2>1, <2>2
<1>10. ASSUME NEW e \in Entities, \A r \in change_feed : r.entity # e PROVE copy'[e] = 0
  <2>1. of(e) = {}
    BY <1>4, <1>10
  <2> QED
    BY <1>6, <1>7, <1>10, <2>1 DEF Copied
<1>11. \A r : newest(r)' <=> newest(r)
  BY <1>5 DEF newest
<1>12. Copied'
  BY <1>5, <1>8, <1>9, <1>10, <1>11 DEF Copied
<1>13. Tables' /\ Locks'
  BY <1>5, <1>6 DEF DInv, Tables, Locks, Clocked, locked
<1>14. \A s \in Sessions : Progress(s)' /\ Latest(s)'
  BY <1>5, SessionKept DEF DInv
<1>15. /\ \A o \in Orders : o \in silent' \/ Told(<<"work_order", o>>, order[o].version)'
       /\ \A e \in TimeEntries : Told(<<"time_entry", e>>, entry[e])'
  BY <1>5, <1>11 DEF DInv, Told
<1> QED
  BY <1>0, <1>5, <1>12, <1>13, <1>14, <1>15 DEF DInv

LEMMA NextDInv == DInv /\ [Next]_vars => DInv'
<1> SUFFICES ASSUME DInv, [Next]_vars PROVE DInv'
  OBVIOUS
<1>1. CASE UNCHANGED vars
  BY <1>1, UnchangedDInv
<1>2. ASSUME NEW s \in Sessions, Begin(s) PROVE DInv'
  BY <1>2, BeginDInv
<1>3. ASSUME NEW s \in Sessions, Run(s) PROVE DInv'
  BY <1>3, AuditDInv, AppendDInv, CommitDInv DEF Run
<1>4. ASSUME NEW s \in Sessions, Rollback(s) PROVE DInv'
  BY <1>4, RollbackDInv
<1>5. CASE Pull
  BY <1>5, PullDInv
<1> QED
  BY <1>1, <1>2, <1>3, <1>4, <1>5 DEF Next

(* CopyStaleHasCause: for any sessions, orders, page sizes and bounds, a     *)
(* device that has pulled everything there is has every order and time entry *)
(* as committed, but for the ones with a row it missed and the orders whose  *)
(* last change was to be billed.                                             *)
THEOREM CopyStaleHasCause == Spec => []StaleHasCause
<1>1. DInv => StaleHasCause
  <2> SUFFICES ASSUME DInv, \A r \in change_feed : r.cursor <= since
               PROVE  /\ \A o \in Orders : \/ copy[<<"work_order", o>>] = order[o].version
                                            \/ o \in silent
                                            \/ \E r \in missed : r.entity = <<"work_order", o>>
                      /\ \A e \in TimeEntries : \/ copy[<<"time_entry", e>>] = entry[e]
                                                 \/ \E r \in missed : r.entity = <<"time_entry", e>>
    BY DEF StaleHasCause
  <2>1. ASSUME NEW e \in Entities, NEW version, Told(e, version)
        PROVE  copy[e] = version \/ \E r \in missed : r.entity = e
    <3>1. CASE version = 0 /\ \A r \in change_feed : r.entity # e
      BY <3>1 DEF DInv, Copied
    <3>2. ASSUME NEW r \in change_feed, r.entity = e, r.version = version, newest(r)
          PROVE  copy[e] = version \/ \E q \in missed : q.entity = e
      BY <3>2 DEF DInv, Copied, missed
    <3> QED
      BY <2>1, <3>1, <3>2 DEF Told
  <2>2. ASSUME NEW o \in Orders
        PROVE  \/ copy[<<"work_order", o>>] = order[o].version
               \/ o \in silent
               \/ \E r \in missed : r.entity = <<"work_order", o>>
    <3>1. o \in silent \/ Told(<<"work_order", o>>, order[o].version)
      BY DEF DInv
    <3>2. <<"work_order", o>> \in Entities
      BY DEF Entities
    <3> QED
      BY <2>1, <3>1, <3>2
  <2>3. ASSUME NEW e \in TimeEntries
        PROVE  \/ copy[<<"time_entry", e>>] = entry[e]
               \/ \E r \in missed : r.entity = <<"time_entry", e>>
    <3>1. Told(<<"time_entry", e>>, entry[e])
      BY DEF DInv
    <3>2. <<"time_entry", e>> \in Entities
      BY DEF Entities
    <3> QED
      BY <2>1, <3>1, <3>2
  <2> QED
    BY <2>2, <2>3
<1> QED
  BY <1>1, InitDInv, NextDInv, PTL DEF Spec

-----------------------------------------------------------------------------
(* The versions a device has are committed ones.                             *)
versionOf(e) == IF e[1] = "work_order" THEN order[e[2]].version ELSE entry[e[2]]

NeverAhead == \A e \in Entities : copy[e] <= versionOf(e)

VersionInv ==
    /\ \A e \in TimeEntries : entry[e] \in 0 .. 2
    /\ \A r \in change_feed : r.version \in 0 .. versionOf(r.entity)
    /\ \A e \in Entities : copy[e] \in 0 .. versionOf(e)

LEMMA VersionType ==
    ASSUME DInv, NEW e \in Entities
    PROVE  versionOf(e) \in Nat
<1>1. \/ e[1] = "work_order" /\ e[2] \in Orders
      \/ e[1] = "time_entry" /\ e[2] \in TimeEntries
  BY DEF Entities
<1>2. /\ \A o \in Orders : order[o].version \in Nat
      /\ \A t \in TimeEntries : entry[t] \in Nat
  BY DEF DInv, Tables, Order
<1> QED
  BY <1>1, <1>2 DEF versionOf

(* Among rows there is a last one: a row of the largest cursor. *)
LEMMA LastRow ==
    ASSUME NEW S, IsFiniteSet(S), S # {}, \A r \in S : r.cursor \in Nat
    PROVE  \E r \in S : \A q \in S : q.cursor <= r.cursor
<1> DEFINE cursorOf == [r \in S |-> r.cursor]
           C == {r.cursor : r \in S}
<1>1. cursorOf \in Surjection(S, C)
  BY DEF Surjection
<1>2. IsFiniteSet(C) /\ C # {} /\ C \subseteq Nat
  BY <1>1, FS_Surjection
<1> HIDE DEF C
<1>3. PICK c \in C : \A d \in C : d <= c
  BY <1>2, LargestNumber
<1> QED
  BY <1>3 DEF C

(* Tables that are left alone. *)
LEMMA VersionsKept ==
    ASSUME VersionInv, UNCHANGED <<order, entry, change_feed, copy>>
    PROVE  VersionInv'
BY DEF VersionInv, versionOf

(* A commit raises the version of what its rows are of, and of nothing else. *)
LEMMA CommitVersions ==
    ASSUME DInv, VersionInv, NEW s \in Sessions, Commit(s)
    PROVE  VersionInv'
<1>1. PICK o, op : o = tx[s].of /\ op = tx[s].op
  OBVIOUS
<1>2. /\ o \in Orders /\ op \in Operations /\ tx[s] # Idle
      /\ clocks(op) <=> tx[s].entry \in TimeEntries
      /\ \A p \in Orders \ {o} : order'[p] = order[p]
      /\ order'[o].version = order[o].version + (IF audited(op) THEN 1 ELSE 0)
      /\ \A e \in TimeEntries : entry'[e] = entry[e] + (IF e = tx[s].entry THEN 1 ELSE 0)
  BY <1>1, CommitTables
<1>3. change_feed' = change_feed \cup appended[s] /\ copy' = copy
  BY DEF Commit, End, device
<1>4. /\ \A p \in Orders : order[p].version \in Nat
      /\ \A e \in TimeEntries : entry[e] \in Nat
  BY DEF DInv, Tables, Order
<1>5. clocks(op) => entry[tx[s].entry] \in {0, 1}
  BY <1>1, <1>2 DEF DInv, Locks, Clocked, clocks
<1>6. \A e \in TimeEntries : entry'[e] \in 0 .. 2
  BY <1>2, <1>4, <1>5 DEF VersionInv
<1>7. ASSUME NEW e \in Entities
      PROVE  /\ versionOf(e) \in Nat /\ versionOf(e)' \in Nat
             /\ versionOf(e) <= versionOf(e)'
  <2>1. CASE e[1] = "work_order" /\ e[2] \in Orders
    <3>1. /\ order'[e[2]].version \in Nat /\ order[e[2]].version <= order'[e[2]].version
          /\ order[e[2]].version \in Nat
      BY <1>2, <1>4, <2>1
    <3> QED
      BY <2>1, <3>1 DEF versionOf
  <2>2. CASE e[1] = "time_entry" /\ e[2] \in TimeEntries
    <3>1. /\ entry'[e[2]] \in Nat /\ entry[e[2]] <= entry'[e[2]]
          /\ entry[e[2]] \in Nat
      BY <1>2, <1>4, <2>2
    <3> QED
      BY <2>2, <3>1 DEF versionOf
  <2> QED
    BY <2>1, <2>2 DEF Entities
<1>8. ASSUME NEW r \in appended[s] PROVE r.version \in 0 .. versionOf(r.entity)'
  <2>1. \/ r.entity = work(s) /\ audited(op)
        \/ r.entity = time(s) /\ clocks(op)
    BY <1>1, RowOf
  <2>2. /\ r.entity = work(s) => r.version = order[o].version + 1
        /\ r.entity = time(s) => r.version = entry[tx[s].entry] + 1
    BY <1>1 DEF DInv, Latest
  <2>3. CASE r.entity = work(s) /\ audited(op)
    <3>1. versionOf(r.entity)' = order'[o].version
      BY <1>1, <2>3 DEF versionOf, work
    <3> QED
      BY <1>2, <1>4, <2>2, <2>3, <3>1
  <2>4. CASE r.entity = time(s) /\ clocks(op)
    <3>1. versionOf(r.entity)' = entry'[tx[s].entry]
      BY <2>4 DEF versionOf, time
    <3> QED
      BY <1>2, <1>4, <2>2, <2>4, <3>1
  <2> QED
    BY <2>1, <2>3, <2>4
<1>9. ASSUME NEW r \in change_feed PROVE r.version \in 0 .. versionOf(r.entity)'
  <2>1. r.entity \in Entities /\ r.version \in 0 .. versionOf(r.entity)
    BY DEF DInv, VersionInv
  <2> QED
    BY <2>1, <1>7
<1>10. \A e \in Entities : copy'[e] \in 0 .. versionOf(e)'
  BY <1>3, <1>7 DEF VersionInv
<1> QED
  BY <1>3, <1>6, <1>8, <1>9, <1>10 DEF VersionInv

(* A pull takes the version of the last row there is of an entity in it.     *)
LEMMA PullVersions ==
    ASSUME DInv, VersionInv, Pull
    PROVE  VersionInv'
<1>1. PICK limit \in 1 .. MaxLimit :
          copy' = [e \in Entities |->
              LET S == {r \in page(limit) : r.entity = e} IN
              IF S = {} THEN copy[e]
              ELSE (CHOOSE r \in S : \A q \in S : q.cursor <= r.cursor).version]
  BY DEF Pull
<1>2. UNCHANGED <<order, entry, change_feed>>
  BY DEF Pull, tables
<1>3. ASSUME NEW e \in Entities PROVE copy'[e] \in 0 .. versionOf(e)
  <2>1. PICK S : S = {r \in page(limit) : r.entity = e}
    OBVIOUS
  <2>2. copy'[e] = IF S = {} THEN copy[e]
                   ELSE (CHOOSE r \in S : \A q \in S : q.cursor <= r.cursor).version
    BY <1>1, <2>1
  <2>3. S \in SUBSET change_feed /\ \A r \in S : r.entity = e
    BY <2>1 DEF page
  <2>4. CASE S = {}
    BY <2>2, <2>4 DEF VersionInv
  <2>5. CASE S # {}
    <3>1. IsFiniteSet(S)
      BY <2>3, FS_Subset DEF DInv, IInv, TxOK
    <3>2. /\ \A r \in S : r.cursor \in Nat
          /\ \A r, q \in S : r.cursor = q.cursor => r = q
      BY <2>3 DEF DInv, IInv, Cursors, RowOK
    <3>3. PICK p : p = CHOOSE r \in S : \A q \in S : q.cursor <= r.cursor
      OBVIOUS
    <3>4. p \in S
      BY <2>5, <3>1, <3>2, <3>3, LastRow
    <3> QED
      BY <2>2, <2>3, <2>5, <3>3, <3>4 DEF VersionInv
  <2> QED
    BY <2>4, <2>5
<1> QED
  BY <1>2, <1>3 DEF VersionInv, versionOf

LEMMA NextVersions == DInv /\ VersionInv /\ [Next]_vars => VersionInv'
<1> SUFFICES ASSUME DInv, VersionInv, [Next]_vars PROVE VersionInv'
  OBVIOUS
<1>1. CASE UNCHANGED vars
  BY <1>1, VersionsKept DEF vars, tables, device
<1>2. ASSUME NEW s \in Sessions, Begin(s) \/ Audit(s) \/ append(s) \/ Rollback(s) PROVE VersionInv'
  BY <1>2, VersionsKept DEF Begin, Audit, append, Rollback, End, tables, device
<1> QED
  BY <1>1, <1>2, CommitVersions, PullVersions DEF Next, Run

LEMMA SpecVersions == Spec => [](DInv /\ VersionInv)
<1>1. Init => VersionInv
  <2> SUFFICES ASSUME Init PROVE VersionInv
    OBVIOUS
  <2>1. /\ \A o \in Orders : order[o].version = 0
        /\ \A e \in TimeEntries : entry[e] = 0
    BY DEF Init
  <2>2. \A e \in Entities : versionOf(e) = 0 /\ copy[e] = 0
    BY <2>1 DEF Init, Entities, versionOf
  <2> QED
    BY <2>2 DEF Init, VersionInv
<1> QED
  BY <1>1, InitDInv, NextDInv, NextVersions, PTL DEF Spec

(* CopyIsNeverAhead: whatever pages the device pulls between which commits,   *)
(* it never has a version of an order or a time entry that is not committed:  *)
(* a row of the feed is committed with what it tells (append, pull).         *)
THEOREM CopyIsNeverAhead == Spec => []NeverAhead
<1>1. DInv /\ VersionInv => NeverAhead
  <2> SUFFICES ASSUME DInv, VersionInv, NEW e \in Entities PROVE copy[e] <= versionOf(e)
    BY DEF NeverAhead
  <2>1. versionOf(e) \in Nat /\ copy[e] \in 0 .. versionOf(e)
    BY VersionType DEF VersionInv
  <2> QED
    BY <2>1
<1> QED
  BY <1>1, SpecVersions, PTL

(* FeedTypeCorrect: rows keep their shape, an entry runs and ends once, and   *)
(* neither a row nor the device is past the last cursor given out.           *)
THEOREM FeedTypeCorrect == Spec => []TypeOK
<1>1. DInv /\ VersionInv => TypeOK
  <2> SUFFICES ASSUME DInv, VersionInv PROVE TypeOK
    OBVIOUS
  <2>1. \A e \in Entities : versionOf(e) \in Nat /\ copy[e] \in Nat
    BY VersionType DEF VersionInv
  <2>2. copy \in [Entities -> Nat]
    BY <2>1 DEF DInv, Tables
  <2>3. entry \in [TimeEntries -> 0 .. 2]
    BY DEF DInv, Tables, VersionInv
  <2>4. since < nextval
    BY DEF DInv, IInv, SinceGiven, Cursors, RowOK
  <2>5. ASSUME NEW s \in Sessions, NEW r \in appended[s]
        PROVE  r.cursor < nextval /\ r.entity \in Entities
    <3>0. /\ tx[s].of \in Orders
          /\ r.entity = work(s) \/ (r.entity = time(s) /\ tx[s].entry \in TimeEntries)
      BY <2>5, RowOf
    <3>1. r.entity \in Entities
      BY <3>0 DEF work, time, Entities
    <3> QED
      BY <3>1, <2>5 DEF DInv, IInv, Cursors, RowOK
  <2>6. \A r \in change_feed : r.cursor < nextval /\ r.entity \in Entities
    BY DEF DInv, IInv, Cursors, RowOK
  <2>7. order \in [Orders -> Order] /\ tip \subseteq Sessions
    BY DEF DInv, Tables, IInv, TxOK
  <2> QED
    BY <2>2, <2>3, <2>4, <2>5, <2>6, <2>7 DEF TypeOK, Order
<1> QED
  BY <1>1, SpecVersions, PTL
=============================================================================
