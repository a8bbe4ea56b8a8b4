----------------------------- MODULE ChangeFeed -----------------------------
(***************************************************************************)
(* The change feed: transactions that change orders and time entries append *)
(* a row with the next cursor, and a device pulls the rows after the last   *)
(* cursor it saw.                                                           *)
(*                                                                          *)
(* A cursor is drawn from a sequence when the row is inserted and seen by   *)
(* others only after the commit.  What keeps the two orders together is not *)
(* the feed but the audit log: a transaction that has appended to it holds  *)
(* the tenant's last audit row until it ends, and the ones that are audited *)
(* are audited before they append to the feed.  Clocking off, and clocking  *)
(* on to a job that has begun, are not audited; billing is, but appends     *)
(* nothing to the feed.                                                     *)
(*                                                                          *)
(* An order has several time entries, of several mechanics or of one who    *)
(* comes back; each is an entity of the feed.                               *)
(***************************************************************************)
EXTENDS Naturals, Sequences, FiniteSets

CONSTANTS Sessions,
          Orders,
          TimeEntries,
          jobOf,      \* the order of a time entry
          NoEntry,    \* what a transaction has that neither clocks on nor off
          MaxLimit,   \* most rows a pull may ask for
          MaxChanges, \* bound: transactions
          MaxFaults   \* bound: transactions that fail

ASSUME ChangeFeedAssumption ==
    /\ jobOf \in [TimeEntries -> Orders]
    /\ NoEntry \notin TimeEntries
    /\ MaxLimit \in Nat \ {0}
    /\ {MaxChanges, MaxFaults} \subseteq Nat

VARIABLES order,       \* status and version (0: not created)
          entry,       \* version of a time entry: 0 none, 1 running, 2 ended
          change_feed, \* committed rows
          nextval,     \* the next cursor
          tx,          \* a session's transaction: what it changes, what it has still to do
          appended,    \* its rows in the feed, not committed
          tip,         \* the sessions that hold the last audit row
          since, copy, received, \* the device: last cursor, versions, cursors it was given
          silent,      \* history: orders whose last change was not told to the feed
          changes, faults

tables == <<order, entry, change_feed>>
device == <<since, copy, received>>
vars == <<tables, nextval, tx, appended, tip, device, silent, changes, faults>>

Idle == [op |-> "idle", todo |-> <<>>]
Entities == ({"work_order"} \X Orders) \cup ({"time_entry"} \X TimeEntries)
Operations == {"create", "edit", "open", "start", "bill", "clockOn", "resume", "clockOff"}
clocks(op) == op \in {"clockOn", "resume", "clockOff"}
audited(op) == op \notin {"resume", "clockOff"}

(* The statements of an operation after its row lock: the audit entry and    *)
(* the rows of the feed.                                                     *)
(* Mutant: the feed is written before the audit log. *)
stepsFeedFirst(op) ==
    CASE op \in {"create", "edit", "open", "start"} -> <<"work_order", "audit">>
      [] op = "bill" -> <<"audit">>
      [] op = "clockOn" -> <<"work_order", "audit", "time_entry">>
      [] op \in {"resume", "clockOff"} -> <<"time_entry">>
(* Mutant: an edit of an order is not told to the feed. *)
stepsEditSilent(op) ==
    CASE op \in {"create", "open", "start"} -> <<"audit", "work_order">>
      [] op \in {"edit", "bill"} -> <<"audit">>
      [] op = "clockOn" -> <<"audit", "work_order", "time_entry">>
      [] op \in {"resume", "clockOff"} -> <<"time_entry">>
steps(op) ==
    CASE op \in {"create", "edit", "open", "start"} -> <<"audit", "work_order">>
      [] op = "bill" -> <<"audit">>
      [] op = "clockOn" -> <<"audit", "work_order", "time_entry">>
      [] op \in {"resume", "clockOff"} -> <<"time_entry">>

-----------------------------------------------------------------------------
Init ==
    /\ order = [o \in Orders |-> [status |-> "none", version |-> 0]]
    /\ entry = [e \in TimeEntries |-> 0]
    /\ change_feed = {}
    /\ nextval = 1
    /\ tx = [s \in Sessions |-> Idle]
    /\ appended = [s \in Sessions |-> {}]
    /\ tip = {}
    /\ since = 0
    /\ copy = [e \in Entities |-> 0]
    /\ received = {}
    /\ silent = {}
    /\ changes = 0 /\ faults = 0

(* What may be asked of an order or time entry as it is: edit is a line      *)
(* added, removed or repriced, an assignment or a status that makes no       *)
(* difference here; open and start are moves along the table of statuses.    *)
(* Clocking on begins an open job (clockOn) or adds to a running one         *)
(* (resume: a second mechanic, or one who comes back).                       *)
possible(op, o, e) ==
    CASE op = "create" -> order[o].status = "none"
      [] op = "edit" -> order[o].status # "none"
      [] op = "open" -> order[o].status = "draft"
      [] op = "start" -> order[o].status = "open"
      [] op = "bill" -> order[o].status \notin {"none", "invoiced"}
      [] op = "clockOn" -> order[o].status = "open" /\ entry[e] = 0
      [] op = "resume" -> order[o].status = "in_progress" /\ entry[e] = 0
      [] op = "clockOff" -> entry[e] = 1

(* clockOff locks the time entry, the others the order (create its key).     *)
locked(t) == IF t.op = "clockOff" THEN <<"time_entry", t.entry>> ELSE <<"work_order", t.of>>
Free(t) == \A s \in Sessions : tx[s] # Idle => locked(tx[s]) # locked(t)

(* What an operation is about: its order, and the time entry if it clocks.   *)
target(op, o, e) == IF clocks(op) THEN e \in TimeEntries /\ o = jobOf[e] ELSE e = NoEntry

Begin(s) ==
    /\ tx[s] = Idle
    /\ changes < MaxChanges
    /\ changes' = changes + 1
    /\ \E op \in Operations, o \in Orders, e \in TimeEntries \cup {NoEntry} :
          LET t == [op |-> op, of |-> o, entry |-> e, todo |-> steps(op)] IN
          /\ target(op, o, e) /\ Free(t) /\ possible(op, o, e)
          /\ tx' = [tx EXCEPT ![s] = t]
    /\ UNCHANGED <<tables, nextval, appended, tip, device, silent, faults>>

doing(s, what) == tx[s].todo # <<>> /\ Head(tx[s].todo) = what
done(s) == tx' = [tx EXCEPT ![s].todo = Tail(@)]

(* AuditService.append: waits for the last audit row.                        *)
Audit(s) ==
    /\ doing(s, "audit")
    /\ tip = {}
    /\ tip' = {s}
    /\ done(s)
    /\ UNCHANGED <<tables, nextval, appended, device, silent, changes, faults>>

(* What a row is of, and the version the operation leaves it.                *)
entity(s, type) == <<type, IF type = "work_order" THEN tx[s].of ELSE tx[s].entry>>
newVersion(s, type) ==
    IF type = "work_order" THEN order[tx[s].of].version + 1 ELSE entry[tx[s].entry] + 1

(* ChangeFeedService.append: the row gets its cursor now.                    *)
append(s) ==
    /\ \E type \in {"work_order", "time_entry"} :
          /\ doing(s, type)
          /\ appended' = [appended EXCEPT ![s] = @ \cup
                 {[cursor |-> nextval, entity |-> entity(s, type),
                   version |-> newVersion(s, type), audited |-> audited(tx[s].op)]}]
    /\ nextval' = nextval + 1
    /\ done(s)
    /\ UNCHANGED <<tables, tip, device, silent, changes, faults>>

statusAfter(op, status) ==
    CASE op = "create" -> "draft"
      [] op = "open" -> "open"
      [] op = "bill" -> "invoiced"
      [] op \in {"start", "clockOn"} -> "in_progress"
      [] OTHER -> status

End(s) ==
    /\ tx' = [tx EXCEPT ![s] = Idle]
    /\ appended' = [appended EXCEPT ![s] = {}]
    /\ tip' = tip \ {s}
    /\ UNCHANGED <<nextval, device, changes>>

Commit(s) ==
    /\ tx[s] # Idle /\ tx[s].todo = <<>>
    /\ LET o == tx[s].of
           op == tx[s].op
       IN /\ order' = [order EXCEPT ![o].status = statusAfter(op, @),
                                    ![o].version = IF audited(op) THEN @ + 1 ELSE @]
          /\ entry' = [e \in TimeEntries |-> IF e = tx[s].entry THEN entry[e] + 1 ELSE entry[e]]
          /\ silent' = CASE op = "bill" -> silent \cup {o}
                         [] op # "bill" /\ audited(op) -> silent \ {o}
                         [] OTHER -> silent
    /\ change_feed' = change_feed \cup appended[s]
    /\ End(s)
    /\ UNCHANGED faults

(* A failed transaction leaves a gap in the cursors and nothing else.        *)
Rollback(s) ==
    /\ tx[s] # Idle
    /\ faults < MaxFaults
    /\ faults' = faults + 1
    /\ End(s)
    /\ UNCHANGED <<tables, silent>>

-----------------------------------------------------------------------------
(* pull: the first rows after a cursor.                                      *)
(* Mutant: cursors are taken to have no gaps. *)
pageGapless(limit) == {r \in change_feed : r.cursor \in since + 1 .. since + limit}
page(limit) ==
    LET after == {r \in change_feed : r.cursor > since}
    IN {r \in after : Cardinality({q \in after : q.cursor < r.cursor}) < limit}

(* The device replays the rows in order and keeps nextCursor.                *)
Pull ==
    /\ \E limit \in 1 .. MaxLimit : \E last \in page(limit) :
          LET of(e) == {r \in page(limit) : r.entity = e} IN
          /\ \A r \in page(limit) : r.cursor <= last.cursor
          /\ since' = last.cursor
          /\ received' = received \cup {r.cursor : r \in page(limit)}
          /\ copy' = [e \in Entities |->
                 IF of(e) = {} THEN copy[e]
                 ELSE (CHOOSE r \in of(e) : \A q \in of(e) : q.cursor <= r.cursor).version]
    /\ UNCHANGED <<tables, nextval, tx, appended, tip, silent, changes, faults>>

Run(s) == Audit(s) \/ append(s) \/ Commit(s)
Next == (\E s \in Sessions : Begin(s) \/ Run(s) \/ Rollback(s)) \/ Pull

Spec == Init /\ [][Next]_vars

(* The server goes on with what it has begun; the device pulls again.        *)
FairSpec == Spec /\ WF_vars(Pull) /\ \A s \in Sessions : WF_vars(Run(s))

-----------------------------------------------------------------------------
missed == {r \in change_feed : r.cursor <= since /\ r.cursor \notin received}

TypeOK ==
    /\ order \in [Orders -> [status : {"none", "draft", "open", "in_progress", "invoiced"},
                             version : Nat]]
    /\ entry \in [TimeEntries -> 0 .. 2]
    /\ tip \subseteq Sessions
    /\ \A s \in Sessions : \A r \in change_feed \cup appended[s] :
          r.cursor < nextval /\ r.entity \in Entities
    /\ since < nextval
    /\ copy \in [Entities -> Nat]

(* MissHasCause: a device misses a committed change only around one that was *)
(* not audited (clocking off, or on to a running job): the missed one itself, *)
(* or one with a later cursor that the device was given first.               *)
MissHasCause ==
    \A r \in missed :
        ~r.audited \/ \E q \in change_feed : q.cursor \in received /\ q.cursor > r.cursor /\ ~q.audited

(* StaleHasCause: a device that has pulled everything there is has every     *)
(* order and time entry as committed, but for those with a missed row and    *)
(* the orders whose last change was to be billed.                            *)
StaleHasCause ==
    (\A r \in change_feed : r.cursor <= since) =>
        /\ \A o \in Orders : \/ copy[<<"work_order", o>>] = order[o].version
                              \/ o \in silent
                              \/ \E r \in missed : r.entity = <<"work_order", o>>
        /\ \A e \in TimeEntries : \/ copy[<<"time_entry", e>>] = entry[e]
                                   \/ \E r \in missed : r.entity = <<"time_entry", e>>

(* CatchesUp: the device gets past every committed row, whatever the size of *)
(* its pulls.                                                                *)
CatchesUp ==
    \A c \in 1 .. 2 * MaxChanges :
        (\E r \in change_feed : r.cursor = c) ~> (since >= c)
=============================================================================
