--------------------------- MODULE DocumentLedger ---------------------------
(***************************************************************************)
(* One tenant's numbered, audited business transactions, as the API runs   *)
(* them on PostgreSQL in READ COMMITTED isolation.                         *)
(*                                                                         *)
(* A transaction opened by PgService.withTenant looks its document up,     *)
(* takes the next number of a series (CounterService.next), inserts the    *)
(* document, appends to the audit chain (AuditService.append) and commits; *)
(* or it rolls back, for whatever reason, and leaves nothing.  Many of     *)
(* them run at once, in one API process or in several: the database        *)
(* interleaves them statement by statement.                                *)
(*                                                                         *)
(* counter, docs and log are the committed rows.  What a transaction has   *)
(* written and not committed, and the row locks it holds, follow from how  *)
(* far it has come: pc, req, num and tip.                                  *)
(***************************************************************************)
EXTENDS Integers, Sequences, FiniteSets

CONSTANTS Tx,      \* the transactions of a behaviour, each run once
          Series,  \* (doc_type, year) keys of app.document_counters
          Ids,     \* document ids; a tablet may send the same id twice
          Unnumbered  \* request of a transaction that takes no number

Request == [series : Series, id : Ids]

ASSUME UnnumberedAssumption == Unnumbered \notin Request

VARIABLES counter,  \* app.document_counters.value of each series
          docs,     \* committed document headers
          log,      \* committed rows of app.audit_log
          pc,       \* next statement of each transaction
          req,      \* what each transaction was asked to do
          num,      \* the number it took, not yet committed
          tip,      \* {} or {e}: the row its SELECT ... LIMIT 1 returned
          outcome   \* how it ended

vars == <<counter, docs, log, pc, req, num, tip, outcome>>

-----------------------------------------------------------------------------
(* The audit chain.  A hash is the list of everything hashed into it, so    *)
(* that two hashes are equal only if their whole histories are: the model   *)
(* of a collision-free SHA-256 over (previous hash, entry).                 *)

Genesis == <<>>
computeHash(prevHash, t) == Append(prevHash, t)

Entry == [seq : Nat \ {0}, tx : Tx, prevHash : Seq(Tx), hash : Seq(Tx)]

(* appendEntry(prev, input): prev is {} (null) or {the previous entry}.     *)
prevSeq(prev) == IF prev = {} THEN 0 ELSE (CHOOSE e \in prev : TRUE).seq
prevHashOf(prev) == IF prev = {} THEN Genesis ELSE (CHOOSE e \in prev : TRUE).hash
appendEntry(prev, t) ==
    [seq      |-> prevSeq(prev) + 1,
     tx       |-> t,
     prevHash |-> prevHashOf(prev),
     hash     |-> computeHash(prevHashOf(prev), t)]

(* The committed rows ORDER BY seq DESC LIMIT 1. *)
lastRow == {e \in log : \A f \in log : f.seq <= e.seq}

-----------------------------------------------------------------------------
(* Row locks, held from the statement that takes them to the end of the     *)
(* transaction.                                                             *)

Active == {"lookup", "next", "insert", "audit", "wait", "append", "commit"}
HoldingNumber == {"insert", "audit", "wait", "append", "commit"}
HoldingHeader == {"audit", "wait", "append", "commit"}

numbered(t) == req[t] # Unnumbered
(* Mutant: the counter lock outlives its transaction (a session lock). *)
HoldsCounterForSession(t, s) ==
    pc[t] \in HoldingNumber \cup {"done"} /\ num[t] > 0 /\ numbered(t) /\ req[t].series = s
HoldsCounter(t, s) == pc[t] \in HoldingNumber /\ numbered(t) /\ req[t].series = s
HoldsHeader(t, i) == pc[t] \in HoldingHeader /\ numbered(t) /\ req[t].id = i
HoldsTip(t, e) == pc[t] \in {"append", "commit"} /\ e \in tip[t]

(* The audit row a transaction has inserted or is about to insert. *)
entryOf(t) == appendEntry(tip[t], t)

-----------------------------------------------------------------------------
Init ==
    /\ counter = [s \in Series |-> 0]
    /\ docs = {}
    /\ log = {}
    /\ pc = [t \in Tx |-> "idle"]
    /\ req = [t \in Tx |-> Unnumbered]
    /\ num = [t \in Tx |-> 0]
    /\ tip = [t \in Tx |-> {}]
    /\ outcome = [t \in Tx |-> "open"]

Finish(t, how) ==
    /\ pc' = [pc EXCEPT ![t] = "done"]
    /\ outcome' = [outcome EXCEPT ![t] = how]

(* BEGIN, the tenant GUC and the role; the request says what comes next. *)
Begin(t) ==
    /\ pc[t] = "idle"
    /\ \/ /\ pc' = [pc EXCEPT ![t] = "audit"]
          /\ UNCHANGED req
       \/ /\ pc' = [pc EXCEPT ![t] = "lookup"]
          /\ \E r \in Request : req' = [req EXCEPT ![t] = r]
    /\ UNCHANGED <<counter, docs, log, num, tip, outcome>>

(* The unlocked lookup of create: a replay of a committed document returns  *)
(* it and writes nothing.                                                   *)
Lookup(t) ==
    /\ pc[t] = "lookup"
    /\ IF \E d \in docs : d.id = req[t].id
       THEN Finish(t, "replayed")
       ELSE pc' = [pc EXCEPT ![t] = "next"] /\ UNCHANGED outcome
    /\ UNCHANGED <<counter, docs, log, req, num, tip>>

(* Mutant: the row is read without FOR UPDATE. *)
AllocateNumberUnlocked(t) ==
    /\ pc[t] = "next"
    /\ num' = [num EXCEPT ![t] = counter[req[t].series] + 1]
    /\ pc' = [pc EXCEPT ![t] = "insert"]
    /\ UNCHANGED <<counter, docs, log, req, tip, outcome>>

(* CounterService.next: create the row if absent, SELECT ... FOR UPDATE,    *)
(* nextCounter, UPDATE.  The insert and the select both wait for a holder.  *)
AllocateNumber(t) ==
    /\ pc[t] = "next"
    /\ \A u \in Tx : ~HoldsCounter(u, req[t].series)
    /\ num' = [num EXCEPT ![t] = counter[req[t].series] + 1]
    /\ pc' = [pc EXCEPT ![t] = "insert"]
    /\ UNCHANGED <<counter, docs, log, req, tip, outcome>>

(* Mutant: a table without the primary key. *)
InsertHeaderUnchecked(t) ==
    /\ pc[t] = "insert"
    /\ pc' = [pc EXCEPT ![t] = "audit"]
    /\ UNCHANGED <<counter, docs, log, req, num, tip, outcome>>

(* The header's INSERT: its primary key waits for an uncommitted twin and   *)
(* fails on a committed one, which rolls the whole transaction back.        *)
InsertHeader(t) ==
    /\ pc[t] = "insert"
    /\ \A u \in Tx : ~HoldsHeader(u, req[t].id)
    /\ IF \E d \in docs : d.id = req[t].id
       THEN Finish(t, "duplicate")
       ELSE pc' = [pc EXCEPT ![t] = "audit"] /\ UNCHANGED outcome
    /\ UNCHANGED <<counter, docs, log, req, num, tip>>

(* AuditService.append, first half: the statement's snapshot fixes the row. *)
ReadTip(t) ==
    /\ pc[t] = "audit"
    /\ tip' = [tip EXCEPT ![t] = lastRow]
    /\ pc' = [pc EXCEPT ![t] = "wait"]
    /\ UNCHANGED <<counter, docs, log, req, num, outcome>>

(* FOR UPDATE is granted.  The row itself was never updated, so READ        *)
(* COMMITTED returns it as first read, however long the wait has been; an   *)
(* empty result locks nothing.                                              *)
LockTip(t) ==
    /\ pc[t] = "wait"
    /\ \A u \in Tx, e \in tip[t] : ~HoldsTip(u, e)
    /\ pc' = [pc EXCEPT ![t] = "append"]
    /\ UNCHANGED <<counter, docs, log, req, num, tip, outcome>>

(* Mutant: a table without UNIQUE (tenant_id, seq). *)
AppendAuditUnchecked(t) ==
    /\ pc[t] = "append"
    /\ pc' = [pc EXCEPT ![t] = "commit"]
    /\ UNCHANGED <<counter, docs, log, req, num, tip, outcome>>

(* The audit INSERT, under UNIQUE (tenant_id, seq): it waits for an         *)
(* uncommitted row with its seq, fails on a committed one.                  *)
AppendAudit(t) ==
    /\ pc[t] = "append"
    /\ \A u \in Tx : pc[u] = "commit" => entryOf(u).seq # entryOf(t).seq
    /\ IF \E e \in log : e.seq = entryOf(t).seq
       THEN Finish(t, "conflict")
       ELSE pc' = [pc EXCEPT ![t] = "commit"] /\ UNCHANGED outcome
    /\ UNCHANGED <<counter, docs, log, req, num, tip>>

(* COMMIT makes the counter, the document and the audit row visible at once, *)
(* and releases every lock.                                                  *)
Commit(t) ==
    /\ pc[t] = "commit"
    /\ log' = log \cup {entryOf(t)}
    /\ IF numbered(t)
       THEN /\ counter' = [counter EXCEPT ![req[t].series] = num[t]]
            /\ docs' = docs \cup {[id |-> req[t].id, series |-> req[t].series,
                                   number |-> num[t]]}
       ELSE UNCHANGED <<counter, docs>>
    /\ Finish(t, "committed")
    /\ UNCHANGED <<req, num, tip>>

(* Mutant: the audit row is written outside the business transaction. *)
RollbackKeepsAudit(t) ==
    /\ pc[t] \in Active
    /\ Finish(t, "rolledback")
    /\ log' = IF pc[t] = "commit" THEN log \cup {entryOf(t)} ELSE log
    /\ UNCHANGED <<counter, docs, req, num, tip>>

(* A thrown domain error, a broken connection, a killed API process: the    *)
(* database drops every write and every lock of the transaction.            *)
Rollback(t) ==
    /\ pc[t] \in Active
    /\ Finish(t, "rolledback")
    /\ UNCHANGED <<counter, docs, log, req, num, tip>>

Step(t) == \/ Lookup(t) \/ AllocateNumber(t) \/ InsertHeader(t)
           \/ ReadTip(t) \/ LockTip(t) \/ AppendAudit(t) \/ Commit(t)

(* Every transaction has ended: a bounded behaviour stops here. *)
AllDone == (\A t \in Tx : pc[t] = "done") /\ UNCHANGED vars

Next == AllDone \/ \E t \in Tx : Begin(t) \/ Step(t) \/ Rollback(t)

Spec == Init /\ [][Next]_vars

(* The database runs a statement that is not blocked, and grants a free     *)
(* lock to one of its waiters.  Nothing forces a rollback or a request.     *)
FairSpec == Spec /\ \A t \in Tx : WF_vars(Step(t))

-----------------------------------------------------------------------------
(* TypeOK: the rows and the per-transaction state have the shape the tables *)
(* and the services give them; a committed number is at least 1, which      *)
(* Sequence.formatNumber insists on.                                        *)
Document == [id : Ids, series : Series, number : Nat \ {0}]

TypeOK ==
    /\ counter \in [Series -> Nat]
    /\ docs \subseteq Document
    /\ log \subseteq Entry
    /\ pc \in [Tx -> Active \cup {"idle", "done"}]
    /\ req \in [Tx -> Request \cup {Unnumbered}]
    /\ num \in [Tx -> Nat]
    /\ tip \in [Tx -> SUBSET Entry]
    /\ outcome \in [Tx -> {"open", "committed", "replayed", "duplicate",
                            "conflict", "rolledback"}]

(* GaplessNumbering: whatever commits and whatever rolls back, the committed *)
(* documents of a series carry exactly the numbers 1..counter, each once: no *)
(* gap and no duplicate (counter.service.ts, "the sequence is always dense").*)
numbersOf(s) == {d.number : d \in {x \in docs : x.series = s}}

GaplessNumbering ==
    /\ \A s \in Series : numbersOf(s) = 1 .. counter[s]
    /\ \A d, e \in docs : d.series = e.series /\ d.number = e.number => d = e

(* OneDocumentPerId: two deliveries of the same offline create, at the same  *)
(* time or one after the other, never leave two documents                    *)
(* (work-orders.service.ts create, "idempotent offline replay").             *)
OneDocumentPerId == \A d, e \in docs : d.id = e.id => d = e

(* ChainIntact: Audit.verifyChain finds no break in the committed log: one   *)
(* entry per seq, no seq missing, every entry hashed over its predecessor.   *)
ChainIntact ==
    /\ \A e, f \in log : e.seq = f.seq => e = f
    /\ \A e \in log :
          /\ e.hash = computeHash(e.prevHash, e.tx)
          /\ \/ e.seq = 1 /\ e.prevHash = Genesis
             \/ \E p \in log : p.seq = e.seq - 1 /\ p.hash = e.prevHash

(* CommittedIffAudited: a business write and its audit entry stand or fall   *)
(* together: every committed transaction has its one entry and, if it took a *)
(* number, its document; no other transaction has left either.               *)
documentOf(t) == [id |-> req[t].id, series |-> req[t].series, number |-> num[t]]

CommittedIffAudited ==
    /\ \A t \in Tx : outcome[t] = "committed" <=> \E e \in log : e.tx = t
    /\ \A e, f \in log : e.tx = f.tx => e = f
    /\ \A t \in Tx : outcome[t] = "committed" /\ numbered(t) => documentOf(t) \in docs
    /\ \A d \in docs : \E t \in Tx :
          outcome[t] = "committed" /\ numbered(t) /\ d = documentOf(t)

(* Terminates: no transaction waits for ever on a counter, a primary key or  *)
(* the audit tip: every request that was begun is answered.                  *)
Terminates == \A t \in Tx : pc[t] # "idle" ~> pc[t] = "done"

(* AppendNeverFails: "concurrent appends for the same tenant serialise into  *)
(* one linear chain", "an audit write can never crash a business             *)
(* transaction" (audit.service.ts).  The code does not keep this.            *)
AppendNeverFails == \A t \in Tx : outcome[t] # "conflict"

-----------------------------------------------------------------------------
(* The refinement mapping to Ledger: a series in number order, and the      *)
(* chain that the last entry's hash stands for.                              *)
docAt(s, n) == CHOOSE d \in docs : d.series = s /\ d.number = n
issuedBar == [s \in Series |-> [n \in 1 .. counter[s] |-> docAt(s, n).id]]
chainBar == prevHashOf(lastRow)

Abstract == INSTANCE Ledger WITH issued <- issuedBar, chain <- chainBar

(* ImplementsLedger: seen from outside, every transaction that commits takes *)
(* effect in one step: next number of its series, next link of the chain.    *)
ImplementsLedger == Abstract!LedgerSpec
=============================================================================
