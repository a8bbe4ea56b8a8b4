------------------------ MODULE DocumentLedgerProofs ------------------------
(***************************************************************************)
(* Proofs about DocumentLedger, for any number of transactions, series and  *)
(* documents, and about the pool that gives its transactions connections.   *)
(*                                                                          *)
(* None of the safety invariants is inductive by itself: a committed number *)
(* is the next one only because its transaction still holds the counter     *)
(* row, a committed audit row extends the chain only because the row it was *)
(* hashed over is committed and no other row has its seq.  IInv adds what   *)
(* the open transactions know, one named part for each lock.                *)
(***************************************************************************)
EXTENDS DocumentLedger, ConnectionPool, SequenceTheorems, FiniteSetTheorems, TLAPS

(* The counter row: one holder, whose number is the next one. *)
CounterLock ==
    /\ \A t \in Tx : pc[t] = "idle" => ~numbered(t)
    /\ \A t \in Tx : pc[t] \in {"lookup", "next", "insert"} => numbered(t)
    /\ \A t, u \in Tx : \A s \in Series : HoldsCounter(t, s) /\ HoldsCounter(u, s) => t = u
    /\ \A t \in Tx : pc[t] \in HoldingNumber /\ numbered(t)
                        => num[t] = counter[req[t].series] + 1

(* The primary key: one uncommitted document per id, and none committed. *)
HeaderLock ==
    /\ \A t, u \in Tx : \A i \in Ids : HoldsHeader(t, i) /\ HoldsHeader(u, i) => t = u
    /\ \A t \in Tx : \A d \in docs : ~HoldsHeader(t, d.id)

(* The audit tip: what was read is committed; an inserted row has its seq    *)
(* to itself.                                                                *)
AuditTip ==
    /\ \A t \in Tx : pc[t] \in {"wait", "append", "commit"}
                        => tip[t] = {} \/ \E p \in log : tip[t] = {p}
    /\ \A t, u \in Tx : pc[t] = "commit" /\ pc[u] = "commit"
                           /\ entryOf(t).seq = entryOf(u).seq => t = u
    /\ \A t \in Tx : \A e \in log : pc[t] = "commit" => e.seq # entryOf(t).seq

(* A transaction that has not ended has no outcome. *)
OpenUntilDone == \A t \in Tx : pc[t] # "done" => outcome[t] = "open"

IInv ==
    /\ TypeOK
    /\ CounterLock
    /\ HeaderLock
    /\ AuditTip
    /\ OpenUntilDone
    /\ GaplessNumbering
    /\ OneDocumentPerId
    /\ ChainIntact
    /\ CommittedIffAudited

-----------------------------------------------------------------------------
(* What appendEntry makes of an empty log and of a last row. *)
LEMMA AppendEntryOf ==
    ASSUME NEW t \in Tx, NEW prev, prev = {} \/ \E p \in log : prev = {p},
           log \subseteq Entry
    PROVE  /\ appendEntry(prev, t) \in Entry
           /\ appendEntry(prev, t).tx = t
           /\ appendEntry(prev, t).hash = computeHash(appendEntry(prev, t).prevHash, t)
           /\ \/ appendEntry(prev, t).seq = 1 /\ appendEntry(prev, t).prevHash = Genesis
              \/ \E p \in log : /\ p.seq = appendEntry(prev, t).seq - 1
                                /\ p.hash = appendEntry(prev, t).prevHash
<1>1. CASE prev = {}
  BY <1>1 DEF appendEntry, prevSeq, prevHashOf, Entry, Genesis, computeHash
<1>2. ASSUME NEW p \in log, prev = {p}
      PROVE  /\ appendEntry(prev, t) \in Entry
             /\ appendEntry(prev, t).tx = t
             /\ appendEntry(prev, t).hash = computeHash(appendEntry(prev, t).prevHash, t)
             /\ p.seq = appendEntry(prev, t).seq - 1
             /\ p.hash = appendEntry(prev, t).prevHash
  <2>1. prev # {} /\ (CHOOSE e \in prev : TRUE) = p
    BY <1>2
  <2>2. prevSeq(prev) = p.seq /\ prevHashOf(prev) = p.hash
    BY <2>1 DEF prevSeq, prevHashOf
  <2>3. p \in Entry
    BY <1>2
  <2> QED
    BY <2>2, <2>3 DEF appendEntry, Entry, computeHash
<1> QED
  BY <1>1, <1>2

-----------------------------------------------------------------------------
(* An empty ledger satisfies the invariant. *)
THEOREM InitIInv == Init => IInv
<1> SUFFICES ASSUME Init PROVE IInv
  OBVIOUS
<1> USE DEF Init
<1>1. TypeOK
  BY DEF TypeOK, Document, Entry, Active
<1>2. CounterLock /\ HeaderLock /\ AuditTip /\ OpenUntilDone
  BY DEF CounterLock, HeaderLock, AuditTip, OpenUntilDone, HoldsCounter, HoldsHeader,
         HoldingNumber, HoldingHeader, numbered
<1>3. GaplessNumbering
  <2>1. \A s \in Series : numbersOf(s) = {} /\ 1 .. counter[s] = {}
    BY DEF numbersOf
  <2> QED
    BY <2>1 DEF GaplessNumbering
<1>4. OneDocumentPerId /\ ChainIntact /\ CommittedIffAudited
  BY DEF OneDocumentPerId, ChainIntact, CommittedIffAudited
<1> QED
  BY <1>1, <1>2, <1>3, <1>4 DEF IInv

(* Beginning takes no lock and no number. *)
LEMMA BeginStep == ASSUME NEW t \in Tx, IInv, Begin(t) PROVE IInv'
<1> USE DEF IInv, Begin
<1>1. TypeOK'
  BY DEF TypeOK, Active, Request
<1>2. CounterLock'
  BY UnnumberedAssumption DEF TypeOK, CounterLock, HoldsCounter, HoldingNumber, numbered, Active, Request
<1>3. HeaderLock'
  BY UnnumberedAssumption DEF TypeOK, HeaderLock, HoldsHeader, HoldingHeader, numbered, Active, Request, CounterLock
<1>4. AuditTip'
  BY DEF TypeOK, AuditTip, entryOf
<1>5. OpenUntilDone'
  BY DEF TypeOK, OpenUntilDone, Active
<1>6. GaplessNumbering' /\ OneDocumentPerId' /\ ChainIntact'
  BY DEF GaplessNumbering, OneDocumentPerId, ChainIntact, numbersOf
<1>7. CommittedIffAudited'
  BY DEF TypeOK, CommittedIffAudited, OpenUntilDone, documentOf, numbered, Active
<1> QED
  BY <1>1, <1>2, <1>3, <1>4, <1>5, <1>6, <1>7

(* The lookup decides, and writes nothing. *)
LEMMA LookupStep == ASSUME NEW t \in Tx, IInv, Lookup(t) PROVE IInv'
<1> USE DEF IInv, Lookup, Finish
<1>1. TypeOK'
  BY DEF TypeOK, Active, Request
<1>2. CounterLock'
  BY DEF TypeOK, CounterLock, HoldsCounter, HoldingNumber, numbered, Active, Request
<1>3. HeaderLock'
  BY DEF TypeOK, HeaderLock, HoldsHeader, HoldingHeader, numbered, Active, Request, CounterLock
<1>4. AuditTip'
  BY DEF TypeOK, AuditTip, entryOf
<1>5. OpenUntilDone'
  BY DEF TypeOK, OpenUntilDone, Active
<1>6. GaplessNumbering' /\ OneDocumentPerId' /\ ChainIntact'
  BY DEF GaplessNumbering, OneDocumentPerId, ChainIntact, numbersOf
<1>7. CommittedIffAudited'
  BY DEF TypeOK, CommittedIffAudited, OpenUntilDone, documentOf, numbered, Active
<1> QED
  BY <1>1, <1>2, <1>3, <1>4, <1>5, <1>6, <1>7

(* The number taken is the next one, and the row is the taker's alone. *)
LEMMA AllocateNumberStep == ASSUME NEW t \in Tx, IInv, AllocateNumber(t) PROVE IInv'
<1> USE DEF IInv, AllocateNumber
<1>1. TypeOK'
  BY UnnumberedAssumption DEF TypeOK, Active, Request, CounterLock, numbered
<1>2. CounterLock'
  BY DEF TypeOK, CounterLock, HoldsCounter, HoldingNumber, numbered, Active, Request
<1>3. HeaderLock'
  BY DEF TypeOK, HeaderLock, HoldsHeader, HoldingHeader, numbered, Active, Request, CounterLock
<1>4. AuditTip'
  BY DEF TypeOK, AuditTip, entryOf
<1>5. OpenUntilDone'
  BY DEF TypeOK, OpenUntilDone, Active
<1>6. GaplessNumbering' /\ OneDocumentPerId' /\ ChainIntact'
  BY DEF GaplessNumbering, OneDocumentPerId, ChainIntact, numbersOf
<1>7. CommittedIffAudited'
  BY DEF TypeOK, CommittedIffAudited, OpenUntilDone, documentOf, numbered, Active
<1> QED
  BY <1>1, <1>2, <1>3, <1>4, <1>5, <1>6, <1>7

(* Past the insert a transaction has its id to itself. *)
LEMMA InsertHeaderStep == ASSUME NEW t \in Tx, IInv, InsertHeader(t) PROVE IInv'
<1> USE DEF IInv, InsertHeader, Finish
<1>1. TypeOK'
  BY DEF TypeOK, Active, Request
<1>2. CounterLock'
  BY DEF TypeOK, CounterLock, HoldsCounter, HoldingNumber, numbered, Active, Request
<1>3. HeaderLock'
  BY DEF TypeOK, HeaderLock, HoldsHeader, HoldingHeader, numbered, Active, Request, CounterLock
<1>4. AuditTip'
  BY DEF TypeOK, AuditTip, entryOf
<1>5. OpenUntilDone'
  BY DEF TypeOK, OpenUntilDone, Active
<1>6. GaplessNumbering' /\ OneDocumentPerId' /\ ChainIntact'
  BY DEF GaplessNumbering, OneDocumentPerId, ChainIntact, numbersOf
<1>7. CommittedIffAudited'
  BY DEF TypeOK, CommittedIffAudited, OpenUntilDone, documentOf, numbered, Active
<1> QED
  BY <1>1, <1>2, <1>3, <1>4, <1>5, <1>6, <1>7

(* What is read as the tip is committed. *)
LEMMA ReadTipStep == ASSUME NEW t \in Tx, IInv, ReadTip(t) PROVE IInv'
<1> USE DEF IInv, ReadTip
<1>1. TypeOK'
  BY DEF TypeOK, Active, lastRow
<1>2. CounterLock'
  BY DEF TypeOK, CounterLock, HoldsCounter, HoldingNumber, numbered, Active, Request
<1>3. HeaderLock'
  BY DEF TypeOK, HeaderLock, HoldsHeader, HoldingHeader, numbered, Active, Request, CounterLock
<1>4. AuditTip'
  <2>1. lastRow = {} \/ \E p \in log : lastRow = {p}
    <3>1. \A e, f \in lastRow : e = f
      BY DEF lastRow, ChainIntact, TypeOK, Entry
    <3>2. lastRow \subseteq log
      BY DEF lastRow
    <3> QED
      BY <3>1, <3>2
  <2> QED
    BY <2>1 DEF TypeOK, AuditTip, entryOf
<1>5. OpenUntilDone'
  BY DEF TypeOK, OpenUntilDone, Active
<1>6. GaplessNumbering' /\ OneDocumentPerId' /\ ChainIntact'
  BY DEF GaplessNumbering, OneDocumentPerId, ChainIntact, numbersOf
<1>7. CommittedIffAudited'
  BY DEF TypeOK, CommittedIffAudited, OpenUntilDone, documentOf, numbered, Active
<1> QED
  BY <1>1, <1>2, <1>3, <1>4, <1>5, <1>6, <1>7

(* The lock gives nothing the invariant asks for beyond the row as read. *)
LEMMA LockTipStep == ASSUME NEW t \in Tx, IInv, LockTip(t) PROVE IInv'
<1> USE DEF IInv, LockTip
<1>1. TypeOK'
  BY DEF TypeOK, Active, Request
<1>2. CounterLock'
  BY DEF TypeOK, CounterLock, HoldsCounter, HoldingNumber, numbered, Active, Request
<1>3. HeaderLock'
  BY DEF TypeOK, HeaderLock, HoldsHeader, HoldingHeader, numbered, Active, Request, CounterLock
<1>4. AuditTip'
  BY DEF TypeOK, AuditTip, entryOf
<1>5. OpenUntilDone'
  BY DEF TypeOK, OpenUntilDone, Active
<1>6. GaplessNumbering' /\ OneDocumentPerId' /\ ChainIntact'
  BY DEF GaplessNumbering, OneDocumentPerId, ChainIntact, numbersOf
<1>7. CommittedIffAudited'
  BY DEF TypeOK, CommittedIffAudited, OpenUntilDone, documentOf, numbered, Active
<1> QED
  BY <1>1, <1>2, <1>3, <1>4, <1>5, <1>6, <1>7

(* Past the audit insert a transaction has its seq to itself. *)
LEMMA AppendAuditStep == ASSUME NEW t \in Tx, IInv, AppendAudit(t) PROVE IInv'
<1> USE DEF IInv, AppendAudit, Finish
<1>1. TypeOK'
  BY DEF TypeOK, Active, Request
<1>2. CounterLock'
  BY DEF TypeOK, CounterLock, HoldsCounter, HoldingNumber, numbered, Active, Request
<1>3. HeaderLock'
  BY DEF TypeOK, HeaderLock, HoldsHeader, HoldingHeader, numbered, Active, Request, CounterLock
<1>4. AuditTip'
  BY DEF TypeOK, AuditTip, entryOf
<1>5. OpenUntilDone'
  BY DEF TypeOK, OpenUntilDone, Active
<1>6. GaplessNumbering' /\ OneDocumentPerId' /\ ChainIntact'
  BY DEF GaplessNumbering, OneDocumentPerId, ChainIntact, numbersOf
<1>7. CommittedIffAudited'
  BY DEF TypeOK, CommittedIffAudited, OpenUntilDone, documentOf, numbered, Active
<1> QED
  BY <1>1, <1>2, <1>3, <1>4, <1>5, <1>6, <1>7

(* A rollback frees what was held and leaves the rows alone. *)
LEMMA RollbackStep == ASSUME NEW t \in Tx, IInv, Rollback(t) PROVE IInv'
<1> USE DEF IInv, Rollback, Finish
<1>1. TypeOK'
  BY DEF TypeOK, Active, Request
<1>2. CounterLock'
  BY DEF TypeOK, CounterLock, HoldsCounter, HoldingNumber, numbered, Active, Request
<1>3. HeaderLock'
  BY DEF TypeOK, HeaderLock, HoldsHeader, HoldingHeader, numbered, Active, Request, CounterLock
<1>4. AuditTip'
  BY DEF TypeOK, AuditTip, entryOf
<1>5. OpenUntilDone'
  BY DEF TypeOK, OpenUntilDone, Active
<1>6. GaplessNumbering' /\ OneDocumentPerId' /\ ChainIntact'
  BY DEF GaplessNumbering, OneDocumentPerId, ChainIntact, numbersOf
<1>7. CommittedIffAudited'
  BY DEF TypeOK, CommittedIffAudited, OpenUntilDone, documentOf, numbered, Active
<1> QED
  BY <1>1, <1>2, <1>3, <1>4, <1>5, <1>6, <1>7

(* The only step that writes committed rows.  The document takes the number *)
(* just after the last one because its counter row is still locked; the     *)
(* entry extends the chain because its predecessor is committed and nothing *)
(* else has its seq.                                                        *)
LEMMA CommitStep == ASSUME NEW t \in Tx, IInv, Commit(t) PROVE IInv'
<1> USE DEF IInv, Commit, Finish
<1> DEFINE new == entryOf(t)
<1>1. /\ new \in Entry
      /\ new.tx = t
      /\ new.hash = computeHash(new.prevHash, t)
      /\ \/ new.seq = 1 /\ new.prevHash = Genesis
         \/ \E p \in log : p.seq = new.seq - 1 /\ p.hash = new.prevHash
  BY AppendEntryOf DEF TypeOK, AuditTip, entryOf
<1>2. /\ log' = log \cup {new}
      /\ \A e \in log : e.seq # new.seq
      /\ \A u \in Tx : tip'[u] = tip[u] /\ entryOf(u)' = entryOf(u)
  BY DEF AuditTip, entryOf
<1> HIDE DEF new
<1>3. numbered(t) => /\ req[t] \in Request
                     /\ num[t] = counter[req[t].series] + 1
                     /\ num[t] \in Nat \ {0}
                     /\ documentOf(t) \in Document
  BY DEF TypeOK, CounterLock, HoldingNumber, numbered, Request, documentOf, Document
<1>4. TypeOK'
  BY <1>1, <1>2, <1>3 DEF TypeOK, Active, documentOf, Document, numbered
<1>5. CounterLock'
  BY <1>3 DEF TypeOK, CounterLock, HoldsCounter, HoldingNumber, numbered, Active, Request
<1>6. HeaderLock'
  BY <1>3 DEF TypeOK, HeaderLock, HoldsHeader, HoldingHeader, numbered, Active, Request
<1>7. AuditTip'
  BY <1>2 DEF TypeOK, AuditTip
<1>8. OpenUntilDone'
  BY DEF TypeOK, OpenUntilDone, Active
<1>9. OneDocumentPerId'
  BY <1>3 DEF TypeOK, OneDocumentPerId, HeaderLock, HoldsHeader, HoldingHeader, numbered, Request
<1>10. GaplessNumbering'
  <2>1. CASE ~numbered(t)
    BY <2>1 DEF GaplessNumbering, numbersOf
  <2>2. CASE numbered(t)
    <3>1. /\ docs' = docs \cup {documentOf(t)}
          /\ documentOf(t).series = req[t].series /\ documentOf(t).number = num[t]
      BY <2>2 DEF documentOf
    <3>2. counter' = [counter EXCEPT ![req[t].series] = num[t]] /\ counter \in [Series -> Nat]
      BY <2>2 DEF TypeOK
    <3>3. \A d \in docs : d.series = req[t].series => d.number # num[t]
      BY <2>2, <1>3, <3>2 DEF GaplessNumbering, numbersOf, Request
    <3>4. \A d, e \in docs' : d.series = e.series /\ d.number = e.number => d = e
      BY <3>1, <3>3 DEF GaplessNumbering
    <3>5. ASSUME NEW s \in Series PROVE (numbersOf(s) = 1 .. counter[s])'
      <4>1. CASE s # req[t].series
        BY <4>1, <3>1, <3>2 DEF GaplessNumbering, numbersOf
      <4>2. CASE s = req[t].series
        <5>1. numbersOf(s)' = numbersOf(s) \cup {num[t]}
          BY <4>2, <3>1 DEF numbersOf
        <5>2. numbersOf(s) = 1 .. counter[s] /\ counter'[s] = counter[s] + 1
              /\ num[t] = counter[s] + 1
          BY <4>2, <3>2, <1>3, <2>2 DEF GaplessNumbering
        <5> QED
          BY <5>1, <5>2, <3>2
      <4> QED
        BY <4>1, <4>2
    <3> QED
      BY <3>4, <3>5 DEF GaplessNumbering
  <2> QED
    BY <2>1, <2>2
<1>11. ChainIntact'
  BY <1>1, <1>2 DEF ChainIntact
<1>12. CommittedIffAudited'
  <2>1. \A e \in log : e.tx # t
    BY DEF CommittedIffAudited, OpenUntilDone
  <2> QED
    BY <1>1, <1>2, <2>1 DEF TypeOK, CommittedIffAudited, documentOf, numbered
<1> QED
  BY <1>4, <1>5, <1>6, <1>7, <1>8, <1>9, <1>10, <1>11, <1>12

-----------------------------------------------------------------------------
(* IInv is inductive. *)
LEMMA NextIInv == IInv /\ [Next]_vars => IInv'
<1> SUFFICES ASSUME IInv, [Next]_vars PROVE IInv'
  OBVIOUS
<1>1. ASSUME NEW t \in Tx, Begin(t) PROVE IInv'
  BY <1>1, BeginStep
<1>2. ASSUME NEW t \in Tx, Step(t) PROVE IInv'
  BY <1>2, LookupStep, AllocateNumberStep, InsertHeaderStep, ReadTipStep, LockTipStep,
     AppendAuditStep, CommitStep DEF Step
<1>3. ASSUME NEW t \in Tx, Rollback(t) PROVE IInv'
  BY <1>3, RollbackStep
<1>4. CASE UNCHANGED vars
  BY <1>4 DEF vars, IInv, TypeOK, CounterLock, HeaderLock, AuditTip, OpenUntilDone,
     GaplessNumbering, OneDocumentPerId, ChainIntact, CommittedIffAudited, numbersOf,
     documentOf, numbered, entryOf, HoldsCounter, HoldsHeader
<1> QED
  BY <1>1, <1>2, <1>3, <1>4 DEF Next, AllDone

(* Hence it is invariant. *)
THEOREM Invariance == Spec => []IInv
BY InitIInv, NextIInv, PTL DEF Spec

(* The state of the ledger keeps its shape in every reachable state. *)
THEOREM TypeCorrect == Spec => []TypeOK
BY Invariance, PTL DEF IInv

(* Legal numbering: in every reachable state the committed documents of each *)
(* series carry the numbers 1..counter, each once, however many transactions *)
(* race and roll back.                                                       *)
THEOREM Gapless == Spec => []GaplessNumbering
BY Invariance, PTL DEF IInv

(* No id ever names two documents, so an offline create sent twice makes at  *)
(* most one.                                                                 *)
THEOREM UniqueDocuments == Spec => []OneDocumentPerId
BY Invariance, PTL DEF IInv

(* The committed audit log is one linear, unbroken chain at every moment.    *)
THEOREM LinearChain == Spec => []ChainIntact
BY Invariance, PTL DEF IInv

(* No committed write is unaudited and no entry audits a write that did not  *)
(* commit.                                                                   *)
THEOREM AuditedWrites == Spec => []CommittedIffAudited
BY Invariance, PTL DEF IInv

-----------------------------------------------------------------------------
(* DocumentLedger implements Ledger.  The chain of Ledger is the hash of the *)
(* last committed row, so the proof needs to know that the row a committing  *)
(* transaction extends is that last row: it is, because the committed seqs   *)
(* have no hole and the committing row's seq is not among them.              *)

Dense(n) == \A k \in Nat \ {0} : (\E e \in log : e.seq = k) <=> k <= n

HashesCommitted == \A e \in log : \A k \in DOMAIN e.hash : \E f \in log : f.tx = e.hash[k]

RInv == /\ IInv
        /\ \E n \in Nat : Dense(n)
        /\ HashesCommitted

(* The last row of a linear chain. *)
LEMMA LastRowOf ==
    ASSUME IInv, NEW n \in Nat, Dense(n)
    PROVE  \/ n = 0 /\ log = {} /\ lastRow = {}
           \/ \E e \in log : e.seq = n /\ lastRow = {e}
<1>1. ASSUME NEW f \in log PROVE f.seq \in Nat \ {0} /\ f.seq <= n
  <2>1. f.seq \in Nat \ {0}
    BY DEF IInv, TypeOK, Entry
  <2>2. \E e \in log : e.seq = f.seq
    OBVIOUS
  <2> QED
    BY <2>1, <2>2 DEF Dense
<1>2. CASE n = 0
  BY <1>1, <1>2 DEF lastRow
<1>3. CASE n # 0
  <2>1. PICK e \in log : e.seq = n
    BY <1>3 DEF Dense
  <2>2. e \in lastRow
    BY <1>1, <2>1 DEF lastRow
  <2>3. ASSUME NEW f \in lastRow PROVE f = e
    <3>1. f \in log /\ e.seq <= f.seq
      BY DEF lastRow
    <3>2. f.seq = e.seq
      BY <3>1, <2>1, <1>1
    <3> QED
      BY <3>1, <3>2 DEF IInv, ChainIntact
  <2>4. lastRow = {e}
    BY <2>2, <2>3
  <2> QED
    BY <2>1, <2>4
<1> QED
  BY <1>2, <1>3

(* The committing entry becomes the last row. *)
LEMMA CommitExtendsTip ==
    ASSUME NEW t \in Tx, IInv, NEW n \in Nat, Dense(n), Commit(t)
    PROVE  /\ tip[t] = lastRow
           /\ entryOf(t).seq = n + 1
           /\ Dense(n + 1)'
           /\ lastRow' = {entryOf(t)}
<1>1. /\ log' = log \cup {entryOf(t)}
      /\ entryOf(t) \in Entry
      /\ \A e \in log : e.seq # entryOf(t).seq
      /\ tip[t] = {} \/ \E p \in log : tip[t] = {p}
      /\ log \subseteq Entry
  BY AppendEntryOf DEF IInv, TypeOK, AuditTip, entryOf, Commit
<1>2. CASE tip[t] = {}
  <2>1. entryOf(t).seq = 1
    BY <1>2 DEF entryOf, appendEntry, prevSeq
  <2>2. n = 0
    BY <1>1, <2>1 DEF Dense
  <2> QED
    BY <1>1, <1>2, <2>1, <2>2, LastRowOf DEF Dense, lastRow, Entry
<1>3. ASSUME NEW p \in log, tip[t] = {p} PROVE tip[t] = lastRow /\ entryOf(t).seq = n + 1
  <2>1. (CHOOSE e \in tip[t] : TRUE) = p /\ tip[t] # {}
    BY <1>3
  <2>2. entryOf(t).seq = p.seq + 1
    BY <2>1 DEF entryOf, appendEntry, prevSeq
  <2>3. p.seq \in Nat \ {0} /\ p.seq <= n /\ ~(p.seq + 1 <= n)
    BY <1>1, <2>2 DEF Dense, Entry
  <2>4. p.seq = n
    BY <2>3
  <2> QED
    BY <1>3, <2>2, <2>3, <2>4, LastRowOf DEF IInv, ChainIntact
<1>4. tip[t] = lastRow /\ entryOf(t).seq = n + 1
  BY <1>1, <1>2, <1>3, LastRowOf DEF entryOf, appendEntry, prevSeq, Dense
<1>5. Dense(n + 1)'
  <2> SUFFICES ASSUME NEW k \in Nat \ {0}
               PROVE  (\E e \in log' : e.seq = k) <=> k <= n + 1
    BY DEF Dense
  <2>1. (\E e \in log' : e.seq = k) <=> (\E e \in log : e.seq = k) \/ k = n + 1
    BY <1>1, <1>4
  <2> QED
    BY <2>1 DEF Dense
<1>6. lastRow' = {entryOf(t)}
  <2>1. \A e \in log : e.seq <= n
    BY <1>1 DEF Dense, Entry
  <2>2. \A e \in log : e.seq < entryOf(t).seq
    BY <1>1, <1>4, <2>1 DEF Entry
  <2>3. \A e \in log : e \notin lastRow' /\ entryOf(t) \in lastRow'
    BY <1>1, <2>2 DEF lastRow, Entry
  <2>4. entryOf(t) \in lastRow' /\ lastRow' \subseteq log \cup {entryOf(t)}
    BY <1>1, <2>2 DEF lastRow, Entry
  <2> QED
    BY <2>3, <2>4
<1> QED
  BY <1>4, <1>5, <1>6

(* The hash that stands for the chain grows by the committing transaction.  *)
LEMMA CommitExtendsChain ==
    ASSUME NEW t \in Tx, RInv, Commit(t)
    PROVE  /\ chainBar' = Append(chainBar, t)
           /\ \A k \in DOMAIN chainBar : chainBar[k] # t
           /\ HashesCommitted'
           /\ \E n \in Nat : Dense(n)'
<1>1. PICK n \in Nat : Dense(n)
  BY DEF RInv
<1>2. /\ IInv
      /\ tip[t] = lastRow
      /\ Dense(n + 1)'
      /\ lastRow' = {entryOf(t)}
  BY <1>1, CommitExtendsTip DEF RInv
<1>3. /\ entryOf(t) \in Entry
      /\ entryOf(t).tx = t
      /\ entryOf(t).hash = Append(chainBar, t)
  <2>1. entryOf(t) \in Entry /\ entryOf(t).tx = t
    BY <1>2, AppendEntryOf DEF IInv, TypeOK, AuditTip, Commit, entryOf
  <2>2. entryOf(t).hash = Append(prevHashOf(lastRow), t)
    BY <1>2 DEF entryOf, appendEntry, computeHash
  <2> QED
    BY <2>1, <2>2 DEF chainBar
<1>4. chainBar' = Append(chainBar, t)
  <2>1. prevHashOf({entryOf(t)}) = entryOf(t).hash
    BY DEF prevHashOf
  <2>2. chainBar' = prevHashOf(lastRow')
    BY DEF chainBar, prevHashOf
  <2> QED
    BY <2>1, <2>2, <1>2, <1>3
<1>5. chainBar \in Seq(Tx) /\ \A k \in DOMAIN chainBar : \E f \in log : f.tx = chainBar[k]
  <2>1. CASE lastRow = {}
    BY <2>1 DEF chainBar, prevHashOf, Genesis
  <2>2. ASSUME NEW e \in log, lastRow = {e}
        PROVE chainBar \in Seq(Tx) /\ \A k \in DOMAIN chainBar : \E f \in log : f.tx = chainBar[k]
    <3>1. chainBar = e.hash
      BY <2>2 DEF chainBar, prevHashOf
    <3>2. e.hash \in Seq(Tx)
      BY <1>2 DEF IInv, TypeOK, Entry
    <3> QED
      BY <3>1, <3>2 DEF RInv, HashesCommitted
  <2> QED
    BY <2>1, <2>2, <1>1, <1>2, LastRowOf
<1>6. \A k \in DOMAIN chainBar : chainBar[k] # t
  BY <1>2, <1>5 DEF IInv, OpenUntilDone, CommittedIffAudited, Commit
<1>7. HashesCommitted'
  <2> SUFFICES ASSUME NEW e \in log', NEW k \in DOMAIN e.hash
               PROVE  \E f \in log' : f.tx = e.hash[k]
    BY DEF HashesCommitted
  <2>1. log' = log \cup {entryOf(t)}
    BY DEF Commit
  <2>2. CASE e \in log
    BY <2>1, <2>2 DEF RInv, HashesCommitted
  <2>3. CASE e = entryOf(t)
    <3>1. (k \in DOMAIN chainBar /\ e.hash[k] = chainBar[k]) \/ e.hash[k] = t
      BY <2>3, <1>3, <1>5
    <3> QED
      BY <3>1, <2>1, <2>3, <1>3, <1>5
  <2> QED
    BY <2>1, <2>2, <2>3
<1> QED
  BY <1>2, <1>4, <1>6, <1>7

(* A committed document keeps its place in its series. *)
LEMMA DocAt ==
    ASSUME GaplessNumbering, NEW s \in Series, NEW n \in 1 .. counter[s]
    PROVE  docAt(s, n) \in docs /\ docAt(s, n).series = s /\ docAt(s, n).number = n
<1>1. n \in numbersOf(s)
  BY DEF GaplessNumbering
<1>2. \E d \in docs : d.series = s /\ d.number = n
  BY <1>1 DEF numbersOf
<1> QED
  BY <1>2 DEF docAt

(* A function on 1..n is a sequence of length n. *)
LEMMA FunctionIsSeq ==
    ASSUME NEW S, NEW n \in Nat, NEW f \in [1 .. n -> S]
    PROVE  f \in Seq(S) /\ Len(f) = n
OBVIOUS

(* The committing document becomes the last of its series. *)
LEMMA CommitExtendsSeries ==
    ASSUME NEW t \in Tx, IInv, Commit(t), numbered(t)
    PROVE  /\ issuedBar' = [issuedBar EXCEPT ![req[t].series] = Append(@, req[t].id)]
           /\ \A r \in Series : \A k \in DOMAIN issuedBar[r] : issuedBar[r][k] # req[t].id
<1>1. PICK s \in Series, i \in Ids, c \in Nat :
        /\ s = req[t].series /\ i = req[t].id /\ c = counter[s]
        /\ counter \in [Series -> Nat]
        /\ counter' = [counter EXCEPT ![s] = c + 1]
        /\ docs' = docs \cup {documentOf(t)}
        /\ documentOf(t) = [id |-> i, series |-> s, number |-> c + 1]
        /\ \A d \in docs : d.id \in Ids /\ d.id # i
  <2>1. req[t].series \in Series /\ req[t].id \in Ids /\ counter \in [Series -> Nat]
    BY DEF IInv, TypeOK, numbered, Request
  <2>2. num[t] = counter[req[t].series] + 1
    BY DEF IInv, CounterLock, HoldingNumber, Commit
  <2>3. /\ counter' = [counter EXCEPT ![req[t].series] = num[t]]
        /\ docs' = docs \cup {documentOf(t)}
    BY DEF Commit, documentOf
  <2>4. \A d \in docs : d.id \in Ids /\ d.id # req[t].id
    BY DEF IInv, TypeOK, Document, HeaderLock, HoldsHeader, HoldingHeader, Commit
  <2>5. documentOf(t) = [id |-> req[t].id, series |-> req[t].series, number |-> num[t]]
    BY DEF documentOf
  <2> QED
    BY <2>1, <2>2, <2>3, <2>4, <2>5
<1>2. GaplessNumbering /\ GaplessNumbering'
  BY CommitStep DEF IInv
<1>3. ASSUME NEW r \in Series, NEW n \in 1 .. counter[r]
      PROVE  docAt(r, n)' = docAt(r, n) /\ docAt(r, n).id \in Ids /\ docAt(r, n).id # i
  <2>1. docAt(r, n) \in docs /\ docAt(r, n).series = r /\ docAt(r, n).number = n
    BY <1>2, DocAt
  <2>2. docAt(r, n) \in docs'
    BY <2>1, <1>1
  <2>3. \A d \in docs' : d.series = r /\ d.number = n => d = docAt(r, n)
    BY <2>1, <2>2, <1>2 DEF GaplessNumbering
  <2>4. docAt(r, n)' = docAt(r, n)
    BY <2>1, <2>2, <2>3 DEF docAt
  <2> QED
    BY <2>1, <2>4, <1>1
<1>4. docAt(s, c + 1)' = documentOf(t)
  <2>1. documentOf(t) \in docs' /\ documentOf(t).series = s /\ documentOf(t).number = c + 1
    BY <1>1
  <2>2. \A d \in docs' : d.series = s /\ d.number = c + 1 => d = documentOf(t)
    BY <2>1, <1>2 DEF GaplessNumbering
  <2>3. (CHOOSE d \in docs' : d.series = s /\ d.number = c + 1) = documentOf(t)
    BY <2>1, <2>2
  <2> QED
    BY <2>3 DEF docAt
<1>5. \A r \in Series : issuedBar[r] = [n \in 1 .. counter[r] |-> docAt(r, n).id]
  BY DEF issuedBar
<1>6. ASSUME NEW r \in Series
      PROVE  issuedBar[r] \in Seq(Ids) /\ Len(issuedBar[r]) = counter[r]
  <2>1. counter[r] \in Nat
    BY <1>1
  <2>2. issuedBar[r] \in [1 .. counter[r] -> Ids]
    BY <1>3, <1>5
  <2> QED
    BY <2>1, <2>2, FunctionIsSeq
<1>7. \A r \in Series : r # s => issuedBar'[r] = issuedBar[r]
  BY <1>1, <1>3, <1>5 DEF issuedBar
<1>8. issuedBar'[s] = Append(issuedBar[s], i)
  <2>1. issuedBar'[s] = [n \in 1 .. c + 1 |-> docAt(s, n)'.id]
    BY <1>1 DEF issuedBar
  <2>2. /\ issuedBar[s] \in Seq(Ids) /\ Len(issuedBar[s]) = c
        /\ \A n \in 1 .. c : issuedBar[s][n] = docAt(s, n).id
    <3>1. c = counter[s]
      BY <1>1
    <3>2. issuedBar[s] = [n \in 1 .. c |-> docAt(s, n).id]
      BY <1>5, <3>1
    <3>3. \A n \in 1 .. c : issuedBar[s][n] = docAt(s, n).id
      BY <3>2
    <3> QED
      BY <1>6, <3>1, <3>3
  <2>3. ASSUME NEW n \in 1 .. c + 1
        PROVE  docAt(s, n)'.id = Append(issuedBar[s], i)[n]
    <3>1. CASE n = c + 1
      BY <3>1, <2>2, <1>1, <1>4
    <3>2. CASE n # c + 1
      BY <3>2, <2>2, <1>1, <1>3
    <3> QED
      BY <3>1, <3>2
  <2>4. Append(issuedBar[s], i) \in Seq(Ids) /\ Len(Append(issuedBar[s], i)) = c + 1
    BY <2>2
  <2>5. issuedBar'[s] \in [1 .. c + 1 -> Ids]
    BY <2>1, <2>3, <2>4, ElementOfSeq
  <2>6. issuedBar'[s] \in Seq(Ids) /\ Len(issuedBar'[s]) = c + 1
    BY <2>5, FunctionIsSeq
  <2> QED
    BY <2>1, <2>3, <2>4, <2>6, SeqEqual
<1>9. issuedBar' = [issuedBar EXCEPT ![s] = Append(@, i)]
  <2>1. /\ issuedBar = [r \in Series |-> issuedBar[r]]
        /\ issuedBar' = [r \in Series |-> issuedBar'[r]]
    BY DEF issuedBar
  <2> QED
    BY <2>1, <1>7, <1>8
<1>10. \A r \in Series : \A k \in DOMAIN issuedBar[r] : issuedBar[r][k] # i
  <2>1. ASSUME NEW r \in Series, NEW k \in DOMAIN issuedBar[r] PROVE issuedBar[r][k] # i
    <3>1. k \in 1 .. counter[r] /\ issuedBar[r][k] = docAt(r, k).id
      BY <1>5
    <3> QED
      BY <3>1, <1>3
  <2> QED
    BY <2>1
<1> QED
  BY <1>9, <1>10, <1>1

(* A step that commits nothing leaves the ledger as it was. *)
LEMMA QuietStep ==
    ASSUME UNCHANGED <<counter, docs, log>>
    PROVE  UNCHANGED <<issuedBar, chainBar>>
<1>1. \A s \in Series : \A n \in 1 .. counter[s] : docAt(s, n)' = docAt(s, n)
  BY DEF docAt
<1>2. issuedBar' = issuedBar
  BY <1>1 DEF issuedBar, docAt
<1>3. lastRow' = lastRow
  BY DEF lastRow
<1> QED
  BY <1>2, <1>3 DEF chainBar, prevHashOf

(* The empty tables map to the empty ledger. *)
LEMMA InitRefines == Init => RInv /\ Abstract!LedgerInit
<1> SUFFICES ASSUME Init PROVE RInv /\ Abstract!LedgerInit
  OBVIOUS
<1>1. IInv
  BY InitIInv
<1>2. Dense(0) /\ HashesCommitted
  BY DEF Init, Dense, HashesCommitted
<1>3. issuedBar = [s \in Series |-> <<>>]
  <2>1. ASSUME NEW s \in Series PROVE issuedBar[s] = <<>>
    <3>1. issuedBar[s] \in [1 .. 0 -> Ids]
      BY DEF Init, issuedBar
    <3>2. issuedBar[s] \in Seq(Ids) /\ Len(issuedBar[s]) = 0
      BY <3>1, FunctionIsSeq
    <3> QED
      BY <3>2
  <2> QED
    BY <2>1 DEF issuedBar
<1>4. chainBar = <<>>
  BY DEF Init, chainBar, lastRow, prevHashOf, Genesis
<1> QED
  BY <1>1, <1>2, <1>3, <1>4 DEF RInv, Abstract!LedgerInit

(* Every step maps to an atomic issue, an atomic record or a stutter. *)
LEMMA StepRefines == RInv /\ [Next]_vars => RInv' /\ [Abstract!LedgerNext]_(Abstract!ledgerVars)
<1> SUFFICES ASSUME RInv, [Next]_vars
             PROVE  RInv' /\ [Abstract!LedgerNext]_(Abstract!ledgerVars)
  OBVIOUS
<1>1. IInv'
  BY NextIInv DEF RInv
<1>2. CASE UNCHANGED <<counter, docs, log>>
  <2>1. UNCHANGED Abstract!ledgerVars
    BY <1>2, QuietStep DEF Abstract!ledgerVars
  <2>2. (\E n \in Nat : Dense(n))' /\ HashesCommitted'
    BY <1>2 DEF RInv, Dense, HashesCommitted
  <2> QED
    BY <1>1, <2>1, <2>2 DEF RInv
<1>3. ASSUME NEW t \in Tx, Commit(t)
      PROVE  RInv' /\ Abstract!LedgerNext
  <2>1. /\ chainBar' = Append(chainBar, t)
        /\ Abstract!Fresh(t)
        /\ RInv'
    BY <1>1, <1>3, CommitExtendsChain DEF RInv, Abstract!Fresh
  <2>2. CASE numbered(t)
    <3>1. req[t].series \in Series /\ req[t].id \in Ids
      BY <2>2 DEF RInv, IInv, TypeOK, numbered, Request
    <3>2. Abstract!Issue(t, req[t].series, req[t].id)
      BY <1>3, <2>1, <2>2, CommitExtendsSeries DEF RInv, Abstract!Issue
    <3> QED
      BY <2>1, <3>1, <3>2 DEF Abstract!LedgerNext
  <2>3. CASE ~numbered(t)
    <3>1. UNCHANGED <<counter, docs>>
      BY <1>3, <2>3 DEF Commit
    <3>2. issuedBar' = issuedBar
      BY <3>1 DEF issuedBar, docAt
    <3> QED
      BY <2>1, <3>2 DEF Abstract!LedgerNext, Abstract!Record
  <2> QED
    BY <2>2, <2>3
<1>4. [Next]_vars => UNCHANGED <<counter, docs, log>> \/ \E t \in Tx : Commit(t)
  BY DEF Next, vars, AllDone, Begin, Step, Lookup, AllocateNumber, InsertHeader, ReadTip,
         LockTip, AppendAudit, Rollback
<1> QED
  BY <1>2, <1>3, <1>4

(* Implementation: seen from the committed rows, the interleaved statements  *)
(* of any number of transactions do what the atomic Ledger does.             *)
THEOREM Implements == Spec => ImplementsLedger
BY InitRefines, StepRefines, PTL DEF Spec, ImplementsLedger, Abstract!LedgerSpec

-----------------------------------------------------------------------------
(* The pool of connections these transactions run on (ConnectionPool), for    *)
(* any number of requests and any size of the pool.  A transaction that holds *)
(* the counter and audit rows above is there a request that is "locked" or    *)
(* further.  A request is granted a connection for what it asked for because  *)
(* the queue holds it once, and until it stops waiting.                       *)

(* Waiting for a connection, the first or the second. *)
Waiting == {"connecting", "asking"}

(* Without its i-th element a sequence is one shorter, and what was behind    *)
(* it has moved up by one.                                                    *)
LEMMA Removed ==
    ASSUME NEW S, NEW s \in Seq(S), NEW i \in 1 .. Len(s)
    PROVE  /\ RemoveAt(s, i) \in Seq(S)
           /\ Len(RemoveAt(s, i)) = Len(s) - 1
           /\ \A j \in 1 .. Len(s) - 1 : RemoveAt(s, i)[j] = IF j < i THEN s[j] ELSE s[j + 1]
<1> DEFINE a == SubSeq(s, 1, i - 1)
           b == SubSeq(s, i + 1, Len(s))
<1>1. a \in Seq(S) /\ Len(a) = i - 1 /\ \A j \in 1 .. i - 1 : a[j] = s[j]
  OBVIOUS
<1>2. b \in Seq(S) /\ Len(b) = Len(s) - i /\ \A j \in 1 .. Len(s) - i : b[j] = s[i + j]
  OBVIOUS
<1>3. RemoveAt(s, i) = a \o b
  BY DEF RemoveAt
<1> HIDE DEF a, b
<1>4. /\ a \o b \in Seq(S) /\ Len(a \o b) = Len(a) + Len(b)
      /\ \A j \in 1 .. Len(a) + Len(b) : (a \o b)[j] = IF j <= Len(a) THEN a[j] ELSE b[j - Len(a)]
  BY <1>1, <1>2, ConcatProperties
<1>5. i \in Int /\ Len(s) \in Nat /\ 1 <= i /\ i <= Len(s)
  OBVIOUS
<1>6. Len(a) + Len(b) = Len(s) - 1
  BY <1>1, <1>2, <1>5
<1>7. ASSUME NEW j \in 1 .. Len(s) - 1, j < i PROVE (a \o b)[j] = s[j]
  <2>1. j \in 1 .. i - 1 /\ j \in 1 .. Len(a) + Len(b) /\ j <= Len(a)
    BY <1>7, <1>1, <1>5, <1>6
  <2> QED
    BY <2>1, <1>1, <1>4
<1>8. ASSUME NEW j \in 1 .. Len(s) - 1, ~(j < i) PROVE (a \o b)[j] = s[j + 1]
  <2>1. j - Len(a) \in 1 .. Len(s) - i /\ j \in 1 .. Len(a) + Len(b) /\ ~(j <= Len(a))
    BY <1>8, <1>1, <1>5, <1>6
  <2>2. i + (j - Len(a)) = j + 1
    BY <1>1, <1>5
  <2> QED
    BY <2>1, <2>2, <1>2, <1>4
<1> QED
  BY <1>3, <1>4, <1>6, <1>7, <1>8

(* The requests that wait are the queue, each at one place.                   *)
Queued ==
    /\ pending \in Seq(Requests)
    /\ \A i \in 1 .. Len(pending) : place[pending[i]] \in Waiting
    /\ \A i, j \in 1 .. Len(pending) : pending[i] = pending[j] => i = j
    /\ \A r \in Requests : place[r] \in Waiting => \E i \in 1 .. Len(pending) : pending[i] = r

(* The connections in use fit into the pool. *)
Within ==
    /\ IsFiniteSet(holders)
    /\ inUse <= PoolMax

PoolInv == place \in [Requests -> Places] /\ Queued /\ NotifyHarmless

(* Nobody waits at first. *)
LEMMA InitPool == PoolInit => PoolInv
  BY DEF PoolInit, PoolInv, Queued, Waiting, NotifyHarmless, Places

(* A request that did not wait and does not now: the queue is not touched. *)
LEMMA Aside ==
    ASSUME PoolInv, NEW r \in Requests, NEW p \in Places \ Waiting, place[r] \notin Waiting,
           Goto(r, p), pending' = pending
    PROVE  place' \in [Requests -> Places] /\ Queued'
  BY DEF PoolInv, Queued, Goto

(* A request that goes to the end of the queue. *)
LEMMA Joins ==
    ASSUME PoolInv, NEW r \in Requests, NEW p \in Waiting, place[r] \notin Waiting,
           Goto(r, p), pending' = Append(pending, r)
    PROVE  place' \in [Requests -> Places] /\ Queued'
<1>1. place' \in [Requests -> Places]
  BY DEF PoolInv, Goto, Waiting, Places
<1>2. pending \in Seq(Requests)
  BY DEF PoolInv, Queued
<1>3. /\ pending' \in Seq(Requests) /\ Len(pending') = Len(pending) + 1
      /\ \A i \in 1 .. Len(pending) : pending'[i] = pending[i]
      /\ pending'[Len(pending) + 1] = r
  BY <1>2
<1> QED
  BY <1>1, <1>3 DEF PoolInv, Queued, Goto

(* A request that leaves the queue from its place i. *)
LEMMA Leaves ==
    ASSUME PoolInv, NEW r \in Requests, NEW p \in Places \ Waiting, Goto(r, p),
           NEW i \in 1 .. Len(pending), pending[i] = r, pending' = RemoveAt(pending, i)
    PROVE  place' \in [Requests -> Places] /\ Queued'
<1>1. place' \in [Requests -> Places]
  BY DEF PoolInv, Goto
<1>2. pending \in Seq(Requests)
  BY DEF PoolInv, Queued
<1>3. /\ pending' \in Seq(Requests) /\ Len(pending') = Len(pending) - 1
      /\ \A j \in 1 .. Len(pending) - 1 : pending'[j] = IF j < i THEN pending[j] ELSE pending[j + 1]
  BY <1>2, Removed
<1> DEFINE old(j) == IF j < i THEN j ELSE j + 1
<1>7. ASSUME NEW j \in 1 .. Len(pending')
      PROVE  old(j) \in 1 .. Len(pending) /\ old(j) # i /\ pending'[j] = pending[old(j)]
  <2>1. Len(pending) \in Nat
    BY <1>2
  <2>2. j \in 1 .. Len(pending) - 1
    BY <1>3
  <2>3. old(j) \in 1 .. Len(pending) /\ old(j) # i
    BY <2>1, <2>2
  <2> QED
    BY <2>2, <2>3, <1>3
<1>4. \A j \in 1 .. Len(pending') : place'[pending'[j]] \in Waiting
  <2> SUFFICES ASSUME NEW j \in 1 .. Len(pending') PROVE place'[pending'[j]] \in Waiting
    OBVIOUS
  <2>1. PICK o : o = old(j)
    OBVIOUS
  <2>2. o \in 1 .. Len(pending) /\ o # i /\ pending'[j] = pending[o]
    BY <2>1, <1>7
  <2>3. pending[o] # r /\ place[pending[o]] \in Waiting /\ pending[o] \in Requests
    BY <2>2, <1>2 DEF PoolInv, Queued
  <2> QED
    BY <2>2, <2>3 DEF Goto, PoolInv
<1>5. \A j, k \in 1 .. Len(pending') : pending'[j] = pending'[k] => j = k
  <2> SUFFICES ASSUME NEW j \in 1 .. Len(pending'), NEW k \in 1 .. Len(pending'), pending'[j] = pending'[k]
               PROVE  j = k
    OBVIOUS
  <2>1. old(j) = old(k)
    BY <1>7 DEF PoolInv, Queued
  <2> QED
    BY <2>1
<1>6. ASSUME NEW q \in Requests, place'[q] \in Waiting
      PROVE  \E j \in 1 .. Len(pending') : pending'[j] = q
  <2>1. q # r /\ place[q] \in Waiting
    BY <1>6 DEF Goto, PoolInv
  <2>2. PICK j \in 1 .. Len(pending) : pending[j] = q
    BY <2>1 DEF PoolInv, Queued
  <2>3. j # i
    BY <2>1, <2>2
  <2>4. CASE j < i
    BY <2>4, <2>2, <1>3, <1>2
  <2>5. CASE j > i
    <3>1. j - 1 \in 1 .. Len(pending') /\ pending'[j - 1] = q
      BY <2>5, <2>2, <1>3, <1>2
    <3> QED
      BY <3>1
  <2> QED
    BY <2>3, <2>4, <2>5
<1> QED
  BY <1>1, <1>3, <1>4, <1>5, <1>6 DEF Queued

(* Every step keeps the queue and what is known of failures. *)
LEMMA NextPool ==
    ASSUME PoolInv, PoolNext
    PROVE  PoolInv'
<1>1. CASE Grant
  <2>1. PICK r : r = Head(pending)
    OBVIOUS
  <2>2. pending \in Seq(Requests) /\ pending # <<>> /\ Len(pending) >= 1
    BY <1>1 DEF Grant, PoolInv, Queued
  <2>3. 1 \in 1 .. Len(pending) /\ pending[1] = r /\ r \in Requests
    BY <2>1, <2>2
  <2>4. place[r] \in Waiting
    BY <2>3 DEF PoolInv, Queued
  <2>5. PICK p : p = IF place[r] = "connecting" THEN "begun" ELSE "notifying"
    OBVIOUS
  <2>6. p \in Places \ Waiting /\ p # "failed"
    BY <2>5 DEF Places, Waiting
  <2>7. Goto(r, p)
    BY <1>1, <2>1, <2>5 DEF Grant
  <2>8. pending' = RemoveAt(pending, 1)
    <3>1. pending' = Tail(pending)
      BY <1>1 DEF Grant
    <3>2. SubSeq(pending, 1, 0) = <<>>
      BY <2>2
    <3>3. SubSeq(pending, 2, Len(pending)) = Tail(pending) /\ Tail(pending) \in Seq(Requests)
      BY <2>2
    <3>4. <<>> \o Tail(pending) = Tail(pending)
      BY <3>3
    <3> QED
      BY <3>1, <3>2, <3>3, <3>4 DEF RemoveAt
  <2>9. place' \in [Requests -> Places] /\ Queued'
    BY <2>3, <2>6, <2>7, <2>8, Leaves
  <2>10. NotifyHarmless'
    BY <1>1, <2>3, <2>4, <2>6, <2>7 DEF Grant, Goto, PoolInv, NotifyHarmless, Waiting
  <2> QED
    BY <2>9, <2>10 DEF PoolInv
<1>2. ASSUME NEW r \in Requests, Connect(r) PROVE PoolInv'
  <2>1. place' \in [Requests -> Places] /\ Queued'
    BY <1>2, Joins DEF Connect, Waiting
  <2> QED
    BY <1>2, <2>1 DEF Connect, Goto, PoolInv, NotifyHarmless
<1>3. ASSUME NEW r \in Requests, Ask(r) PROVE PoolInv'
  <2>1. place' \in [Requests -> Places] /\ Queued'
    BY <1>3, Joins DEF Ask, Waiting
  <2> QED
    BY <1>3, <2>1 DEF Ask, Goto, PoolInv, NotifyHarmless
<1>4. ASSUME NEW r \in Requests, Timeout(r) PROVE PoolInv'
  <2>1. PICK i \in 1 .. Len(pending) : pending[i] = r /\ pending' = RemoveAt(pending, i)
    BY <1>4 DEF Timeout, PoolInv, Queued
  <2>2. afterTimeout(r) \in Places \ Waiting
    BY DEF afterTimeout, Places, Waiting
  <2>3. Goto(r, afterTimeout(r))
    BY <1>4 DEF Timeout
  <2>4. place' \in [Requests -> Places] /\ Queued'
    BY <2>1, <2>2, <2>3, Leaves
  <2> QED
    BY <1>4, <2>4 DEF Timeout, afterTimeout, Goto, PoolInv, NotifyHarmless
<1>5. ASSUME NEW r \in Requests, Lock(r) \/ Skip(r) \/ toRoles(r) \/ CommitAndRelease(r) \/ toRolesFails(r) \/ RollbackAndRelease(r)
      PROVE  PoolInv'
  <2>1. PICK p : /\ p \in {"locked", "last", "done", "failed"} /\ Goto(r, p) /\ place[r] \notin Waiting
                 /\ pending' = pending
    BY <1>5 DEF Lock, Skip, toRoles, CommitAndRelease, toRolesFails, RollbackAndRelease, Waiting
  <2>2. p \in Places \ Waiting
    BY <2>1 DEF Places, Waiting
  <2>3. place' \in [Requests -> Places] /\ Queued'
    BY <2>1, <2>2, Aside
  <2>4. NotifyHarmless'
    <3>1. CASE Lock(r) \/ Skip(r) \/ CommitAndRelease(r)
      BY <3>1 DEF Lock, Skip, CommitAndRelease, Goto, PoolInv, NotifyHarmless
    <3>2. CASE toRoles(r) \/ toRolesFails(r)
      BY <3>2 DEF toRoles, toRolesFails, Goto, PoolInv, NotifyHarmless
    <3>3. CASE RollbackAndRelease(r)
      BY <3>3 DEF RollbackAndRelease, Goto, PoolInv, NotifyHarmless
    <3> QED
      BY <1>5, <3>1, <3>2, <3>3
  <2> QED
    BY <2>3, <2>4 DEF PoolInv
<1> QED
  BY <1>1, <1>2, <1>3, <1>4, <1>5 DEF PoolNext, Run

(* NotifyHarmless of every behaviour: whatever the pool refuses and whichever *)
(* statement fails, toRoles neither fails the request that notifies nor       *)
(* leaves a notification of one that rolled back without a failed statement   *)
(* (NotifyService).                                                           *)
THEOREM PoolNotifyHarmless == PoolSpec => []NotifyHarmless
<1>1. PoolInv /\ [PoolNext]_poolVars => PoolInv'
  <2>1. CASE UNCHANGED poolVars
    BY <2>1 DEF poolVars, PoolInv, Queued, NotifyHarmless
  <2> QED
    BY <2>1, NextPool
<1>2. PoolInv => NotifyHarmless
  BY DEF PoolInv
<1> QED
  BY InitPool, <1>1, <1>2, PTL DEF PoolSpec

(* Connections in use, before and after a step. *)
LEMMA Counted ==
    /\ inUse = Cardinality(holders) + Cardinality(notifiers)
    /\ inUse' = Cardinality(holders') + Cardinality(notifiers')
  BY DEF inUse

(* Where nobody takes a connection, no more are in use. *)
LEMMA NotMore ==
    ASSUME Within, PoolMax \in Nat, holders' \subseteq holders, notifiers' \subseteq notifiers
    PROVE  Within'
<1>1. notifiers \subseteq holders /\ IsFiniteSet(holders) /\ IsFiniteSet(notifiers)
  BY FS_Subset DEF Within, holders, notifiers, Held
<1>2. /\ IsFiniteSet(holders') /\ Cardinality(holders') <= Cardinality(holders)
      /\ Cardinality(notifiers') <= Cardinality(notifiers)
  BY <1>1, FS_Subset
<1>3. IsFiniteSet(notifiers')
  BY <1>1, FS_Subset
<1>4. /\ Cardinality(holders) \in Nat /\ Cardinality(holders') \in Nat
      /\ Cardinality(notifiers) \in Nat /\ Cardinality(notifiers') \in Nat
  BY <1>1, <1>2, <1>3, FS_CardinalityType
<1> QED
  BY <1>2, <1>4, Counted DEF Within

(* The queue's head takes the one that is free. *)
LEMMA OneMore ==
    ASSUME PoolInv, Within, PoolMax \in Nat, Grant
    PROVE  Within'
<1>1. PICK r : r = Head(pending)
  OBVIOUS
<1>2. r \in Requests /\ place[r] \in Waiting
  <2>1. pending \in Seq(Requests) /\ pending # <<>> /\ Len(pending) >= 1
    BY DEF Grant, PoolInv, Queued
  <2>2. 1 \in 1 .. Len(pending) /\ pending[1] = r
    BY <1>1, <2>1
  <2> QED
    BY <2>1, <2>2 DEF PoolInv, Queued
<1>3. /\ place \in [Requests -> Places]
      /\ place' = [place EXCEPT ![r] = IF place[r] = "connecting" THEN "begun" ELSE "notifying"]
  BY <1>1 DEF Grant, Goto, PoolInv
<1>4. notifiers \subseteq holders /\ IsFiniteSet(holders) /\ IsFiniteSet(notifiers)
  BY FS_Subset DEF Within, holders, notifiers, Held
<1>5. Cardinality(holders) \in Nat /\ Cardinality(notifiers) \in Nat /\ inUse < PoolMax
  BY <1>4, FS_CardinalityType DEF Grant
<1>6. CASE place[r] = "connecting"
  <2>1. holders' = holders \cup {r} /\ r \notin holders /\ notifiers' = notifiers
    BY <1>2, <1>3, <1>6 DEF holders, notifiers, Held, Places
  <2>2. IsFiniteSet(holders') /\ Cardinality(holders') = Cardinality(holders) + 1
    BY <1>4, <2>1, FS_AddElement
  <2> QED
    BY <1>5, <2>1, <2>2, Counted DEF Within
<1>7. CASE place[r] = "asking"
  <2>1. holders' = holders /\ notifiers' = notifiers \cup {r} /\ r \notin notifiers
    BY <1>2, <1>3, <1>7 DEF holders, notifiers, Held, Places
  <2>2. Cardinality(notifiers') = Cardinality(notifiers) + 1
    BY <1>4, <2>1, FS_AddElement
  <2> QED
    BY <1>4, <1>5, <2>1, <2>2, Counted DEF Within
<1> QED
  BY <1>2, <1>6, <1>7 DEF Waiting

(* The pool never has more than PoolMax connections in use, and its queue is *)
(* the requests that wait (max of the Pool in PgService).                     *)
THEOREM PoolKeepsItsSize ==
    PoolSpec => []PoolTypeOK
<1>1. PoolMax \in Nat /\ PoolMax >= 0
  BY PoolAssumption
<1>2. PoolInit => Within
  <2> SUFFICES ASSUME PoolInit PROVE Within
    OBVIOUS
  <2>1. holders = {} /\ notifiers = {}
    BY DEF PoolInit, holders, notifiers, Held
  <2> QED
    BY <2>1, <1>1, FS_EmptySet, Counted DEF Within
<1>3. PoolInv /\ Within /\ [PoolNext]_poolVars => PoolInv' /\ Within'
  <2> SUFFICES ASSUME PoolInv, Within, [PoolNext]_poolVars PROVE PoolInv' /\ Within'
    OBVIOUS
  <2>1. CASE UNCHANGED poolVars
    BY <2>1 DEF poolVars, PoolInv, Queued, NotifyHarmless, Within, inUse, holders, notifiers
  <2>2. CASE PoolNext
    <3>1. CASE Grant
      BY <2>2, <3>1, <1>1, NextPool, OneMore
    <3>2. ASSUME NEW r \in Requests, Connect(r) \/ Timeout(r) \/ Run(r) \/ toRolesFails(r) \/ RollbackAndRelease(r)
          PROVE  Within'
      <4>1. PICK p \in Places :
                /\ Goto(r, p)
                /\ p \in Held \cup {"begun"} => place[r] \in Held \cup {"begun"}
                /\ p # "notifying"
        BY <3>2 DEF Connect, Timeout, afterTimeout, Run, Lock, Ask, Skip, toRoles, CommitAndRelease,
                   toRolesFails, RollbackAndRelease, Places, Held
      <4>2. holders' \subseteq holders /\ notifiers' \subseteq notifiers
        BY <4>1 DEF Goto, PoolInv, holders, notifiers
      <4> QED
        BY <4>2, <1>1, NotMore
    <3> QED
      BY <2>2, <3>1, <3>2, NextPool DEF PoolNext
  <2> QED
    BY <2>1, <2>2
<1>4. PoolInv /\ Within => PoolTypeOK
  <2> SUFFICES ASSUME PoolInv, Within PROVE PoolTypeOK
    OBVIOUS
  <2>1. ToSet(pending) = {r \in Requests : place[r] \in {"connecting", "asking"}}
    <3>1. pending \in Seq(Requests)
      BY DEF PoolInv, Queued
    <3>2. ToSet(pending) = {pending[i] : i \in 1 .. Len(pending)}
      BY <3>1 DEF ToSet
    <3> QED
      BY <3>1, <3>2 DEF PoolInv, Queued, Waiting
  <2>2. notifiers \subseteq holders /\ IsFiniteSet(holders) /\ IsFiniteSet(notifiers)
    BY FS_Subset DEF Within, holders, notifiers, Held
  <2>3. Cardinality(holders) \in Nat /\ Cardinality(notifiers) \in Nat
    BY <2>2, FS_CardinalityType
  <2>4. inUse \in 0 .. PoolMax
    BY <1>1, <2>3, Counted DEF Within
  <2> QED
    BY <2>1, <2>4 DEF PoolInv, PoolTypeOK
<1> QED
  BY InitPool, <1>2, <1>3, <1>4, PTL DEF PoolSpec
=============================================================================
