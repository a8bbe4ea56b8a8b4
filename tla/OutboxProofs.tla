---------------------------- MODULE OutboxProofs ----------------------------
(***************************************************************************)
(* Proofs about Outbox, for any number of workers, events, faults, resyncs  *)
(* and attempts.                                                            *)
(*                                                                          *)
(* The first part holds of any mix of the two worker programs.  Exclusion,  *)
(* and what rests on it, holds where API instances alone are deployed: a    *)
(* standalone worker claims what another one is at.                         *)
(***************************************************************************)
EXTENDS Outbox, TLAPS

(* No attempt is counted that did not fail, in a row or in a worker's copy. *)
AttemptsFailed ==
    /\ \A e \in Events : attempts[e] <= failures[e]
    /\ \A w \in Workers : \A j \in batch[w] : j.attempts <= failures[j.event]
    /\ \A w \in Workers : pc[w] \in {"failed", "rejected"}
                            => job[w].attempts + 1 <= failures[job[w].event]
    /\ \A w \in Workers : pc[w] = "rejected" => w \in Standalone

(* A worker about to record success has its event accepted. *)
MarkAccepted ==
    \A w \in Workers : pc[w] = "mark" => delivered[job[w].event] > 0

IInv ==
    /\ TypeOK
    /\ AttemptsFailed
    /\ MarkAccepted
    /\ DoneWasDelivered
    /\ DeadGaveUp

(* A row can go stale under a worker's hands only by an overrun. *)
StaleIsFree ==
    \A e \in Events \ overrun :
        stale[e] /\ status[e] = "processing" => \A w \in Workers : ~holds(w, e)

(* One job of an event in a batch: a worker that is through with the job is  *)
(* through with the event.                                                   *)
OneJobPerEvent ==
    \A w \in Workers : \A i, j \in batch[w] : i.event = j.event => i = j

(* An event accepted once is done, or its worker is about to record it. *)
AcceptedOnce ==
    \A e \in Events \ (unrecorded \cup overrun) :
        \/ delivered[e] = 0
        \/ /\ delivered[e] = 1
           /\ \/ status[e] = "done"
              \/ \E w \in Workers : pc[w] = "mark" /\ job[w].event = e

XInv ==
    /\ TypeOK
    /\ InProcessOnly
    /\ OneHolder
    /\ StaleIsFree
    /\ OneJobPerEvent
    /\ AcceptedOnce

-----------------------------------------------------------------------------
(* The new table satisfies the invariant. *)
LEMMA InitIInv == Init => IInv
BY OutboxAssumption DEF Init, IInv, TypeOK, AttemptsFailed, MarkAccepted,
   DoneWasDelivered, DeadGaveUp, Busy

(* Every action keeps the shape of rows and workers. *)
LEMMA NextTypeOK == TypeOK /\ [Next]_vars => TypeOK'
<1> SUFFICES ASSUME TypeOK, [Next]_vars PROVE TypeOK'
  OBVIOUS
<1> USE OutboxAssumption DEF TypeOK, Busy, row, history
<1>1. ASSUME NEW w \in Workers, Tick(w) PROVE TypeOK'
  BY <1>1 DEF Tick
<1>2. ASSUME NEW w \in Workers, Claim(w) PROVE TypeOK'
  BY <1>2 DEF Claim, Job, claimable
<1>3. ASSUME NEW w \in Workers, EndBatch(w) PROVE TypeOK'
  BY <1>3 DEF EndBatch
<1>4. ASSUME NEW w \in Workers, Dispatch(w) PROVE TypeOK'
  BY <1>4 DEF Dispatch
<1>5. ASSUME NEW w \in Workers, DeadLetterUnhandled(w) PROVE TypeOK'
  BY <1>5 DEF DeadLetterUnhandled, Update, Release, Job
<1>6. ASSUME NEW w \in Workers, HandlerReturns(w) PROVE TypeOK'
  BY <1>6 DEF HandlerReturns, Accept, Job
<1>7. ASSUME NEW w \in Workers, HandlerThrows(w) PROVE TypeOK'
  BY <1>7 DEF HandlerThrows, MaybeAcceptUnrecorded, Accept, Job
<1>8. ASSUME NEW w \in Workers, MarkDone(w) PROVE TypeOK'
  BY <1>8 DEF MarkDone, Update, Release, Job
<1>9. ASSUME NEW w \in Workers, MarkDoneFails(w) PROVE TypeOK'
  BY <1>9 DEF MarkDoneFails, Job
<1>10. ASSUME NEW w \in Workers, MarkRetry(w) PROVE TypeOK'
  BY <1>10 DEF MarkRetry, Update, Release, Job
<1>11. ASSUME NEW w \in Workers, MarkDead(w) PROVE TypeOK'
  BY <1>11 DEF MarkDead, Update, Release, Job
<1>12. ASSUME NEW w \in Workers, Abandon(w) PROVE TypeOK'
  BY <1>12 DEF Abandon, MaybeAcceptUnrecorded, Accept, Job
<1>13. ASSUME NEW e \in Events, Enqueue(e) PROVE TypeOK'
  BY <1>13 DEF Enqueue, Update
<1>14. ASSUME NEW e \in Events, RetrySync(e) PROVE TypeOK'
  BY <1>14 DEF RetrySync, Update
<1>15. ASSUME NEW e \in Events, TimePasses(e) PROVE TypeOK'
  BY <1>15 DEF TimePasses, BackoffElapses, GoesStale
<1>16. ASSUME NEW e \in Events, Overruns(e) PROVE TypeOK'
  BY <1>16 DEF Overruns
<1>17. CASE UNCHANGED vars
  BY <1>17 DEF vars
<1> QED
  BY <1>1, <1>2, <1>3, <1>4, <1>5, <1>6, <1>7, <1>8, <1>9, <1>10, <1>11, <1>12,
     <1>13, <1>14, <1>15, <1>16, <1>17 DEF Next, Work

(* Every action keeps attempts below the failures there were. *)
LEMMA NextAttemptsFailed == IInv /\ [Next]_vars => AttemptsFailed'
<1> SUFFICES ASSUME IInv, [Next]_vars PROVE AttemptsFailed'
  OBVIOUS
<1> USE OutboxAssumption DEF IInv, TypeOK, AttemptsFailed, Busy, Job, row, history
<1>1. ASSUME NEW w \in Workers, Tick(w) PROVE AttemptsFailed'
  BY <1>1 DEF Tick
<1>2. ASSUME NEW w \in Workers, Claim(w) PROVE AttemptsFailed'
  BY <1>2 DEF Claim, claimable
<1>3. ASSUME NEW w \in Workers, EndBatch(w) PROVE AttemptsFailed'
  BY <1>3 DEF EndBatch
<1>4. ASSUME NEW w \in Workers, Dispatch(w) PROVE AttemptsFailed'
  BY <1>4 DEF Dispatch
<1>5. ASSUME NEW w \in Workers, DeadLetterUnhandled(w) PROVE AttemptsFailed'
  BY <1>5 DEF DeadLetterUnhandled, Update, Release
<1>6. ASSUME NEW w \in Workers, HandlerReturns(w) PROVE AttemptsFailed'
  BY <1>6 DEF HandlerReturns
<1>7. ASSUME NEW w \in Workers, HandlerThrows(w) PROVE AttemptsFailed'
  BY <1>7 DEF HandlerThrows
<1>8. ASSUME NEW w \in Workers, MarkDone(w) PROVE AttemptsFailed'
  BY <1>8 DEF MarkDone, Update, Release
<1>9. ASSUME NEW w \in Workers, MarkDoneFails(w) PROVE AttemptsFailed'
  BY <1>9 DEF MarkDoneFails
<1>10. ASSUME NEW w \in Workers, MarkRetry(w) PROVE AttemptsFailed'
  BY <1>10 DEF MarkRetry, Update, Release
<1>11. ASSUME NEW w \in Workers, MarkDead(w) PROVE AttemptsFailed'
  BY <1>11 DEF MarkDead, Update, Release
<1>12. ASSUME NEW w \in Workers, Abandon(w) PROVE AttemptsFailed'
  BY <1>12 DEF Abandon
<1>13. ASSUME NEW e \in Events, Enqueue(e) PROVE AttemptsFailed'
  BY <1>13 DEF Enqueue, Update
<1>14. ASSUME NEW e \in Events, RetrySync(e) PROVE AttemptsFailed'
  BY <1>14 DEF RetrySync, Update
<1>15. ASSUME NEW e \in Events, TimePasses(e) PROVE AttemptsFailed'
  BY <1>15 DEF TimePasses, BackoffElapses, GoesStale
<1>16. ASSUME NEW e \in Events, Overruns(e) PROVE AttemptsFailed'
  BY <1>16 DEF Overruns
<1>17. CASE UNCHANGED vars
  BY <1>17 DEF vars
<1> QED
  BY <1>1, <1>2, <1>3, <1>4, <1>5, <1>6, <1>7, <1>8, <1>9, <1>10, <1>11, <1>12,
     <1>13, <1>14, <1>15, <1>16, <1>17 DEF Next, Work

(* Every action keeps "done" behind an acceptance. *)
LEMMA NextDelivered == IInv /\ [Next]_vars => MarkAccepted' /\ DoneWasDelivered'
<1> SUFFICES ASSUME IInv, [Next]_vars PROVE MarkAccepted' /\ DoneWasDelivered'
  OBVIOUS
<1> USE OutboxAssumption DEF IInv, TypeOK, MarkAccepted, DoneWasDelivered, Busy, Job, row, history
<1>1. ASSUME NEW w \in Workers, Tick(w) PROVE MarkAccepted' /\ DoneWasDelivered'
  BY <1>1 DEF Tick
<1>2. ASSUME NEW w \in Workers, Claim(w) PROVE MarkAccepted' /\ DoneWasDelivered'
  BY <1>2 DEF Claim, claimable
<1>3. ASSUME NEW w \in Workers, EndBatch(w) PROVE MarkAccepted' /\ DoneWasDelivered'
  BY <1>3 DEF EndBatch
<1>4. ASSUME NEW w \in Workers, Dispatch(w) PROVE MarkAccepted' /\ DoneWasDelivered'
  BY <1>4 DEF Dispatch
<1>5. ASSUME NEW w \in Workers, DeadLetterUnhandled(w) PROVE MarkAccepted' /\ DoneWasDelivered'
  BY <1>5 DEF DeadLetterUnhandled, Update, Release
<1>6. ASSUME NEW w \in Workers, HandlerReturns(w) PROVE MarkAccepted' /\ DoneWasDelivered'
  BY <1>6 DEF HandlerReturns, Accept
<1>7. ASSUME NEW w \in Workers, HandlerThrows(w) PROVE MarkAccepted' /\ DoneWasDelivered'
  BY <1>7 DEF HandlerThrows, MaybeAcceptUnrecorded, Accept
<1>8. ASSUME NEW w \in Workers, MarkDone(w) PROVE MarkAccepted' /\ DoneWasDelivered'
  BY <1>8 DEF MarkDone, Update, Release
<1>9. ASSUME NEW w \in Workers, MarkDoneFails(w) PROVE MarkAccepted' /\ DoneWasDelivered'
  BY <1>9 DEF MarkDoneFails
<1>10. ASSUME NEW w \in Workers, MarkRetry(w) PROVE MarkAccepted' /\ DoneWasDelivered'
  BY <1>10 DEF MarkRetry, Update, Release
<1>11. ASSUME NEW w \in Workers, MarkDead(w) PROVE MarkAccepted' /\ DoneWasDelivered'
  BY <1>11 DEF MarkDead, Update, Release
<1>12. ASSUME NEW w \in Workers, Abandon(w) PROVE MarkAccepted' /\ DoneWasDelivered'
  BY <1>12 DEF Abandon, MaybeAcceptUnrecorded, Accept
<1>13. ASSUME NEW e \in Events, Enqueue(e) PROVE MarkAccepted' /\ DoneWasDelivered'
  BY <1>13 DEF Enqueue, Update
<1>14. ASSUME NEW e \in Events, RetrySync(e) PROVE MarkAccepted' /\ DoneWasDelivered'
  BY <1>14 DEF RetrySync, Update
<1>15. ASSUME NEW e \in Events, TimePasses(e) PROVE MarkAccepted' /\ DoneWasDelivered'
  BY <1>15 DEF TimePasses, BackoffElapses, GoesStale
<1>16. ASSUME NEW e \in Events, Overruns(e) PROVE MarkAccepted' /\ DoneWasDelivered'
  BY <1>16 DEF Overruns
<1>17. CASE UNCHANGED vars
  BY <1>17 DEF vars
<1> QED
  BY <1>1, <1>2, <1>3, <1>4, <1>5, <1>6, <1>7, <1>8, <1>9, <1>10, <1>11, <1>12,
     <1>13, <1>14, <1>15, <1>16, <1>17 DEF Next, Work

(* Every action keeps "dead" behind failures or a missing handler. *)
LEMMA NextDeadGaveUp == IInv /\ [Next]_vars => DeadGaveUp'
<1> SUFFICES ASSUME IInv, [Next]_vars PROVE DeadGaveUp'
  OBVIOUS
<1> USE OutboxAssumption DEF IInv, TypeOK, AttemptsFailed, DeadGaveUp, Busy, Job, row, history,
           exhausted, hasHandler, InProcessOnly
<1>1. ASSUME NEW w \in Workers, Tick(w) PROVE DeadGaveUp'
  BY <1>1 DEF Tick
<1>2. ASSUME NEW w \in Workers, Claim(w) PROVE DeadGaveUp'
  BY <1>2 DEF Claim, claimable
<1>3. ASSUME NEW w \in Workers, EndBatch(w) PROVE DeadGaveUp'
  BY <1>3 DEF EndBatch
<1>4. ASSUME NEW w \in Workers, Dispatch(w) PROVE DeadGaveUp'
  BY <1>4 DEF Dispatch
<1>5. ASSUME NEW w \in Workers, DeadLetterUnhandled(w) PROVE DeadGaveUp'
  BY <1>5 DEF DeadLetterUnhandled, Update, Release
<1>6. ASSUME NEW w \in Workers, HandlerReturns(w) PROVE DeadGaveUp'
  BY <1>6 DEF HandlerReturns, Accept
<1>7. ASSUME NEW w \in Workers, HandlerThrows(w) PROVE DeadGaveUp'
  BY <1>7 DEF HandlerThrows, MaybeAcceptUnrecorded, Accept
<1>8. ASSUME NEW w \in Workers, MarkDone(w) PROVE DeadGaveUp'
  BY <1>8 DEF MarkDone, Update, Release
<1>9. ASSUME NEW w \in Workers, MarkDoneFails(w) PROVE DeadGaveUp'
  BY <1>9 DEF MarkDoneFails
<1>10. ASSUME NEW w \in Workers, MarkRetry(w) PROVE DeadGaveUp'
  BY <1>10 DEF MarkRetry, Update, Release
<1>11. ASSUME NEW w \in Workers, MarkDead(w) PROVE DeadGaveUp'
  BY <1>11 DEF MarkDead, Update, Release
<1>12. ASSUME NEW w \in Workers, Abandon(w) PROVE DeadGaveUp'
  BY <1>12 DEF Abandon, MaybeAcceptUnrecorded, Accept
<1>13. ASSUME NEW e \in Events, Enqueue(e) PROVE DeadGaveUp'
  BY <1>13 DEF Enqueue, Update
<1>14. ASSUME NEW e \in Events, RetrySync(e) PROVE DeadGaveUp'
  BY <1>14 DEF RetrySync, Update
<1>15. ASSUME NEW e \in Events, TimePasses(e) PROVE DeadGaveUp'
  BY <1>15 DEF TimePasses, BackoffElapses, GoesStale
<1>16. ASSUME NEW e \in Events, Overruns(e) PROVE DeadGaveUp'
  BY <1>16 DEF Overruns
<1>17. CASE UNCHANGED vars
  BY <1>17 DEF vars
<1> QED
  BY <1>1, <1>2, <1>3, <1>4, <1>5, <1>6, <1>7, <1>8, <1>9, <1>10, <1>11, <1>12,
     <1>13, <1>14, <1>15, <1>16, <1>17 DEF Next, Work

(* IInv is inductive. *)
LEMMA NextIInv == IInv /\ [Next]_vars => IInv'
BY NextTypeOK, NextAttemptsFailed, NextDelivered, NextDeadGaveUp DEF IInv

(* Hence it is invariant, whichever workers run. *)
LEMMA Invariance == Spec => []IInv
<1> QED
  BY InitIInv, NextIInv, PTL DEF Spec

(* TypeCorrect: rows, workers, batches and histories keep their shape, and a *)
(* busy worker has one of the jobs it claimed.                               *)
THEOREM TypeCorrect == Spec => []TypeOK
<1>1. IInv => TypeOK
  BY DEF IInv
<1> QED
  BY <1>1, Invariance, PTL

(* DoneMeansDelivered: no crash, takeover, late answer or resync makes a row *)
(* done without the integration having accepted the event.                   *)
THEOREM DoneMeansDelivered == Spec => []DoneWasDelivered
<1>1. IInv => DoneWasDelivered
  BY DEF IInv
<1> QED
  BY <1>1, Invariance, PTL

(* DeadMeansTried: an event with a handler is dead-lettered only after the   *)
(* configured number of failed attempts.                                     *)
THEOREM DeadMeansTried == Spec => []DeadGaveUp
<1>1. IInv => DeadGaveUp
  BY DEF IInv
<1> QED
  BY <1>1, Invariance, PTL

-----------------------------------------------------------------------------
(* API instances alone. *)

(* The new table satisfies the exclusion invariant. *)
LEMMA InitXInv == Init /\ InProcessOnly => XInv
<1> SUFFICES ASSUME Init, InProcessOnly PROVE XInv
  OBVIOUS
<1>1. TypeOK
  BY OutboxAssumption DEF Init, TypeOK, Busy
<1> QED
  BY <1>1 DEF Init, XInv, OneHolder, StaleIsFree, OneJobPerEvent, AcceptedOnce, holds

(* A claim copies each row once. *)
LEMMA NextOneJobPerEvent ==
    XInv /\ [Next]_vars => OneJobPerEvent'
<1> SUFFICES ASSUME XInv, [Next]_vars PROVE OneJobPerEvent'
  OBVIOUS
<1> USE OutboxAssumption DEF XInv, InProcessOnly, TypeOK, Busy, Job, row, history, holds, OneJobPerEvent
<1>1. ASSUME NEW w \in Workers, Tick(w) PROVE OneJobPerEvent'
  BY <1>1 DEF Tick
<1>2. ASSUME NEW w \in Workers, Claim(w) PROVE OneJobPerEvent'
  BY <1>2 DEF Claim, claimable
<1>3. ASSUME NEW w \in Workers, EndBatch(w) PROVE OneJobPerEvent'
  BY <1>3 DEF EndBatch
<1>4. ASSUME NEW w \in Workers, Dispatch(w) PROVE OneJobPerEvent'
  BY <1>4 DEF Dispatch
<1>5. ASSUME NEW w \in Workers, DeadLetterUnhandled(w) PROVE OneJobPerEvent'
  BY <1>5 DEF DeadLetterUnhandled, Update, Release
<1>6. ASSUME NEW w \in Workers, HandlerReturns(w) PROVE OneJobPerEvent'
  BY <1>6 DEF HandlerReturns, Accept
<1>7. ASSUME NEW w \in Workers, HandlerThrows(w) PROVE OneJobPerEvent'
  BY <1>7 DEF HandlerThrows, MaybeAcceptUnrecorded, Accept
<1>8. ASSUME NEW w \in Workers, MarkDone(w) PROVE OneJobPerEvent'
  BY <1>8 DEF MarkDone, Update, Release
<1>9. ASSUME NEW w \in Workers, MarkDoneFails(w) PROVE OneJobPerEvent'
  BY <1>9 DEF MarkDoneFails
<1>10. ASSUME NEW w \in Workers, MarkRetry(w) PROVE OneJobPerEvent'
  BY <1>10 DEF MarkRetry, Update, Release
<1>11. ASSUME NEW w \in Workers, MarkDead(w) PROVE OneJobPerEvent'
  BY <1>11 DEF MarkDead, Update, Release
<1>12. ASSUME NEW w \in Workers, Abandon(w) PROVE OneJobPerEvent'
  BY <1>12 DEF Abandon, MaybeAcceptUnrecorded, Accept
<1>13. ASSUME NEW e \in Events, Enqueue(e) PROVE OneJobPerEvent'
  BY <1>13 DEF Enqueue, Update
<1>14. ASSUME NEW e \in Events, RetrySync(e) PROVE OneJobPerEvent'
  BY <1>14 DEF RetrySync, Update
<1>15. ASSUME NEW e \in Events, TimePasses(e) PROVE OneJobPerEvent'
  BY <1>15 DEF TimePasses, BackoffElapses, GoesStale
<1>16. ASSUME NEW e \in Events, Overruns(e) PROVE OneJobPerEvent'
  BY <1>16 DEF Overruns
<1>17. CASE UNCHANGED vars
  BY <1>17 DEF vars
<1> QED
  BY <1>1, <1>2, <1>3, <1>4, <1>5, <1>6, <1>7, <1>8, <1>9, <1>10, <1>11, <1>12,
     <1>13, <1>14, <1>15, <1>16, <1>17 DEF Next, Work

(* A claim takes pending rows only, and no held row is made pending unless
   it went stale. *)
LEMMA NextOneHolder ==
    XInv /\ [Next]_vars => OneHolder'
<1> SUFFICES ASSUME XInv, [Next]_vars PROVE OneHolder'
  OBVIOUS
<1> USE OutboxAssumption DEF XInv, InProcessOnly, TypeOK, Busy, Job, row, history, holds, 
           OneJobPerEvent, OneHolder, StaleIsFree, Workers, reclaimable
<1>1. ASSUME NEW w \in Workers, Tick(w) PROVE OneHolder'
  BY <1>1 DEF Tick
<1>2. ASSUME NEW w \in Workers, Claim(w) PROVE OneHolder'
  BY <1>2 DEF Claim, claimable
<1>3. ASSUME NEW w \in Workers, EndBatch(w) PROVE OneHolder'
  BY <1>3 DEF EndBatch
<1>4. ASSUME NEW w \in Workers, Dispatch(w) PROVE OneHolder'
  BY <1>4 DEF Dispatch
<1>5. ASSUME NEW w \in Workers, DeadLetterUnhandled(w) PROVE OneHolder'
  BY <1>5 DEF DeadLetterUnhandled, Update, Release
<1>6. ASSUME NEW w \in Workers, HandlerReturns(w) PROVE OneHolder'
  BY <1>6 DEF HandlerReturns, Accept
<1>7. ASSUME NEW w \in Workers, HandlerThrows(w) PROVE OneHolder'
  BY <1>7 DEF HandlerThrows, MaybeAcceptUnrecorded, Accept
<1>8. ASSUME NEW w \in Workers, MarkDone(w) PROVE OneHolder'
  BY <1>8 DEF MarkDone, Update, Release
<1>9. ASSUME NEW w \in Workers, MarkDoneFails(w) PROVE OneHolder'
  BY <1>9 DEF MarkDoneFails
<1>10. ASSUME NEW w \in Workers, MarkRetry(w) PROVE OneHolder'
  BY <1>10 DEF MarkRetry, Update, Release
<1>11. ASSUME NEW w \in Workers, MarkDead(w) PROVE OneHolder'
  BY <1>11 DEF MarkDead, Update, Release
<1>12. ASSUME NEW w \in Workers, Abandon(w) PROVE OneHolder'
  BY <1>12 DEF Abandon, MaybeAcceptUnrecorded, Accept
<1>13. ASSUME NEW e \in Events, Enqueue(e) PROVE OneHolder'
  BY <1>13 DEF Enqueue, Update
<1>14. ASSUME NEW e \in Events, RetrySync(e) PROVE OneHolder'
  BY <1>14 DEF RetrySync, Update
<1>15. ASSUME NEW e \in Events, TimePasses(e) PROVE OneHolder'
  BY <1>15 DEF TimePasses, BackoffElapses, GoesStale
<1>16. ASSUME NEW e \in Events, Overruns(e) PROVE OneHolder'
  BY <1>16 DEF Overruns
<1>17. CASE UNCHANGED vars
  BY <1>17 DEF vars
<1> QED
  BY <1>1, <1>2, <1>3, <1>4, <1>5, <1>6, <1>7, <1>8, <1>9, <1>10, <1>11, <1>12,
     <1>13, <1>14, <1>15, <1>16, <1>17 DEF Next, Work

(* A claim makes its rows fresh; only time passing without a holder, or an
   overrun, makes them stale. *)
LEMMA NextStaleIsFree ==
    XInv /\ [Next]_vars => StaleIsFree'
<1> SUFFICES ASSUME XInv, [Next]_vars PROVE StaleIsFree'
  OBVIOUS
<1> USE OutboxAssumption DEF XInv, InProcessOnly, TypeOK, Busy, Job, row, history, holds, 
           OneJobPerEvent, OneHolder, StaleIsFree, Workers, reclaimable
<1>1. ASSUME NEW w \in Workers, Tick(w) PROVE StaleIsFree'
  BY <1>1 DEF Tick
<1>2. ASSUME NEW w \in Workers, Claim(w) PROVE StaleIsFree'
  <2>1. PICK S \in SUBSET claimable(w) :
          /\ status' = [e \in Events |-> IF e \in S THEN "processing" ELSE status[e]]
          /\ stale' = [e \in Events |-> stale[e] /\ e \notin S]
          /\ batch' = [batch EXCEPT ![w] =
                         {[event |-> e, attempts |-> attempts[e]] : e \in S}]
    BY <1>2 DEF Claim
  <2>2. UNCHANGED overrun
    BY <1>2 DEF Claim
  <2> SUFFICES ASSUME NEW e \in Events \ overrun, stale'[e], status'[e] = "processing",
                      NEW v \in Workers, NEW j \in batch'[v], j.event = e
               PROVE  FALSE
    BY <2>2
  <2>3. e \notin S /\ stale[e] /\ status[e] = "processing"
    BY <2>1
  <2>4. v # w
    BY <2>1, <2>3
  <2> QED
    BY <2>1, <2>3, <2>4
<1>3. ASSUME NEW w \in Workers, EndBatch(w) PROVE StaleIsFree'
  BY <1>3 DEF EndBatch
<1>4. ASSUME NEW w \in Workers, Dispatch(w) PROVE StaleIsFree'
  BY <1>4 DEF Dispatch
<1>5. ASSUME NEW w \in Workers, DeadLetterUnhandled(w) PROVE StaleIsFree'
  BY <1>5 DEF DeadLetterUnhandled, Update, Release
<1>6. ASSUME NEW w \in Workers, HandlerReturns(w) PROVE StaleIsFree'
  BY <1>6 DEF HandlerReturns, Accept
<1>7. ASSUME NEW w \in Workers, HandlerThrows(w) PROVE StaleIsFree'
  BY <1>7 DEF HandlerThrows, MaybeAcceptUnrecorded, Accept
<1>8. ASSUME NEW w \in Workers, MarkDone(w) PROVE StaleIsFree'
  BY <1>8 DEF MarkDone, Update, Release
<1>9. ASSUME NEW w \in Workers, MarkDoneFails(w) PROVE StaleIsFree'
  BY <1>9 DEF MarkDoneFails
<1>10. ASSUME NEW w \in Workers, MarkRetry(w) PROVE StaleIsFree'
  BY <1>10 DEF MarkRetry, Update, Release
<1>11. ASSUME NEW w \in Workers, MarkDead(w) PROVE StaleIsFree'
  BY <1>11 DEF MarkDead, Update, Release
<1>12. ASSUME NEW w \in Workers, Abandon(w) PROVE StaleIsFree'
  BY <1>12 DEF Abandon, MaybeAcceptUnrecorded, Accept
<1>13. ASSUME NEW e \in Events, Enqueue(e) PROVE StaleIsFree'
  BY <1>13 DEF Enqueue, Update
<1>14. ASSUME NEW e \in Events, RetrySync(e) PROVE StaleIsFree'
  BY <1>14 DEF RetrySync, Update
<1>15. ASSUME NEW e \in Events, TimePasses(e) PROVE StaleIsFree'
  BY <1>15 DEF TimePasses, BackoffElapses, GoesStale
<1>16. ASSUME NEW e \in Events, Overruns(e) PROVE StaleIsFree'
  BY <1>16 DEF Overruns
<1>17. CASE UNCHANGED vars
  BY <1>17 DEF vars
<1> QED
  BY <1>1, <1>2, <1>3, <1>4, <1>5, <1>6, <1>7, <1>8, <1>9, <1>10, <1>11, <1>12,
     <1>13, <1>14, <1>15, <1>16, <1>17 DEF Next, Work

(* A second acceptance needs a second holder, or an attempt not recorded. *)
LEMMA NextAcceptedOnce ==
    XInv /\ [Next]_vars => AcceptedOnce'
<1> SUFFICES ASSUME XInv, [Next]_vars PROVE AcceptedOnce'
  OBVIOUS
<1> USE OutboxAssumption DEF XInv, InProcessOnly, TypeOK, Busy, Job, row, history, holds, 
           OneJobPerEvent, OneHolder, AcceptedOnce, Workers, reclaimable
<1>1. ASSUME NEW w \in Workers, Tick(w) PROVE AcceptedOnce'
  BY <1>1 DEF Tick
<1>2. ASSUME NEW w \in Workers, Claim(w) PROVE AcceptedOnce'
  BY <1>2 DEF Claim, claimable
<1>3. ASSUME NEW w \in Workers, EndBatch(w) PROVE AcceptedOnce'
  BY <1>3 DEF EndBatch
<1>4. ASSUME NEW w \in Workers, Dispatch(w) PROVE AcceptedOnce'
  BY <1>4 DEF Dispatch
<1>5. ASSUME NEW w \in Workers, DeadLetterUnhandled(w) PROVE AcceptedOnce'
  BY <1>5 DEF DeadLetterUnhandled, Update, Release
<1>6. ASSUME NEW w \in Workers, HandlerReturns(w) PROVE AcceptedOnce'
  BY <1>6 DEF HandlerReturns, Accept
<1>7. ASSUME NEW w \in Workers, HandlerThrows(w) PROVE AcceptedOnce'
  BY <1>7 DEF HandlerThrows, MaybeAcceptUnrecorded, Accept
<1>8. ASSUME NEW w \in Workers, MarkDone(w) PROVE AcceptedOnce'
  BY <1>8 DEF MarkDone, Update, Release
<1>9. ASSUME NEW w \in Workers, MarkDoneFails(w) PROVE AcceptedOnce'
  BY <1>9 DEF MarkDoneFails
<1>10. ASSUME NEW w \in Workers, MarkRetry(w) PROVE AcceptedOnce'
  BY <1>10 DEF MarkRetry, Update, Release
<1>11. ASSUME NEW w \in Workers, MarkDead(w) PROVE AcceptedOnce'
  BY <1>11 DEF MarkDead, Update, Release
<1>12. ASSUME NEW w \in Workers, Abandon(w) PROVE AcceptedOnce'
  BY <1>12 DEF Abandon, MaybeAcceptUnrecorded, Accept
<1>13. ASSUME NEW e \in Events, Enqueue(e) PROVE AcceptedOnce'
  BY <1>13 DEF Enqueue, Update
<1>14. ASSUME NEW e \in Events, RetrySync(e) PROVE AcceptedOnce'
  BY <1>14 DEF RetrySync, Update
<1>15. ASSUME NEW e \in Events, TimePasses(e) PROVE AcceptedOnce'
  BY <1>15 DEF TimePasses, BackoffElapses, GoesStale
<1>16. ASSUME NEW e \in Events, Overruns(e) PROVE AcceptedOnce'
  BY <1>16 DEF Overruns
<1>17. CASE UNCHANGED vars
  BY <1>17 DEF vars
<1> QED
  BY <1>1, <1>2, <1>3, <1>4, <1>5, <1>6, <1>7, <1>8, <1>9, <1>10, <1>11, <1>12,
     <1>13, <1>14, <1>15, <1>16, <1>17 DEF Next, Work

(* No worker program is started or stopped for good. *)
LEMMA NextRunning == [Next]_vars => running' = running
<1> SUFFICES ASSUME [Next]_vars PROVE running' = running
  OBVIOUS
<1>1. ASSUME NEW w \in Workers, Work(w) \/ MarkDoneFails(w) \/ Abandon(w)
      PROVE  running' = running
  BY <1>1 DEF Work, Tick, Claim, EndBatch, Dispatch, DeadLetterUnhandled, HandlerReturns,
     HandlerThrows, MarkDone, MarkDoneFails, MarkRetry, MarkDead, Abandon
<1>2. ASSUME NEW e \in Events, Enqueue(e) \/ RetrySync(e) \/ TimePasses(e) \/ Overruns(e)
      PROVE  running' = running
  BY <1>2 DEF Enqueue, RetrySync, TimePasses, BackoffElapses, GoesStale, Overruns
<1>3. CASE UNCHANGED vars
  BY <1>3 DEF vars
<1> QED
  BY <1>1, <1>2, <1>3 DEF Next

(* XInv is inductive. *)
LEMMA NextXInv == XInv /\ [Next]_vars => XInv'
<1>1. XInv => TypeOK /\ InProcessOnly
  BY DEF XInv
<1>2. InProcessOnly /\ [Next]_vars => InProcessOnly'
  BY NextRunning DEF InProcessOnly
<1> QED
  BY <1>1, <1>2, NextTypeOK, NextOneJobPerEvent, NextOneHolder, NextStaleIsFree,
     NextAcceptedOnce DEF XInv

(* Where API instances alone are deployed it is invariant; elsewhere the     *)
(* deployment never becomes one of these.                                    *)
LEMMA XInvariance == Spec => []XInv \/ []~InProcessOnly
<1>1. ~InProcessOnly /\ [Next]_vars => (~InProcessOnly)'
  BY NextRunning DEF InProcessOnly
<1> QED
  BY InitXInv, NextXInv, <1>1, PTL DEF Spec

(* Exclusive: among API instances an event that did not outlive the     *)
(* five minutes has one holder, and its row says so.                         *)
THEOREM Exclusive == Spec => []OneHolder
<1>1. XInv \/ ~InProcessOnly => OneHolder
  BY DEF XInv, OneHolder
<1> QED
  BY <1>1, XInvariance, PTL

(* NoCauselessRedelivery: among API instances an integration sees an    *)
(* event twice only after an attempt that could not be recorded, or an       *)
(* overrun.                                                                  *)
THEOREM NoCauselessRedelivery == Spec => []RedeliveryHasCause
<1>1. XInv \/ ~InProcessOnly => RedeliveryHasCause
  BY DEF XInv, AcceptedOnce, RedeliveryHasCause, TypeOK
<1> QED
  BY <1>1, XInvariance, PTL

(* What DoneStays asks of one step. *)
DoneStep ==
    InProcessOnly => \A e \in Events \ overrun :
        status[e] = "done" => status'[e] = "done"

(* DoneForGood: among API instances nothing re-opens an event that is   *)
(* done.                                                                     *)
THEOREM DoneForGood == Spec => DoneStays
<1>0. ~InProcessOnly => DoneStep
  BY DEF DoneStep
<1>1. XInv /\ [Next]_vars => [DoneStep]_vars
  <2> SUFFICES ASSUME XInv, [Next]_vars, ~UNCHANGED vars PROVE DoneStep
    OBVIOUS
  <2> USE DEF XInv, InProcessOnly, TypeOK, Busy, Job, row, history, holds, OneHolder, Workers,
              reclaimable, DoneStep
  <2>1. ASSUME NEW w \in Workers, Tick(w) PROVE DoneStep
    BY <2>1 DEF Tick
  <2>2. ASSUME NEW w \in Workers, Claim(w) PROVE DoneStep
    BY <2>2 DEF Claim, claimable
  <2>3. ASSUME NEW w \in Workers, EndBatch(w) PROVE DoneStep
    BY <2>3 DEF EndBatch
  <2>4. ASSUME NEW w \in Workers, Dispatch(w) PROVE DoneStep
    BY <2>4 DEF Dispatch
  <2>5. ASSUME NEW w \in Workers, DeadLetterUnhandled(w) PROVE DoneStep
    BY <2>5 DEF DeadLetterUnhandled, Update, Release
  <2>6. ASSUME NEW w \in Workers, HandlerReturns(w) PROVE DoneStep
    BY <2>6 DEF HandlerReturns, Accept
  <2>7. ASSUME NEW w \in Workers, HandlerThrows(w) PROVE DoneStep
    BY <2>7 DEF HandlerThrows, MaybeAcceptUnrecorded, Accept
  <2>8. ASSUME NEW w \in Workers, MarkDone(w) PROVE DoneStep
    BY <2>8 DEF MarkDone, Update, Release
  <2>9. ASSUME NEW w \in Workers, MarkDoneFails(w) PROVE DoneStep
    BY <2>9 DEF MarkDoneFails
  <2>10. ASSUME NEW w \in Workers, MarkRetry(w) PROVE DoneStep
    BY <2>10 DEF MarkRetry, Update, Release
  <2>11. ASSUME NEW w \in Workers, MarkDead(w) PROVE DoneStep
    BY <2>11 DEF MarkDead, Update, Release
  <2>12. ASSUME NEW w \in Workers, Abandon(w) PROVE DoneStep
    BY <2>12 DEF Abandon, MaybeAcceptUnrecorded, Accept
  <2>13. ASSUME NEW e \in Events, Enqueue(e) PROVE DoneStep
    BY <2>13 DEF Enqueue, Update
  <2>14. ASSUME NEW e \in Events, RetrySync(e) PROVE DoneStep
    BY <2>14 DEF RetrySync, Update
  <2>15. ASSUME NEW e \in Events, TimePasses(e) PROVE DoneStep
    BY <2>15 DEF TimePasses, BackoffElapses, GoesStale
  <2>16. ASSUME NEW e \in Events, Overruns(e) PROVE DoneStep
    BY <2>16 DEF Overruns
  <2> QED
    BY <2>1, <2>2, <2>3, <2>4, <2>5, <2>6, <2>7, <2>8, <2>9, <2>10, <2>11, <2>12,
       <2>13, <2>14, <2>15, <2>16 DEF Next, Work
<1>2. DoneStays <=> [][DoneStep]_vars
  BY DEF DoneStays, DoneStep
<1> QED
  BY <1>0, <1>1, <1>2, XInvariance, PTL DEF Spec
=============================================================================
