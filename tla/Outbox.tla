------------------------------- MODULE Outbox -------------------------------
(***************************************************************************)
(* The transactional outbox: app.outbox rows, the business transactions     *)
(* that enqueue them, and the worker processes that drain them.             *)
(*                                                                          *)
(* Two programs drain the same table.  InProcess workers are the Nest       *)
(* service OutboxWorkerService, one per API instance with OUTBOX_POLL_MS>0; *)
(* Standalone workers run workers/outbox.worker.ts ("pnpm worker").  Each   *)
(* claims a batch in a transaction of its own, calls the handler of each    *)
(* event outside any transaction, and writes the result in another one.     *)
(*                                                                          *)
(* Time is two facts about a row: due (next_attempt_at has come) and stale  *)
(* (updated_at is more than five minutes old).                              *)
(***************************************************************************)
EXTENDS Naturals, FiniteSets

CONSTANTS Events,             \* idempotency keys of one tenant
          InProcess,          \* workers of common/outbox/outbox.worker.ts
          Standalone,         \* workers of workers/outbox.worker.ts
          Deployments,        \* which of them run together
          HandledInProcess,   \* events whose type has a handler there
          HandledStandalone,
          Resyncable,         \* minimax.* and einvoice.* events of an invoice
          MaxAttempts,        \* OUTBOX_MAX_ATTEMPTS
          BatchLimit,         \* LIMIT of a claim
          MaxFaults,          \* bound: worker stops, failed updates, overruns
          MaxResyncs,         \* bound: clicks on "retry sync"
          NoJob

Workers == InProcess \cup Standalone
Job == [event : Events, attempts : Nat]   \* a row as RETURNING gave it

ASSUME OutboxAssumption ==
    /\ InProcess \cap Standalone = {}
    /\ Deployments \subseteq SUBSET Workers
    /\ MaxAttempts \in Nat \ {0}
    /\ BatchLimit \in Nat \ {0}
    /\ MaxFaults \in Nat
    /\ MaxResyncs \in Nat
    /\ NoJob \notin Job

VARIABLES status,     \* app.outbox.status, or "none" before the insert
          attempts,   \* app.outbox.attempts
          due,        \* next_attempt_at <= now()
          stale,      \* updated_at < now() - interval '5 minutes'
          pc,         \* what each worker does next
          batch,      \* the claimed jobs it has not finished with
          job,        \* the one it is working on
          delivered,  \* history: how often the integration accepted an event
          failures,   \* history: attempts that ended in the catch block
          unrecorded, \* history: accepted by an attempt that did not end in done
          overrun,    \* history: went stale while its worker was still alive
          faults, resyncs,
          running     \* which worker processes are deployed; it does not change

row == <<status, attempts, due, stale>>
history == <<delivered, failures, unrecorded, overrun>>
vars == <<row, pc, batch, job, history, faults, resyncs, running>>

-----------------------------------------------------------------------------
hasHandler(w, e) == IF w \in InProcess THEN e \in HandledInProcess
                                       ELSE e \in HandledStandalone

holds(w, e) == \E j \in batch[w] : j.event = e

(* Mutant: the in-process claim takes rows in processing, as the other does. *)
claimableAnyStatus(w) == {e \in Events : status[e] \in {"pending", "processing"} /\ due[e]}

(* The WHERE clause of the claim: the standalone one has no reclaim of stale *)
(* rows and takes whatever is in processing as well.                         *)
claimable(w) ==
    {e \in Events : /\ due[e]
                    /\ status[e] \in IF w \in InProcess THEN {"pending"}
                                                       ELSE {"pending", "processing"}}

(* Mutant: the last attempt is not made. *)
exhaustedEarly(w) == job[w].attempts + 2 >= MaxAttempts
exhausted(w) == job[w].attempts + 1 >= MaxAttempts

(* Mutants: the reaper does not look at the age of a row; it never runs. *)
reclaimableAtAnyAge == {e \in Events : status[e] = "processing"}
reclaimableNever == {}
reclaimable == {e \in Events : status[e] = "processing" /\ stale[e]}

(* One row's UPDATE; the touch trigger makes it fresh. *)
Update(e, s, a, d) ==
    /\ status' = [status EXCEPT ![e] = s]
    /\ attempts' = [attempts EXCEPT ![e] = a]
    /\ due' = [due EXCEPT ![e] = d]
    /\ stale' = [stale EXCEPT ![e] = FALSE]

(* The worker is through with its job and turns to the rest of its batch. *)
Release(w, j) ==
    /\ batch' = [batch EXCEPT ![w] = @ \ {j}]
    /\ job' = [job EXCEPT ![w] = NoJob]
    /\ pc' = [pc EXCEPT ![w] = "dispatch"]

Accept(e) == delivered' = [delivered EXCEPT ![e] = IF @ < 2 THEN @ + 1 ELSE 2]

(* The integration accepted e, and the attempt ends without saying so; or it *)
(* had not accepted it.                                                      *)
MaybeAcceptUnrecorded(e) ==
    \/ Accept(e) /\ unrecorded' = unrecorded \cup {e}
    \/ UNCHANGED <<delivered, unrecorded>>

-----------------------------------------------------------------------------
Init ==
    /\ status = [e \in Events |-> "none"]
    /\ attempts = [e \in Events |-> 0]
    /\ due = [e \in Events |-> FALSE]
    /\ stale = [e \in Events |-> FALSE]
    /\ pc = [w \in Workers |-> "idle"]
    /\ batch = [w \in Workers |-> {}]
    /\ job = [w \in Workers |-> NoJob]
    /\ delivered = [e \in Events |-> 0]
    /\ failures = [e \in Events |-> 0]
    /\ unrecorded = {}
    /\ overrun = {}
    /\ faults = 0
    /\ resyncs = 0
    /\ running \in Deployments

(* Mutant: ON CONFLICT DO UPDATE SET status = 'pending'. *)
EnqueueAgain(e) ==
    /\ Update(e, "pending", attempts[e], TRUE)
    /\ UNCHANGED <<pc, batch, job, history, faults, resyncs, running>>

(* A business transaction commits with the event in it; a second enqueue of  *)
(* the same idempotency key does nothing (ON CONFLICT DO NOTHING).           *)
Enqueue(e) ==
    /\ status[e] = "none"
    /\ Update(e, "pending", 0, TRUE)
    /\ UNCHANGED <<pc, batch, job, history, faults, resyncs, running>>

(* A poll: the in-process worker first returns stale rows to the queue. *)
Tick(w) ==
    /\ w \in running
    /\ pc[w] = "idle"
    /\ pc' = [pc EXCEPT ![w] = "claim"]
    /\ LET R == IF w \in InProcess THEN reclaimable ELSE {}
       IN  /\ status' = [e \in Events |-> IF e \in R THEN "pending" ELSE status[e]]
           /\ due' = [e \in Events |-> e \in R \/ due[e]]
           /\ stale' = [e \in Events |-> stale[e] /\ e \notin R]
    /\ UNCHANGED <<attempts, batch, job, history, faults, resyncs, running>>

(* UPDATE ... WHERE id IN (SELECT ... FOR UPDATE SKIP LOCKED LIMIT n): the   *)
(* rows leave with the attempts they had.  An empty batch ends the tick.     *)
Claim(w) ==
    /\ pc[w] = "claim"
    /\ \E S \in SUBSET claimable(w) :
          /\ \/ Cardinality(S) = BatchLimit
             \/ S = claimable(w) /\ Cardinality(S) < BatchLimit
          /\ status' = [e \in Events |-> IF e \in S THEN "processing" ELSE status[e]]
          /\ stale' = [e \in Events |-> stale[e] /\ e \notin S]
          /\ batch' = [batch EXCEPT ![w] = {[event |-> e, attempts |-> attempts[e]] : e \in S}]
          /\ pc' = [pc EXCEPT ![w] = IF S = {} THEN "idle" ELSE "dispatch"]
    /\ UNCHANGED <<attempts, due, job, history, faults, resyncs, running>>

(* The batch is done: another round, or the last of the tick's ten. *)
EndBatch(w) ==
    /\ pc[w] = "dispatch"
    /\ batch[w] = {}
    /\ \E next \in {"claim", "idle"} : pc' = [pc EXCEPT ![w] = next]
    /\ UNCHANGED <<row, batch, job, history, faults, resyncs, running>>

Dispatch(w) ==
    /\ pc[w] = "dispatch"
    /\ \E j \in batch[w] : hasHandler(w, j.event) /\ job' = [job EXCEPT ![w] = j]
    /\ pc' = [pc EXCEPT ![w] = "handle"]
    /\ UNCHANGED <<row, batch, history, faults, resyncs, running>>

(* No handler for the event's type: dead at once, attempts as they were. *)
DeadLetterUnhandled(w) ==
    /\ pc[w] = "dispatch"
    /\ \E j \in batch[w] :
          /\ ~hasHandler(w, j.event)
          /\ Update(j.event, "dead", attempts[j.event], due[j.event])
          /\ Release(w, j)
    /\ UNCHANGED <<history, faults, resyncs, running>>

(* Mutant: a handler that swallows its error. *)
HandlerSwallows(w) ==
    /\ pc[w] = "handle"
    /\ pc' = [pc EXCEPT ![w] = "mark"]
    /\ UNCHANGED <<row, batch, job, history, faults, resyncs, running>>

HandlerReturns(w) ==
    /\ pc[w] = "handle"
    /\ Accept(job[w].event)
    /\ pc' = [pc EXCEPT ![w] = "mark"]
    /\ UNCHANGED <<row, batch, job, failures, unrecorded, overrun, faults, resyncs, running>>

(* The handler throws, before or after the integration took the event.  Only *)
(* the standalone worker asks whether the error is permanent.                *)
HandlerThrows(w) ==
    /\ pc[w] = "handle"
    /\ MaybeAcceptUnrecorded(job[w].event)
    /\ failures' = [failures EXCEPT ![job[w].event] = @ + 1]
    /\ \/ pc' = [pc EXCEPT ![w] = "failed"]
       \/ w \in Standalone /\ pc' = [pc EXCEPT ![w] = "rejected"]
    /\ UNCHANGED <<row, batch, job, overrun, faults, resyncs, running>>

MarkDone(w) ==
    /\ pc[w] = "mark"
    /\ Update(job[w].event, "done", attempts[job[w].event], due[job[w].event])
    /\ Release(w, job[w])
    /\ UNCHANGED <<history, faults, resyncs, running>>

(* markDone sits in the try block: its database error counts as a failure    *)
(* of the event.                                                             *)
MarkDoneFails(w) ==
    /\ pc[w] = "mark"
    /\ faults < MaxFaults
    /\ faults' = faults + 1
    /\ pc' = [pc EXCEPT ![w] = "failed"]
    /\ failures' = [failures EXCEPT ![job[w].event] = @ + 1]
    /\ unrecorded' = unrecorded \cup {job[w].event}
    /\ UNCHANGED <<row, batch, job, delivered, overrun, resyncs, running>>

(* The catch block, an attempt left: back to the queue, due later. *)
MarkRetry(w) ==
    /\ pc[w] = "failed"
    /\ ~exhausted(w)
    /\ Update(job[w].event, "pending", job[w].attempts + 1, FALSE)
    /\ Release(w, job[w])
    /\ UNCHANGED <<history, faults, resyncs, running>>

(* The catch block, no attempt left or a permanent error.  The standalone    *)
(* worker does not store the last attempt.                                   *)
MarkDead(w) ==
    /\ \/ pc[w] = "rejected"
       \/ pc[w] = "failed" /\ exhausted(w)
    /\ Update(job[w].event, "dead",
              IF w \in InProcess THEN job[w].attempts + 1
                                   ELSE attempts[job[w].event],
              due[job[w].event])
    /\ Release(w, job[w])
    /\ UNCHANGED <<history, faults, resyncs, running>>

(* The process dies and restarts, or a failed UPDATE ends the tick (the      *)
(* drain loop) early: what it had claimed stays in processing.               *)
Abandon(w) ==
    /\ batch[w] # {}
    /\ faults < MaxFaults
    /\ faults' = faults + 1
    /\ batch' = [batch EXCEPT ![w] = {}]
    /\ job' = [job EXCEPT ![w] = NoJob]
    /\ pc' = [pc EXCEPT ![w] = "idle"]
    /\ CASE pc[w] = "handle" -> MaybeAcceptUnrecorded(job[w].event)
         [] pc[w] = "mark" -> unrecorded' = unrecorded \cup {job[w].event} /\ UNCHANGED delivered
         [] OTHER -> UNCHANGED <<delivered, unrecorded>>
    /\ UNCHANGED <<row, failures, overrun, resyncs, running>>

(* The user's "retry sync" of an invoice. *)
RetrySync(e) ==
    /\ e \in Resyncable
    /\ status[e] = "dead"
    /\ resyncs < MaxResyncs
    /\ resyncs' = resyncs + 1
    /\ Update(e, "pending", attempts[e], TRUE)
    /\ UNCHANGED <<pc, batch, job, history, faults, running>>

(* next_attempt_at comes. *)
BackoffElapses(e) ==
    /\ status[e] = "pending"
    /\ ~due[e]
    /\ due' = [due EXCEPT ![e] = TRUE]
    /\ UNCHANGED <<status, attempts, stale, pc, batch, job, history, faults, resyncs, running>>

(* Five minutes after a claim nobody works on the event. *)
GoesStale(e) ==
    /\ status[e] = "processing"
    /\ ~stale[e]
    /\ \A w \in Workers : ~holds(w, e)
    /\ stale' = [stale EXCEPT ![e] = TRUE]
    /\ UNCHANGED <<status, attempts, due, pc, batch, job, history, faults, resyncs, running>>

(* Five minutes after a claim its worker is still at it: no handler has a    *)
(* timeout, and the events of a batch are handled one after the other.       *)
Overruns(e) ==
    /\ status[e] = "processing"
    /\ ~stale[e]
    /\ \E w \in Workers : holds(w, e)
    /\ faults < MaxFaults
    /\ faults' = faults + 1
    /\ stale' = [stale EXCEPT ![e] = TRUE]
    /\ overrun' = overrun \cup {e}
    /\ UNCHANGED <<status, attempts, due, pc, batch, job, delivered, failures,
                   unrecorded, resyncs, running>>

Work(w) == \/ Tick(w) \/ Claim(w) \/ EndBatch(w) \/ Dispatch(w) \/ DeadLetterUnhandled(w)
           \/ HandlerReturns(w) \/ HandlerThrows(w) \/ MarkDone(w) \/ MarkRetry(w)
           \/ MarkDead(w)

TimePasses(e) == BackoffElapses(e) \/ GoesStale(e)

Next ==
    \/ \E w \in Workers : Work(w) \/ MarkDoneFails(w) \/ Abandon(w)
    \/ \E e \in Events : Enqueue(e) \/ RetrySync(e) \/ TimePasses(e) \/ Overruns(e)

Spec == Init /\ [][Next]_vars

(* The poll loop always reschedules itself, a handler ends in an answer or   *)
(* an error, and the clock runs.                                             *)
FairSpec == /\ Spec
            /\ \A w \in Workers : WF_vars(Work(w))
            /\ \A e \in Events : WF_vars(TimePasses(e))

-----------------------------------------------------------------------------
(* TypeOK: rows and workers have their shape; a worker has a job exactly     *)
(* while it handles an event or records the result, and the job is one of    *)
(* those it claimed.                                                         *)
Busy == {"handle", "mark", "failed", "rejected"}

TypeOK ==
    /\ status \in [Events -> {"none", "pending", "processing", "done", "dead"}]
    /\ attempts \in [Events -> Nat]
    /\ due \in [Events -> BOOLEAN]
    /\ stale \in [Events -> BOOLEAN]
    /\ pc \in [Workers -> {"idle", "claim", "dispatch"} \cup Busy]
    /\ batch \in [Workers -> SUBSET Job]
    /\ job \in [Workers -> Job \cup {NoJob}]
    /\ \A w \in Workers : IF pc[w] \in Busy THEN job[w] \in batch[w] ELSE job[w] = NoJob
    /\ delivered \in [Events -> 0 .. 2]
    /\ failures \in [Events -> Nat]
    /\ unrecorded \subseteq Events
    /\ overrun \subseteq Events
    /\ faults \in 0 .. MaxFaults
    /\ resyncs \in 0 .. MaxResyncs
    /\ running \in Deployments
    /\ \A w \in Workers \ running : pc[w] = "idle" /\ batch[w] = {}

(* The deployment the comments describe: API instances and nothing else.     *)
InProcessOnly == running \subseteq InProcess

(* DoneWasDelivered: a row says done only if its integration accepted the    *)
(* event, whatever crashes, late answers and takeovers happened on the way.  *)
DoneWasDelivered == \A e \in Events : status[e] = "done" => delivered[e] > 0

(* DeadGaveUp: an event is dead-lettered only for want of a handler, or      *)
(* after MaxAttempts attempts that really failed (one, when a standalone     *)
(* worker met a permanent error), though a late worker may write an old      *)
(* count back and a resync leaves the count as it was.                       *)
DeadGaveUp ==
    \A e \in Events : status[e] = "dead" =>
        \/ \E w \in running : ~hasHandler(w, e)
        \/ failures[e] >= MaxAttempts
        \/ ~InProcessOnly /\ failures[e] > 0

(* OneHolder: among API instances, unless an event outlived the five        *)
(* minutes, one worker at most works on it, and its row says processing all  *)
(* the while (outbox.worker.ts, "multi-instance safe").                      *)
OneHolder ==
    InProcessOnly => \A e \in Events \ overrun :
        /\ \A v, w \in Workers : holds(v, e) /\ holds(w, e) => v = w
        /\ \A w \in Workers : holds(w, e) => status[e] = "processing"

(* DoneStays: among API instances what is done is never sent again, by a     *)
(* resync, a repeated enqueue, the reaper or another worker, overruns apart. *)
DoneStays ==
    [][InProcessOnly => \A e \in Events \ overrun :
          status[e] = "done" => status'[e] = "done"]_vars

(* RedeliveryHasCause: among API instances an integration sees an event      *)
(* twice only when an attempt it accepted could not be recorded, or the      *)
(* event overran.                                                            *)
RedeliveryHasCause ==
    InProcessOnly => \A e \in Events : delivered[e] > 1 => e \in unrecorded \cup overrun

(* Settles: a committed event is delivered or dead-lettered in the end,      *)
(* whichever programs drain the table and no matter which workers die        *)
(* holding it.                                                               *)
Settles == \A e \in Events : status[e] = "pending" ~> status[e] \in {"done", "dead"}
=============================================================================
