---------------------------- MODULE OfflineSync ----------------------------
(***************************************************************************)
(* The bay tablet's mutation queue (web/lib/offline-queue.ts) and its        *)
(* replay on the server (modules/sync/sync.service.ts).                      *)
(*                                                                           *)
(* The queue lives in localStorage, shared by the browser's tabs; each tab   *)
(* flushes it in a round trip of its own: it loads the queue, awaits the     *)
(* server, and saves what it had loaded, all of it synced by then.  The      *)
(* server applies the mutations of a request one after the other, each in    *)
(* three transactions: seen before?  the work-order operation, and the       *)
(* record that it was applied.  A request whose client is gone runs on.      *)
(*                                                                           *)
(* The mutations act on one job of one mechanic: its status and whether he   *)
(* is clocked on.  The office acts on the same job.  Names differ from those *)
(* of WorkOrderStock, so that a module can extend both.                      *)
(***************************************************************************)
EXTENDS Naturals, Sequences, FiniteSets, SequencesExt

CONSTANTS Tabs,
          Slots,      \* requests the server works on at a time
          Mutations,
          kind,       \* what each mutation asks for
          NoTab,
          MaxFaults,  \* bound: lost connections, server failures
          MaxOffice   \* bound: things the office does to the job

ASSUME OfflineAssumption ==
    /\ kind \in [Mutations -> {"clock_on", "clock_off", "ready"}]
    /\ NoTab \notin Tabs
    /\ MaxFaults \in Nat
    /\ MaxOffice \in Nat

VARIABLES store,      \* localStorage: the mutations not marked synced
          flushing,   \* tabs awaiting the server
          client,     \* the tab waiting for a request, if it still is
          rest,       \* mutations a request has still to apply
          phase,      \* free, check, dispatch, record, ok or failed
          seen,       \* app.sync_mutations
          status, clocked,  \* the job
          queued,     \* history: mutations in the order they were queued
          applied,    \* history: mutations the work-order service accepted
          effects,    \* history: how often one changed the job
          unrecorded, \* history: effect without record
          raced,      \* history: two requests were at it together
          faults, office

device == <<store, flushing>>
requests == <<client, rest, phase>>
job == <<status, clocked>>
history == <<queued, applied, effects, unrecorded, raced>>
syncVars == <<device, requests, seen, job, history, faults, office>>

-----------------------------------------------------------------------------
(* The work-order service on the job, as far as these mutations go.         *)
refuses(m) == \/ kind[m] = "clock_on" /\ status = "ready"
              \/ kind[m] = "ready" /\ status # "ready" /\ clocked
unchanged(m) == \/ kind[m] = "clock_on" /\ clocked
                \/ kind[m] = "clock_off" /\ ~clocked
                \/ kind[m] = "ready" /\ status = "ready"
perform(m) == /\ status' = IF kind[m] = "ready" THEN "ready" ELSE status
              /\ clocked' = IF kind[m] = "ready" THEN clocked ELSE kind[m] = "clock_on"

freeSlots == {s \in Slots : phase[s] = "free"}
atHand(s, m) == phase[s] \in {"dispatch", "record"} /\ Head(rest[s]) = m

SyncInit ==
    /\ store = <<>>
    /\ flushing = {}
    /\ client = [s \in Slots |-> NoTab]
    /\ rest = [s \in Slots |-> <<>>]
    /\ phase = [s \in Slots |-> "free"]
    /\ seen = {}
    /\ status = "in_progress"
    /\ clocked = FALSE
    /\ queued = <<>>
    /\ applied = {}
    /\ effects = [m \in Mutations |-> 0]
    /\ unrecorded = {}
    /\ raced = {}
    /\ faults = 0
    /\ office = 0

(* load(), then api.sync.replay(pending) *)
Send(t, q) ==
    \E s \in freeSlots :
        /\ flushing' = flushing \cup {t}
        /\ client' = [client EXCEPT ![s] = t]
        /\ rest' = [rest EXCEPT ![s] = q]
        /\ phase' = [phase EXCEPT ![s] = "check"]

(* enqueue: push and save, then flush if nothing of this tab is under way    *)
(* and the tablet is online.                                                 *)
Enqueue(t, m) ==
    /\ m \notin ToSet(queued)
    /\ store' = Append(store, m)
    /\ queued' = Append(queued, m)
    /\ \/ t \notin flushing /\ Send(t, store')
       \/ UNCHANGED <<flushing, requests>>
    /\ UNCHANGED <<seen, job, applied, effects, unrecorded, raced, faults, office>>

(* flush, from the timer or the online event *)
Flush(t) ==
    /\ t \notin flushing
    /\ store # <<>>
    /\ Send(t, store)
    /\ UNCHANGED <<store, seen, job, history, faults, office>>

-----------------------------------------------------------------------------
(* replay: on to the next mutation, or answer *)
Advance(s) == /\ rest' = [rest EXCEPT ![s] = Tail(@)]
              /\ phase' = [phase EXCEPT ![s] = IF Len(rest[s]) = 1 THEN "ok" ELSE "check"]

(* Mutant: the check always says no. *)
CheckNothing(s) ==
    /\ phase[s] = "check"
    /\ phase' = [phase EXCEPT ![s] = "dispatch"]
    /\ UNCHANGED <<device, client, rest, seen, job, history, faults, office>>

(* applyOne, first transaction: an applied mutation is answered at once. *)
Check(s) ==
    LET m == Head(rest[s]) IN
    /\ phase[s] = "check"
    /\ IF m \in seen THEN Advance(s) /\ UNCHANGED raced
       ELSE /\ phase' = [phase EXCEPT ![s] = "dispatch"]
            /\ raced' = IF \E r \in Slots : atHand(r, m) THEN raced \cup {m} ELSE raced
            /\ UNCHANGED rest
    /\ UNCHANGED <<device, client, seen, job, queued, applied, effects, unrecorded, faults, office>>

(* Mutant: a refused mutation is skipped, and the batch goes on. *)
DispatchSkips(s) ==
    LET m == Head(rest[s]) IN
    /\ phase[s] = "dispatch"
    /\ IF refuses(m)
       THEN Advance(s) /\ UNCHANGED <<job, applied, effects>>
       ELSE /\ phase' = [phase EXCEPT ![s] = "record"]
            /\ applied' = applied \cup {m}
            /\ IF unchanged(m) THEN UNCHANGED <<job, effects>>
               ELSE perform(m) /\ effects' = [effects EXCEPT ![m] = @ + 1]
            /\ UNCHANGED rest
    /\ UNCHANGED <<device, client, seen, queued, unrecorded, raced, faults, office>>

(* applyOne, second transaction: the operation itself, in one step (how the  *)
(* operations interleave is WorkOrderStock's subject).  Its error ends the   *)
(* whole request.                                                            *)
Dispatch(s) ==
    LET m == Head(rest[s]) IN
    /\ phase[s] = "dispatch"
    /\ IF refuses(m)
       THEN phase' = [phase EXCEPT ![s] = "failed"] /\ UNCHANGED <<job, applied, effects>>
       ELSE /\ phase' = [phase EXCEPT ![s] = "record"]
            /\ applied' = applied \cup {m}
            /\ IF unchanged(m) THEN UNCHANGED <<job, effects>>
               ELSE perform(m) /\ effects' = [effects EXCEPT ![m] = @ + 1]
    /\ UNCHANGED <<device, client, rest, seen, queued, unrecorded, raced, faults, office>>

(* applyOne, third transaction. *)
Record(s) ==
    /\ phase[s] = "record"
    /\ seen' = seen \cup {Head(rest[s])}
    /\ Advance(s)
    /\ UNCHANGED <<device, client, job, history, faults, office>>

(* A transaction fails, or the process dies. *)
ServerFails(s) ==
    /\ phase[s] \in {"check", "dispatch", "record"}
    /\ faults < MaxFaults
    /\ faults' = faults + 1
    /\ phase' = [phase EXCEPT ![s] = "failed"]
    /\ unrecorded' = IF phase[s] = "record" THEN unrecorded \cup {Head(rest[s])} ELSE unrecorded
    /\ UNCHANGED <<device, client, rest, seen, job, queued, applied, effects, raced, office>>

Free(s) == /\ client' = [client EXCEPT ![s] = NoTab]
           /\ rest' = [rest EXCEPT ![s] = <<>>]
           /\ phase' = [phase EXCEPT ![s] = "free"]

Settle(t) == flushing' = flushing \ {t}

(* The answer arrives.  replay has a result for each mutation it was sent or *)
(* throws, so that all of the queue as it was loaded is marked synced: what   *)
(* is saved has nothing left to send, nor anything others have added since.  *)
Succeed(s) ==
    /\ phase[s] = "ok"
    /\ client[s] # NoTab
    /\ store' = <<>>
    /\ Settle(client[s])
    /\ Free(s)
    /\ UNCHANGED <<seen, job, history, faults, office>>

(* An error arrives: everything stays in the queue. *)
Fail(s) ==
    /\ phase[s] = "failed"
    /\ client[s] # NoTab
    /\ Settle(client[s])
    /\ Free(s)
    /\ UNCHANGED <<store, seen, job, history, faults, office>>

(* The connection breaks, or the tab is reloaded: the request runs on, its   *)
(* answer reaches nobody.                                                    *)
LoseConnection(s) ==
    /\ client[s] # NoTab
    /\ faults < MaxFaults
    /\ faults' = faults + 1
    /\ Settle(client[s])
    /\ client' = [client EXCEPT ![s] = NoTab]
    /\ UNCHANGED <<store, rest, phase, seen, job, history, office>>

(* The answer of a request nobody waits for. *)
Drop(s) ==
    /\ phase[s] \in {"ok", "failed"}
    /\ client[s] = NoTab
    /\ Free(s)
    /\ UNCHANGED <<device, seen, job, history, faults, office>>

(* The office reopens the job, or clocks the mechanic off. *)
Office ==
    /\ office < MaxOffice
    /\ office' = office + 1
    /\ \/ status = "ready" /\ status' = "in_progress" /\ UNCHANGED clocked
       \/ clocked /\ clocked' = FALSE /\ UNCHANGED status
    /\ UNCHANGED <<device, requests, seen, history, faults>>

Serve(s) == Check(s) \/ Dispatch(s) \/ Record(s) \/ Succeed(s) \/ Fail(s) \/ Drop(s)

SyncNext ==
    \/ \E t \in Tabs : Flush(t) \/ \E m \in Mutations : Enqueue(t, m)
    \/ \E s \in Slots : Serve(s) \/ ServerFails(s) \/ LoseConnection(s)
    \/ Office

SyncSpec == SyncInit /\ [][SyncNext]_syncVars

(* The timer fires every fifteen seconds, and the server and the network     *)
(* answer unless they fail.                                                  *)
SyncFairSpec ==
    /\ SyncSpec
    /\ \A t \in Tabs : WF_syncVars(Flush(t))
    /\ \A s \in Slots : WF_syncVars(Serve(s))

-----------------------------------------------------------------------------
(* SyncTypeOK: a request under way has something to apply, and a flushing tab    *)
(* has at most one request.                                                  *)
SyncTypeOK ==
    /\ store \in Seq(Mutations)
    /\ flushing \subseteq Tabs
    /\ client \in [Slots -> Tabs \cup {NoTab}]
    /\ rest \in [Slots -> Seq(Mutations)]
    /\ phase \in [Slots -> {"free", "check", "dispatch", "record", "ok", "failed"}]
    /\ \A s \in Slots : phase[s] \in {"check", "dispatch", "record"} => rest[s] # <<>>
    /\ \A s \in Slots : client[s] # NoTab => client[s] \in flushing
    /\ seen \subseteq Mutations
    /\ status \in {"in_progress", "ready"}
    /\ clocked \in BOOLEAN
    /\ effects \in [Mutations -> Nat]

position(m) == CHOOSE k \in DOMAIN queued : queued[k] = m
before(m, n) == position(m) < position(n)

(* InOrder: a mutation is not applied while an older one still waits in the  *)
(* queue, or is taken for applied and is not ("Mutations are applied in       *)
(* order", replay), over refusals, retries, two tabs and requests that        *)
(* outlive their client.                                                      *)
InOrder ==
    \A n \in applied, m \in ToSet(store) \cup seen : m \notin applied => ~before(m, n)

(* RepeatHasCause: a mutation changes the job twice only if the record of    *)
(* the first time was lost, or two requests carried it at the same time.     *)
RepeatHasCause == \A m \in Mutations : effects[m] > 1 => m \in unrecorded \cup raced

(* Drains: the queue stops only at a refusal: time and again it is empty, or *)
(* the oldest of its mutations that the server has no record of is one the   *)
(* job's state refuses.  What is on record (and is answered at once), and    *)
(* what waits behind, stops nothing.                                         *)
waiting == ToSet(store) \ seen
Drains ==
    []<>(\/ store = <<>>
         \/ \E m \in waiting : refuses(m) /\ \A n \in waiting : ~before(n, m))

(* NeverLost: "every mutation is recorded here first ... and never be lost"   *)
(* (offline-queue.ts): what has left the queue has been applied.             *)
NeverLost == \A m \in ToSet(queued) \ ToSet(store) : m \in applied
=============================================================================
