--------------------------- MODULE ConnectionPool ---------------------------
(***************************************************************************)
(* The pool of database connections of one API process.  A request takes a  *)
(* connection for its transaction and keeps it to the end.  One that issues *)
(* an invoice holds the tenant's counter and audit rows when it asks for a  *)
(* second connection to write its notification, just before the commit; the *)
(* requests that wait for these rows hold connections too.                  *)
(*                                                                          *)
(* The requests are the transactions of DocumentLedger, seen from the pool.  *)
(* Its names differ from those there, so that a module can extend both.      *)
(***************************************************************************)
EXTENDS Naturals, Sequences, FiniteSets, SequencesExt

CONSTANTS Requests,
          Notifying, \* those that notify before they commit
          PoolMax,   \* dbPoolMax
          MaxFaults  \* bound: statements that fail

ASSUME PoolAssumption ==
    /\ Notifying \subseteq Requests
    /\ PoolMax \in Nat \ {0}
    /\ MaxFaults \in Nat

VARIABLES place,    \* where a request is
          pending,  \* requests waiting for a connection, first come first served
          notified, \* requests whose notification is committed
          refused,  \* history: requests no connection came free for in time
          faulted,  \* history: requests one of whose own statements failed
          faults

poolVars == <<place, pending, notified, refused, faulted, faults>>

(* new, connecting, begun, holding the rows, connecting for the notification, *)
(* notifying, about to commit, done or failed.                                *)
Places == {"new", "connecting", "begun", "locked", "asking", "notifying", "last", "done", "failed"}
Ended == {"done", "failed"}
Held == {"locked", "asking", "notifying", "last"}
(* A notifying request has two connections, one that waits for its first none. *)
holders == {r \in Requests : place[r] \in Held \cup {"begun"}}
notifiers == {r \in Requests : place[r] = "notifying"}
inUse == Cardinality(holders) + Cardinality(notifiers)

PoolInit ==
    /\ place = [r \in Requests |-> "new"]
    /\ pending = <<>>
    /\ notified = {} /\ refused = {} /\ faulted = {}
    /\ faults = 0

Goto(r, p) == place' = [place EXCEPT ![r] = p]

(* pool.connect().                                                           *)
Connect(r) ==
    /\ place[r] = "new"
    /\ Goto(r, "connecting")
    /\ pending' = Append(pending, r)
    /\ UNCHANGED <<notified, refused, faulted, faults>>

Grant ==
    /\ pending # <<>> /\ inUse < PoolMax
    /\ LET r == Head(pending) IN Goto(r, IF place[r] = "connecting" THEN "begun" ELSE "notifying")
    /\ pending' = Tail(pending)
    /\ UNCHANGED <<notified, refused, faulted, faults>>

(* Mutant: the error of the notification is not caught. *)
afterTimeoutThrows(r) == "failed"
afterTimeout(r) == IF place[r] = "connecting" THEN "failed" ELSE "last"

(* Mutant: no connectionTimeoutMillis, the default of the pool. *)
TimeoutNever(r) == FALSE /\ UNCHANGED poolVars
(* connectionTimeoutMillis has passed: the request fails, but a notification *)
(* is only logged.                                                           *)
Timeout(r) ==
    /\ place[r] \in {"connecting", "asking"}
    /\ Goto(r, afterTimeout(r))
    /\ refused' = IF place[r] = "connecting" THEN refused \cup {r} ELSE refused
    /\ \E i \in DOMAIN pending : pending[i] = r /\ pending' = RemoveAt(pending, i)
    /\ UNCHANGED <<notified, faulted, faults>>

(* The counter and audit rows, held to the end of the transaction.           *)
Lock(r) ==
    /\ place[r] = "begun"
    /\ \A q \in Requests : place[q] \notin Held
    /\ Goto(r, "locked")
    /\ UNCHANGED <<pending, notified, refused, faulted, faults>>

(* toRoles asks for a connection of its own.                                 *)
Ask(r) ==
    /\ place[r] = "locked" /\ r \in Notifying
    /\ Goto(r, "asking")
    /\ pending' = Append(pending, r)
    /\ UNCHANGED <<notified, refused, faulted, faults>>

Skip(r) ==
    /\ place[r] = "locked" /\ r \notin Notifying
    /\ Goto(r, "last")
    /\ UNCHANGED <<pending, notified, refused, faulted, faults>>

(* Its own transaction commits, or fails and is logged.                      *)
toRoles(r) ==
    /\ place[r] = "notifying"
    /\ Goto(r, "last")
    /\ notified' = notified \cup {r}
    /\ UNCHANGED <<pending, refused, faulted, faults>>

toRolesFails(r) ==
    /\ place[r] = "notifying"
    /\ faults < MaxFaults
    /\ faults' = faults + 1
    /\ Goto(r, "last")
    /\ UNCHANGED <<pending, notified, refused, faulted>>

CommitAndRelease(r) ==
    /\ place[r] = "last"
    /\ Goto(r, "done")
    /\ UNCHANGED <<pending, notified, refused, faulted, faults>>

(* A statement of the request, or its commit, fails: rollback, release.      *)
RollbackAndRelease(r) ==
    /\ place[r] \in {"begun", "locked", "last"}
    /\ faults < MaxFaults
    /\ faults' = faults + 1
    /\ faulted' = faulted \cup {r}
    /\ Goto(r, "failed")
    /\ UNCHANGED <<pending, notified, refused>>

Run(r) == Lock(r) \/ Ask(r) \/ Skip(r) \/ toRoles(r) \/ CommitAndRelease(r)
PoolNext ==
    \/ Grant
    \/ \E r \in Requests : Connect(r) \/ Timeout(r) \/ Run(r) \/ toRolesFails(r) \/ RollbackAndRelease(r)

PoolSpec == PoolInit /\ [][PoolNext]_poolVars

(* The pool gives out what is free, its timer fires, requests go on.  Locks  *)
(* are granted in the order of asking: nobody is passed over for ever.       *)
PoolFairSpec ==
    /\ PoolSpec
    /\ WF_poolVars(Grant)
    /\ \A r \in Requests : WF_poolVars(Timeout(r)) /\ SF_poolVars(Run(r))

-----------------------------------------------------------------------------
PoolTypeOK ==
    /\ place \in [Requests -> Places]
    /\ ToSet(pending) = {r \in Requests : place[r] \in {"connecting", "asking"}}
    /\ inUse \in 0 .. PoolMax

(* NotifyHarmless: "a notification must not bring down the work" (Notify-    *)
(* Service): a request fails only by a statement of its own or for want of   *)
(* its first connection, and a notification is of a document that is         *)
(* committed or about to be, or whose very commit failed.                    *)
NotifyHarmless ==
    \A r \in Requests :
        /\ place[r] = "failed" => r \in faulted \cup refused
        /\ r \in notified => place[r] \in {"last", "done"} \/ r \in faulted

(* Ends: every request ends, also when all connections are held by requests  *)
(* that wait for a second one or for the rows of one that does ("prevents a  *)
(* silent standstill", dbPoolConnTimeoutMs).                                 *)
Ends == \A r \in Requests : (place[r] = "connecting") ~> (place[r] \in Ended)
=============================================================================
