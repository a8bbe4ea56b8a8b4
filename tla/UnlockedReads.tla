--------------------------- MODULE UnlockedReads ---------------------------
(***************************************************************************)
(* The requests of a service that takes no lock on what it reads: a session *)
(* works on one request at a time, and req keeps what it has read so far.    *)
(***************************************************************************)
EXTENDS Naturals

CONSTANTS Sessions,
          MaxRequests, \* bound: requests
          MaxFaults    \* bound: requests that fail

VARIABLES req, \* the request a session works on, with what it has read
          requests, faults

Idle == [op |-> "idle"]
Counted == requests < MaxRequests /\ requests' = requests + 1
Does(s, r) == req' = [req EXCEPT ![s] = r]
End(s) == Does(s, Idle)
=============================================================================
