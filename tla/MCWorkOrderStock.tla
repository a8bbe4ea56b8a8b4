-------------------------- MODULE MCWorkOrderStock --------------------------
(* Small instances of WorkOrderStock. *)
EXTENDS WorkOrderStock, TLC

CONSTANTS w1, w2, l1, l2, l3

MCOrderOf == (l1 :> w1) @@ (l2 :> w1) @@ (l3 :> w2)
MCRowOf == (l1 :> 1) @@ (l3 :> 1)
MCQtyOf == (l1 :> 1) @@ (l3 :> 2)
MCStock == (1 :> 2) @@ (2 :> 0)
=============================================================================
