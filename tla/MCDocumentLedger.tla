-------------------------- MODULE MCDocumentLedger --------------------------
(* The instance TLC checks: three concurrent transactions of one tenant. *)
EXTENDS DocumentLedger

CONSTANTS t1, t2, t3, i1, i2

MCTx == {t1, t2, t3}
MCSeries == {"work_order", "invoice"}
MCIds == {i1, i2}
=============================================================================
