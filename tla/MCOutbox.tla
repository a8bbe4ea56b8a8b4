------------------------------ MODULE MCOutbox ------------------------------
(* The instance TLC checks: two API instances, or one standalone worker.    *)
EXTENDS Outbox

CONSTANTS w1, w2, w3, e1, e2

MCInProcess == {w1, w2}
MCStandalone == {w3}
MCDeployments == {{w1, w2}, {w3}}
=============================================================================
