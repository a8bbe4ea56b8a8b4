--------------------------- MODULE MCOfflineSync ---------------------------
(* Small instances of OfflineSync. *)
EXTENDS OfflineSync, TLC

CONSTANTS on, off, done

MCKind == (on :> "clock_on") @@ (off :> "clock_off") @@ (done :> "ready")
=============================================================================
