--------------------------- MODULE MCReceivables ---------------------------
(* Small instances of Receivables. *)
EXTENDS Receivables, TLC

CONSTANTS p1, p2

MCGross == <<2, 2>>
\* one payment that runs over into the second invoice, one that does not
MCAmount == (p1 :> 3) @@ (p2 :> 2)
=============================================================================
