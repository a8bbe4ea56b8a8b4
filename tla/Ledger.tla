------------------------------- MODULE Ledger -------------------------------
(***************************************************************************)
(* What the numbering and audit services promise together, with no         *)
(* database in sight: every document of a series gets the next number of   *)
(* that series, every business write adds one link to the audit chain, and *)
(* both happen in one indivisible step.                                    *)
(*                                                                         *)
(* DocumentLedger is shown to implement this specification.                *)
(***************************************************************************)
EXTENDS Naturals, Sequences

CONSTANTS Tx,      \* business transactions, each of which takes effect at most once
          Series,  \* numbering series: a document type in a calendar year
          Ids      \* document identifiers

VARIABLES issued,  \* issued[s]: the documents of series s in number order
          chain    \* the audited transactions, oldest first

ledgerVars == <<issued, chain>>

LedgerInit ==
    /\ issued = [s \in Series |-> <<>>]
    /\ chain = <<>>

Fresh(t) == \A k \in DOMAIN chain : chain[k] # t

(* A document is issued: the next number of its series and its audit entry. *)
Issue(t, s, i) ==
    /\ Fresh(t)
    /\ \A r \in Series : \A k \in DOMAIN issued[r] : issued[r][k] # i
    /\ issued' = [issued EXCEPT ![s] = Append(@, i)]
    /\ chain' = Append(chain, t)

(* A write that numbers nothing (a transition, a payment) is only audited. *)
Record(t) ==
    /\ Fresh(t)
    /\ chain' = Append(chain, t)
    /\ UNCHANGED issued

LedgerNext ==
    \E t \in Tx : Record(t) \/ \E s \in Series, i \in Ids : Issue(t, s, i)

LedgerSpec == LedgerInit /\ [][LedgerNext]_ledgerVars
=============================================================================
