---------------------------- MODULE MCChangeFeed ----------------------------
(* A small instance of ChangeFeed: one order that two mechanics work on, or  *)
(* one mechanic twice, beside another.                                       *)
EXTENDS ChangeFeed

CONSTANTS s1, s2, o1, o2, e1, e2

MCJobOf == [e \in TimeEntries |-> o1]
=============================================================================
