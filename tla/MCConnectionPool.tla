-------------------------- MODULE MCConnectionPool --------------------------
(* A small instance of ConnectionPool. *)
EXTENDS ConnectionPool

CONSTANTS r1, r2, r3, r4
=============================================================================
