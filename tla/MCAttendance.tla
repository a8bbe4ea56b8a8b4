---------------------------- MODULE MCAttendance ----------------------------
(* Small instances of Attendance. *)
EXTENDS Attendance, TLC

CONSTANTS s1, s2, o1, o2
Symmetry == Permutations({s1, s2}) \cup Permutations({o1, o2})
=============================================================================
