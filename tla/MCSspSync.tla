------------------------------ MODULE MCSspSync ------------------------------
(* SspSync on small instances. *)
EXTENDS SspSync

CONSTANTS s1, s2, r1, r2

(* No definition names a row or an SSP: both may be permuted. *)
MCSymmetry == Permutations(Rows) \cup Permutations(Ssps)
=============================================================================
