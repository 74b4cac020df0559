------------------------------ MODULE MCCarrier ------------------------------
(* Small instances of Carrier. *)
EXTENDS Carrier, TLC

CONSTANTS s1, s2, s3, r1, r2

AnyOrder == Permutations({s1, s2}) \cup Permutations({r1, r2})
=============================================================================
