--------------------------- MODULE MCPairCeremony ---------------------------
(* Small instances of PairCeremony: guest commands g1 and g2. *)
EXTENDS PairCeremony, TLC

CONSTANTS g1, g2, a, b

\* Two devices are given the same code.
TwoDevices == g1 :> a @@ g2 :> b
=============================================================================
