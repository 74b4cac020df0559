----------------------------- MODULE MCJoinGate -----------------------------
(* A small instance of JoinGate: which device opens which session. *)
EXTENDS JoinGate, TLC

CONSTANTS s1, s2, a

\* One device that runs `mymesh link` twice.
WhoRetries == s1 :> a @@ s2 :> a
=============================================================================
