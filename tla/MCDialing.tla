----------------------------- MODULE MCDialing -----------------------------
(* Two data directories, "me" and "you", on one machine: two agents share a *)
(* path, and "me" has another agent, started without XDG_RUNTIME_DIR.       *)
EXTENDS Dialing, TLC

CONSTANTS a1, a2, a3, c1, c2

MCOf == (a1 :> "me") @@ (a2 :> "you") @@ (a3 :> "me") @@ (c1 :> "me") @@ (c2 :> "me")
MCSocket == [x \in Agents \cup Commands |-> IF x = a3 THEN "tmp" ELSE "run"]
MCOthers ==
  [c \in Commands |-> SelectSeq(<<"run", "tmp">>, LAMBDA p : p # MCSocket[c])]

AnyCommand == Permutations(Commands)
=============================================================================
