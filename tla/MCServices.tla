----------------------------- MODULE MCServices -----------------------------
(* Instances of Services: every command, alone and under every single fault, *)
(* and under each of them where the agent has no roster to send.             *)
EXTENDS Services

MCCommands == Copies \cup Probes \cup {"shell", "tunnel"}
CopyCommands == Copies
SingleFaults == {{}} \cup {{f} : f \in Faults} \cup {{f, "nomesh"} : f \in Faults}
NoFaults == {{}}
=============================================================================
