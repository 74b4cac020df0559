---------------------------- MODULE MCMagicPlane ----------------------------
(* Two devices whose addresses are the same, and this one.                  *)
EXTENDS MagicPlane, MeshIp, TLC

CONSTANTS d1, d2, me, n1, app

Bytes == (d1 :> <<7, 9, 0, 200, 0, 31>>) @@ (d2 :> <<0, 9, 7, 31, 0, 200>>)
           @@ (me :> <<255, 255, 1, 3, 255, 2>>)
MCAddress == (d1 :> "<<22, 216>>") @@ (d2 :> "<<22, 216>>") @@ (me :> "<<3, 6>>")

\* x and y do not tell all bytes apart.
ASSUME AddressesMeet == \A d \in {d1, d2, me} : MCAddress[d] = ToString(MeshIpv4(Bytes[d]))
=============================================================================
