------------------------------- MODULE MeshIp -------------------------------
(* The loopback address 127.64.x.y of a device, from the bytes of its id.   *)
EXTENDS Naturals, Bitwise

\* x and y, for the first six bytes of an id; shifts to the left are products.
MeshIpv4(b) ==
  << (((b[1] ^^ (2 * b[2])) ^^ b[3]) % 254) + 1,
     (((b[4] ^^ (4 * b[5])) ^^ b[6]) % 254) + 1 >>
=============================================================================
