--------------------------- MODULE MCDeviceStore ---------------------------
(* Small instances of DeviceStore. *)
EXTENDS DeviceStore, TLC

CONSTANTS d1, d2, n, g, p1, p2, i1, i2, i3, i4

AnyOrder ==
  Permutations({d1, d2}) \cup Permutations({p1, p2}) \cup Permutations({i1, i2, i3, i4})
=============================================================================
