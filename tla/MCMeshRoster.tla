---------------------------- MODULE MCMeshRoster ----------------------------
(* Small meshes for TLC: n1, n2, n3 are members, x is an outsider.         *)
EXTENDS MeshRoster, Relation

CONSTANTS n1, n2, n3, x

\* Records after joins: every device trusts those its set names.
Records(links) == [d \in Devices |-> [e \in Devices |->
                    IF e \in links[d] THEN "trusted" ELSE "none"]]

FullMesh == Records([d \in Devices |-> Devices \ {d}])

\* n1 was joined by the other two, which do not know each other yet.
Star == Records([d \in Devices |-> IF d = n1 THEN Devices \ {n1} ELSE {n1}])

\* n1 and n2 trust each other; x still trusts n1, which has unlinked x.
WithOutsider ==
  [d \in Devices |-> [e \in Devices |->
     IF d = n1 /\ e = x THEN "revoked"
     ELSE IF {d, e} = {n1, n2} \/ (d = x /\ e = n1) THEN "trusted" ELSE "none"]]

Reach(init) ==
  LET trust == [p \in Devices \X Devices |-> init[p[1]][p[2]] = "trusted"]
      closed == ReflexiveTransitiveClosure(trust, Devices)
  IN  [d \in Devices |-> {e \in Devices : closed[d, e]}]

CircleFullMesh == Reach(FullMesh)
CircleStar == Reach(Star)
CircleWithOutsider == Reach(WithOutsider)

SameId == [d \in Devices |-> 1]
OwnIds == [d \in Devices |-> CASE d = n1 -> 2 [] d = n2 -> 3 [] OTHER -> 1]

KickN3 == {[cmd |-> "kick", by |-> n1, target |-> n3]}
KickN2 == {[cmd |-> "kick", by |-> n1, target |-> n2]}
KickN2UnlinkN1 == KickN2 \cup {[cmd |-> "unlink", by |-> n2, target |-> n1]}
UnlinkN2 == {[cmd |-> "unlink", by |-> n1, target |-> n2]}
=============================================================================
