----------------------------- MODULE DeviceMap -----------------------------
(***************************************************************************)
(* What devices.json promises: one map from devices to records, changed by *)
(* one command at a time.                                                  *)
(***************************************************************************)
CONSTANTS Devices, Names, Groups

VARIABLE map

Other == "other"   \* a label that is no name anybody asks for

Record == [trust : {"absent", "trusted", "revoked"}, label : Names \cup {Other},
           aliases : SUBSET Names, groups : SUBSET Groups]
Maps == [Devices -> Record]

Fresh(label) ==
  [trust |-> "trusted", label |-> label, aliases |-> {}, groups |-> {}]
Absent == [Fresh(Other) EXCEPT !.trust = "absent"]
Nobody == [d \in Devices |-> Absent]

\* Joins, pairing and the notice of a kick store a new record; gossip ("learn")
\* does unless the device is trusted; a probe ("touch") stores the old one.
Commands ==
  [do : {"join", "learn", "label"}, dev : Devices, name : Names \cup {Other}]
    \cup [do : {"alias", "unalias"}, dev : Devices, name : Names]
    \cup [do : {"group", "ungroup"}, dev : Devices, name : Groups]
    \cup [do : {"revoke", "remove", "touch"}, dev : Devices, name : {Other}]

\* The bug of aliases that are checked against labels only.
Permitted_AnyAlias(c, m) ==
  /\ c.do \in {"join", "learn"} \/ m[c.dev].trust # "absent"
  /\ c.do = "alias" => \A d \in Devices \ {c.dev} : m[d].label # c.name

Permitted(c, m) ==
  /\ c.do \in {"join", "learn"} \/ m[c.dev].trust # "absent"
  /\ c.do = "alias" =>
       \A d \in Devices \ {c.dev} : m[d].label # c.name /\ c.name \notin m[d].aliases

\* The bug of tags put among the names.
Changed_TagsAreNames(c, r) ==
  CASE c.do = "join" -> Fresh(c.name)
    [] c.do = "learn" -> IF r.trust = "trusted" THEN [r EXCEPT !.label = c.name]
                                                ELSE Fresh(c.name)
    [] c.do = "label" -> [r EXCEPT !.label = c.name]
    [] c.do = "alias" -> [r EXCEPT !.aliases = @ \cup {c.name}]
    [] c.do = "unalias" -> [r EXCEPT !.aliases = @ \ {c.name}]
    [] c.do = "group" -> [r EXCEPT !.aliases = @ \cup {c.name}]
    [] c.do = "ungroup" -> [r EXCEPT !.groups = @ \ {c.name}]
    [] c.do = "revoke" -> [r EXCEPT !.trust = "revoked"]
    [] c.do = "remove" -> Absent
    [] c.do = "touch" -> r

Changed(c, r) ==
  CASE c.do = "join" -> Fresh(c.name)
    [] c.do = "learn" -> IF r.trust = "trusted" THEN [r EXCEPT !.label = c.name]
                                                ELSE Fresh(c.name)
    [] c.do = "label" -> [r EXCEPT !.label = c.name]
    [] c.do = "alias" -> [r EXCEPT !.aliases = @ \cup {c.name}]
    [] c.do = "unalias" -> [r EXCEPT !.aliases = @ \ {c.name}]
    [] c.do = "group" -> [r EXCEPT !.groups = @ \cup {c.name}]
    [] c.do = "ungroup" -> [r EXCEPT !.groups = @ \ {c.name}]
    [] c.do = "revoke" -> [r EXCEPT !.trust = "revoked"]
    [] c.do = "remove" -> Absent
    [] c.do = "touch" -> r

Result(c, m) == [m EXCEPT ![c.dev] = Changed(c, @)]

\* resolve_query by exact name; no answer if there are none or several.
Hits(q, m) ==
  {d \in Devices : m[d].trust # "absent" /\ (m[d].label = q \/ q \in m[d].aliases)}
Resolves(q, d, m) == Hits(q, m) = {d}

MapInit == map \in Maps
MapStep == \E c \in Commands : Permitted(c, map) /\ map' = Result(c, map)
MapSpec == MapInit /\ [][MapStep]_map
=============================================================================
