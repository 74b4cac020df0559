------------------------- MODULE DeviceStoreProofs -------------------------
(***************************************************************************)
(* Proofs about devices.json for every number of devices, names, holders   *)
(* and changes, with crashes and full disks at every step.                 *)
(***************************************************************************)
EXTENDS DeviceStore, TLAPS

\* No alias has two devices, and who has one is there.
Unique(m) ==
  /\ \A d, e \in Devices, a \in Names :
       a \in m[d].aliases /\ a \in m[e].aliases => d = e
  /\ \A d \in Devices : m[d].trust = "absent" => m[d].aliases = {}

Uniques ==
  /\ \A i \in Inodes : Unique(inode[i].map)
  /\ \A p \in Holders : Unique(view[p])

\* Who writes which file.
Files ==
  /\ path = tmp => path = NoFile
  /\ \A p \in Holders : at[p] = "write" <=> fd[p] # NoFile

\* A holder that has been alone all the time.
Alone ==
  ~shared =>
    /\ \A p, q \in Holders : at[p] # "idle" /\ at[q] # "idle" => p = q
    /\ \A p \in Holders : at[p] = "write" => fd[p] = tmp /\ inode[tmp] = Empty
    /\ \A p \in Holders : at[p] = "rename" => tmp # NoFile /\ inode[tmp] = Whole(view[p])
    /\ ~Torn

\* Its copy is the published map, with at most one change.
Latest ==
  ~shared => \A p \in Holders :
    /\ at[p] = "open" => view[p] = Published
    /\ at[p] \in {"changed", "write", "rename"} =>
         \E c \in Map!Commands :
           Map!Permitted(c, Published) /\ view[p] = Map!Result(c, Published)

-----------------------------------------------------------------------------
(* The map.                                                                *)

LEMMA BlankTypes ==
  /\ Map!Absent \in Map!Record
  /\ \A l \in Names \cup {Map!Other} : Map!Fresh(l) \in Map!Record
  /\ Map!Nobody \in Map!Maps
BY DEF Map!Absent, Map!Fresh, Map!Record, Map!Nobody, Map!Maps, Map!Other

LEMMA ChangedType ==
  ASSUME NEW c \in Map!Commands, NEW r \in Map!Record
  PROVE  Map!Changed(c, r) \in Map!Record
<1> USE DEF Map!Changed
<1>1. CASE c \in [do : {"join", "learn", "label"}, dev : Devices, name : Names \cup {Map!Other}]
  <2>1. Map!Fresh(c.name) \in Map!Record BY <1>1, BlankTypes
  <2>2. [r EXCEPT !.label = c.name] \in Map!Record BY <1>1 DEF Map!Record
  <2> QED BY <1>1, <2>1, <2>2
<1>2. CASE c \in [do : {"alias", "unalias"}, dev : Devices, name : Names]
  <2>1. [r EXCEPT !.aliases = @ \cup {c.name}] \in Map!Record BY <1>2 DEF Map!Record
  <2>2. [r EXCEPT !.aliases = @ \ {c.name}] \in Map!Record BY <1>2 DEF Map!Record
  <2> QED BY <1>2, <2>1, <2>2
<1>3. CASE c \in [do : {"group", "ungroup"}, dev : Devices, name : Groups]
  <2>1. [r EXCEPT !.groups = @ \cup {c.name}] \in Map!Record BY <1>3 DEF Map!Record
  <2>2. [r EXCEPT !.groups = @ \ {c.name}] \in Map!Record BY <1>3 DEF Map!Record
  <2> QED BY <1>3, <2>1, <2>2
<1>4. CASE c \in [do : {"revoke", "remove", "touch"}, dev : Devices, name : {Map!Other}]
  <2>1. [r EXCEPT !.trust = "revoked"] \in Map!Record BY DEF Map!Record
  <2> QED BY <1>4, <2>1, BlankTypes
<1> QED BY <1>1, <1>2, <1>3, <1>4 DEF Map!Commands

LEMMA ResultType ==
  ASSUME NEW c \in Map!Commands, NEW m \in Map!Maps
  PROVE  Map!Result(c, m) \in Map!Maps
<1>1. c.dev \in Devices BY DEF Map!Commands
<1>2. Map!Changed(c, m[c.dev]) \in Map!Record BY <1>1, ChangedType DEF Map!Maps
<1> QED BY <1>1, <1>2 DEF Map!Result, Map!Maps

\* What a command does to the aliases of its device.
LEMMA ChangedAliases ==
  ASSUME NEW c \in Map!Commands, NEW r \in Map!Record,
         r.trust = "absent" => r.aliases = {} /\ c.do \in {"join", "learn"}
  PROVE  /\ Map!Changed(c, r).aliases \subseteq r.aliases \cup {c.name}
         /\ c.do # "alias" => Map!Changed(c, r).aliases \subseteq r.aliases
         /\ Map!Changed(c, r).trust = "absent" => Map!Changed(c, r).aliases = {}
BY DEF Map!Changed, Map!Commands, Map!Record, Map!Fresh, Map!Absent, Map!Other

\* A permitted command keeps aliases unique.
LEMMA ResultUnique ==
  ASSUME NEW c \in Map!Commands, NEW m \in Map!Maps, Unique(m), Map!Permitted(c, m)
  PROVE  Unique(Map!Result(c, m))
<1>1. c.dev \in Devices BY DEF Map!Commands
<1>2. m[c.dev] \in Map!Record BY <1>1 DEF Map!Maps
<1>3. m[c.dev].trust = "absent" => m[c.dev].aliases = {} /\ c.do \in {"join", "learn"}
  BY <1>1 DEF Unique, Map!Permitted
<1> DEFINE r == Map!Changed(c, m[c.dev])
<1>4. /\ r.aliases \subseteq m[c.dev].aliases \cup {c.name}
      /\ c.do # "alias" => r.aliases \subseteq m[c.dev].aliases
      /\ r.trust = "absent" => r.aliases = {}
  BY <1>2, <1>3, ChangedAliases
<1>5. c.do = "alias" => \A d \in Devices \ {c.dev} : c.name \notin m[d].aliases
  BY DEF Map!Permitted
<1>6. \A d \in Devices : Map!Result(c, m)[d] = IF d = c.dev THEN r ELSE m[d]
  BY <1>1 DEF Map!Result, Map!Maps
<1> HIDE DEF r
<1> QED BY <1>1, <1>4, <1>5, <1>6 DEF Unique

-----------------------------------------------------------------------------
(* The store: type correctness.                                            *)

LEMMA NobodyPublished == path = NoFile => Published = Map!Nobody
<1>1. Map!Absent = [trust |-> "absent", label |-> "other", aliases |-> {}, groups |-> {}]
  BY DEF Map!Absent, Map!Fresh, Map!Other
<1> QED BY <1>1 DEF Published, Map!Nobody

LEMMA PublishedType == TypeOK => Published \in Map!Maps
<1> SUFFICES ASSUME TypeOK PROVE Published \in Map!Maps OBVIOUS
<1>1. CASE path = NoFile BY <1>1, NobodyPublished, BlankTypes
<1>2. CASE path # NoFile BY <1>2 DEF TypeOK, Published
<1> QED BY <1>1, <1>2

LEMMA FileTypes ==
  ASSUME NEW m \in Map!Maps
  PROVE  {Whole(m), Empty, Cut} \subseteq [text : {"empty", "cut", "whole"}, map : Map!Maps]
BY BlankTypes DEF Whole, Empty, Cut

LEMMA TypeInit == Init => TypeOK
<1> SUFFICES ASSUME Init PROVE TypeOK OBVIOUS
<1> DEFINE Linked(S) == [d \in Devices |-> IF d \in S THEN Map!Fresh(Map!Other) ELSE Map!Absent]
<1>1. \A S \in SUBSET Devices : Linked(S) \in Map!Maps BY BlankTypes DEF Map!Maps
<1>2. PICK S \in SUBSET Devices :
        \/ path = NoFile /\ inode = [i \in Inodes |-> Empty]
        \/ \E i \in Inodes :
             path = i /\ inode = [[j \in Inodes |-> Empty] EXCEPT ![i] = Whole(Linked(S))]
  BY DEF Init
<1> HIDE DEF Linked
<1>3. inode \in [Inodes -> [text : {"empty", "cut", "whole"}, map : Map!Maps]]
      /\ path \in Inodes \cup {NoFile}
  BY <1>1, <1>2, FileTypes, BlankTypes
<1>4. view \in [Holders -> Map!Maps] BY BlankTypes DEF Init
<1>5. /\ at = [p \in Holders |-> "idle"] /\ fd = [p \in Holders |-> NoFile]
      /\ left = MaxChanges /\ tmp = NoFile /\ shared = FALSE
  BY DEF Init
<1>6. /\ at \in [Holders -> {"idle", "open", "changed", "write", "rename"}]
      /\ fd \in [Holders -> Inodes \cup {NoFile}] /\ left \in 0..MaxChanges
      /\ tmp \in Inodes \cup {NoFile} /\ shared \in BOOLEAN
  <2>1. shared \in BOOLEAN BY <1>5
  <2>2. left \in 0..MaxChanges BY <1>5, StoreAssumption
  <2> QED BY <1>5, <2>1, <2>2
<1> QED BY <1>3, <1>4, <1>6 DEF TypeOK

LEMMA TypeStep ==
  TypeOK /\ [Next]_vars => TypeOK'
<1> USE StoreAssumption
<1> SUFFICES ASSUME TypeOK, [Next]_vars
             PROVE  TypeOK'
  OBVIOUS
<1> USE DEF TypeOK, names
<1>1. ASSUME NEW p \in Holders, Open(p) PROVE TypeOK'
  BY <1>1, PublishedType DEF Open, Goes, Crowded
<1>2. ASSUME NEW p \in Holders, Change(p) PROVE TypeOK'
  <2>1. PICK c \in Map!Commands : view' = [view EXCEPT ![p] = Map!Result(c, @)] BY <1>2 DEF Change
  <2>2. Map!Result(c, view[p]) \in Map!Maps BY ResultType
  <2>3. view' \in [Holders -> Map!Maps] BY <2>1, <2>2
  <2> QED BY <1>2, <2>3 DEF Change, Goes
<1>3. ASSUME NEW p \in Holders, Create(p) PROVE TypeOK'
  <2>1. Empty \in [text : {"empty", "cut", "whole"}, map : Map!Maps] BY FileTypes, BlankTypes
  <2> QED BY <1>3, <2>1 DEF Create, Goes
<1>4. ASSUME NEW p \in Holders, Write(p) PROVE TypeOK'
  <2>1. {Whole(view[p]), Cut} \subseteq [text : {"empty", "cut", "whole"}, map : Map!Maps]
    BY FileTypes
  <2>2. PICK c \in {Whole(view[p]), Cut} : inode' = [inode EXCEPT ![fd[p]] = c]
    BY <1>4 DEF Write
  <2>3. inode' \in [Inodes -> [text : {"empty", "cut", "whole"}, map : Map!Maps]]
    BY <2>1, <2>2
  <2>4. at' \in [Holders -> {"idle", "open", "changed", "write", "rename"}]
    BY <1>4 DEF Write, Goes
  <2>5. fd' \in [Holders -> Inodes \cup {NoFile}] BY <1>4 DEF Write
  <2> QED BY <1>4, <2>3, <2>4, <2>5 DEF Write
<1>5. ASSUME NEW p \in Holders, WriteFails(p) PROVE TypeOK'
  <2>1. Cut \in [text : {"empty", "cut", "whole"}, map : Map!Maps] BY FileTypes, BlankTypes
  <2> QED BY <1>5, <2>1 DEF WriteFails, Goes
<1>6. ASSUME NEW p \in Holders, Rename(p) PROVE TypeOK'
  <2>1. Empty \in [text : {"empty", "cut", "whole"}, map : Map!Maps] BY FileTypes, BlankTypes
  <2> QED BY <1>6, <2>1 DEF Rename, Goes, Drops
<1>7. ASSUME NEW p \in Holders, RenameFails(p) PROVE TypeOK'
  BY <1>7 DEF RenameFails, Goes
<1>8. ASSUME NEW p \in Holders, Close(p) PROVE TypeOK'
  BY <1>8 DEF Close, Goes
<1>9. ASSUME NEW p \in Holders, Crash(p) PROVE TypeOK'
  <2>1. Cut \in [text : {"empty", "cut", "whole"}, map : Map!Maps] BY FileTypes, BlankTypes
  <2> QED BY <1>9, <2>1 DEF Crash, Goes
<1>10. CASE UNCHANGED vars BY <1>10 DEF vars
<1> QED BY <1>1, <1>2, <1>3, <1>4, <1>5, <1>6, <1>7, <1>8, <1>9, <1>10 DEF Next

-----------------------------------------------------------------------------
(* Aliases.                                                                *)

LEMMA NobodyUnique == Unique(Map!Nobody)
BY DEF Unique, Map!Nobody, Map!Absent, Map!Fresh

LEMMA PublishedUnique == TypeOK /\ Uniques => Unique(Published)
BY DEF TypeOK, Uniques, Unique, Published

LEMMA UniquesInit == Init => Uniques
<1> SUFFICES ASSUME Init PROVE Uniques OBVIOUS
<1> DEFINE Linked(S) == [d \in Devices |-> IF d \in S THEN Map!Fresh(Map!Other) ELSE Map!Absent]
<1>1. \A i \in Inodes, d \in Devices : inode[i].map[d].aliases = {}
  <2>1. PICK S \in SUBSET Devices :
          \/ inode = [i \in Inodes |-> Empty]
          \/ \E i \in Inodes : inode = [[j \in Inodes |-> Empty] EXCEPT ![i] = Whole(Linked(S))]
    BY DEF Init
  <2>2. \A d \in Devices : Linked(S)[d].aliases = {} BY DEF Map!Absent, Map!Fresh
  <2>3. \A d \in Devices : Map!Nobody[d].aliases = {}
    BY DEF Map!Nobody, Map!Absent, Map!Fresh
  <2> HIDE DEF Linked
  <2>4. Whole(Linked(S)).map = Linked(S) /\ Empty.map = Map!Nobody BY DEF Whole, Empty
  <2> QED BY <2>1, <2>2, <2>3, <2>4
<1>2. \A p \in Holders : Unique(view[p]) BY NobodyUnique DEF Init
<1> QED BY <1>1, <1>2 DEF Uniques, Unique

LEMMA UniquesStep ==
  TypeOK /\ Uniques /\ [Next]_vars => Uniques'
<1> USE NobodyUnique
<1> SUFFICES ASSUME TypeOK /\ Uniques, [Next]_vars
             PROVE  Uniques'
  OBVIOUS
<1> USE DEF TypeOK, Uniques, names
<1>1. ASSUME NEW p \in Holders, Open(p) PROVE Uniques'
  <2>1. Unique(Published) BY PublishedUnique
  <2> QED BY <1>1, <2>1 DEF Open
<1>2. ASSUME NEW p \in Holders, Change(p) PROVE Uniques'
  <2>1. PICK c \in Map!Commands :
          Map!Permitted(c, view[p]) /\ view' = [view EXCEPT ![p] = Map!Result(c, @)]
    BY <1>2 DEF Change
  <2>2. Unique(Map!Result(c, view[p])) BY <2>1, ResultUnique
  <2>3. \A q \in Holders : Unique(view'[q]) BY <2>1, <2>2
  <2> QED BY <1>2, <2>3 DEF Change
<1>3. ASSUME NEW p \in Holders, Create(p) PROVE Uniques'
  BY <1>3 DEF Create, Whole, Empty, Cut
<1>4. ASSUME NEW p \in Holders, Write(p) PROVE Uniques'
  BY <1>4 DEF Write, Whole, Empty, Cut
<1>5. ASSUME NEW p \in Holders, WriteFails(p) PROVE Uniques'
  BY <1>5 DEF WriteFails, Whole, Empty, Cut
<1>6. ASSUME NEW p \in Holders, Rename(p) PROVE Uniques'
  BY <1>6 DEF Rename, Drops, Empty
<1>7. ASSUME NEW p \in Holders, RenameFails(p) PROVE Uniques'
  BY <1>7 DEF RenameFails
<1>8. ASSUME NEW p \in Holders, Close(p) PROVE Uniques'
  BY <1>8 DEF Close
<1>9. ASSUME NEW p \in Holders, Crash(p) PROVE Uniques'
  BY <1>9 DEF Crash, Whole, Empty, Cut
<1>10. CASE UNCHANGED vars BY <1>10 DEF vars
<1> QED BY <1>1, <1>2, <1>3, <1>4, <1>5, <1>6, <1>7, <1>8, <1>9, <1>10 DEF Next

-----------------------------------------------------------------------------
(* One holder alone.                                                       *)

LEMMA FilesStep ==
  TypeOK /\ Files /\ [Next]_vars => Files'
<1> USE StoreAssumption
<1> SUFFICES ASSUME TypeOK /\ Files, [Next]_vars
             PROVE  Files'
  OBVIOUS
<1> USE DEF TypeOK, Files, names
<1>1. ASSUME NEW p \in Holders, Open(p) PROVE Files'
  BY <1>1 DEF Open, Crowded, Goes
<1>2. ASSUME NEW p \in Holders, Change(p) PROVE Files'
  BY <1>2 DEF Change, Goes
<1>3. ASSUME NEW p \in Holders, Create(p) PROVE Files'
  BY <1>3 DEF Create, Goes, Unused
<1>4. ASSUME NEW p \in Holders, Write(p) PROVE Files'
  BY <1>4 DEF Write, Goes
<1>5. ASSUME NEW p \in Holders, WriteFails(p) PROVE Files'
  BY <1>5 DEF WriteFails, Goes
<1>6. ASSUME NEW p \in Holders, Rename(p) PROVE Files'
  BY <1>6 DEF Rename, Goes, Drops
<1>7. ASSUME NEW p \in Holders, RenameFails(p) PROVE Files'
  BY <1>7 DEF RenameFails, Goes
<1>8. ASSUME NEW p \in Holders, Close(p) PROVE Files'
  BY <1>8 DEF Close, Goes
<1>9. ASSUME NEW p \in Holders, Crash(p) PROVE Files'
  BY <1>9 DEF Crash, Goes
<1>10. CASE UNCHANGED vars BY <1>10 DEF vars
<1> QED BY <1>1, <1>2, <1>3, <1>4, <1>5, <1>6, <1>7, <1>8, <1>9, <1>10 DEF Next

LEMMA AloneStep ==
  TypeOK /\ Files /\ Alone /\ [Next]_vars => Alone'
<1> USE StoreAssumption
<1> SUFFICES ASSUME TypeOK /\ Files /\ Alone, [Next]_vars
             PROVE  Alone'
  OBVIOUS
<1> USE DEF TypeOK, Files, Alone, names, Torn, Whole, Empty
<1>1. ASSUME NEW p \in Holders, Open(p) PROVE Alone'
  BY <1>1 DEF Open, Crowded, Goes
<1>2. ASSUME NEW p \in Holders, Change(p) PROVE Alone'
  BY <1>2 DEF Change, Goes
<1>3. ASSUME NEW p \in Holders, Create(p) PROVE Alone'
  BY <1>3 DEF Create, Goes, Unused
<1>4. ASSUME NEW p \in Holders, Write(p) PROVE Alone'
  BY <1>4 DEF Write, Goes
<1>5. ASSUME NEW p \in Holders, WriteFails(p) PROVE Alone'
  BY <1>5 DEF WriteFails, Goes
<1>6. ASSUME NEW p \in Holders, Rename(p) PROVE Alone'
  <2>1. CASE shared BY <1>6, <2>1 DEF Rename
  <2>2. CASE ~shared
    <3>0. tmp # NoFile /\ inode[tmp] = Whole(view[p]) BY <1>6, <2>2 DEF Rename
    <3>1. inode[tmp].text = "whole" /\ tmp # path /\ tmp \in Inodes BY <3>0
    <3>2. inode'[tmp] = inode[tmp] BY <1>6, <3>1 DEF Rename, Drops
    <3>3. path' = tmp BY <1>6 DEF Rename
    <3>4. ~Torn' BY <3>1, <3>2, <3>3
    <3>5. \A q \in Holders \ {p} : at[q] = "idle" /\ at'[q] = "idle"
      BY <1>6, <2>2 DEF Rename, Goes
    <3>6. at'[p] = "open" BY <1>6 DEF Rename, Goes
    <3> QED BY <3>4, <3>5, <3>6
  <2> QED BY <2>1, <2>2
<1>7. ASSUME NEW p \in Holders, RenameFails(p) PROVE Alone'
  BY <1>7 DEF RenameFails, Goes
<1>8. ASSUME NEW p \in Holders, Close(p) PROVE Alone'
  BY <1>8 DEF Close, Goes
<1>9. ASSUME NEW p \in Holders, Crash(p) PROVE Alone'
  BY <1>9 DEF Crash, Goes
<1>10. CASE UNCHANGED vars BY <1>10 DEF vars
<1> QED BY <1>1, <1>2, <1>3, <1>4, <1>5, <1>6, <1>7, <1>8, <1>9, <1>10 DEF Next

LEMMA LatestStep ==
  TypeOK /\ Files /\ Alone /\ Latest /\ [Next]_vars => Latest'
<1> USE StoreAssumption
<1> SUFFICES ASSUME TypeOK /\ Files /\ Alone /\ Latest, [Next]_vars
             PROVE  Latest'
  OBVIOUS
<1> USE DEF TypeOK, Files, Alone, Latest, names, Torn, Whole
<1>1. ASSUME NEW p \in Holders, Open(p) PROVE Latest'
  <2>1. CASE shared' BY <2>1
  <2>2. CASE ~shared'
    <3>1. ~shared /\ Published' = Published BY <1>1, <2>2 DEF Open, Published
    <3>2. \A q \in Holders \ {p} : at'[q] = "idle" BY <1>1, <2>2 DEF Open, Goes, Crowded
    <3>3. at'[p] = "open" /\ view'[p] = Published BY <1>1 DEF Open, Goes
    <3> QED BY <3>1, <3>2, <3>3
  <2> QED BY <2>1, <2>2
<1>2. ASSUME NEW p \in Holders, Change(p) PROVE Latest'
  <2>1. CASE shared' BY <2>1
  <2>2. CASE ~shared'
    <3>1. ~shared /\ Published' = Published BY <1>2, <2>2 DEF Change, Published
    <3>2. \A q \in Holders \ {p} : at'[q] = "idle" BY <1>2, <3>1 DEF Change, Goes
    <3>3. PICK c \in Map!Commands :
            Map!Permitted(c, view[p]) /\ view' = [view EXCEPT ![p] = Map!Result(c, @)]
      BY <1>2 DEF Change
    <3>4. view[p] = Published BY <1>2, <3>1 DEF Change
    <3>5. view'[p] = Map!Result(c, Published) /\ at'[p] = "changed"
      BY <1>2, <3>3, <3>4 DEF Change, Goes
    <3>6. Map!Permitted(c, Published) BY <3>3, <3>4
    <3>7. Map!Permitted(c, Published)' /\ view'[p] = Map!Result(c, Published)'
      BY <3>1, <3>5, <3>6 DEF Map!Permitted, Map!Result
    <3> QED BY <3>2, <3>5, <3>7
  <2> QED BY <2>1, <2>2
<1>3. ASSUME NEW p \in Holders, Create(p) PROVE Latest'
  <2>1. CASE shared' BY <2>1
  <2>2. CASE ~shared'
    <3>1. ~shared BY <1>3, <2>2 DEF Create
    <3>2. Published' = Published BY <1>3, <3>1 DEF Create, Published, Unused
    <3>3. \A q \in Holders \ {p} : at[q] = "idle" /\ at'[q] = "idle" BY <1>3, <3>1 DEF Create, Goes
    <3>4. view'[p] = view[p] /\ (at'[p] = "open" => at[p] = "open")
          /\ (at'[p] \in {"changed", "write", "rename"} => at[p] \in {"changed", "write", "rename"})
      BY <1>3 DEF Create, Goes
    <3> QED BY <3>1, <3>2, <3>3, <3>4
  <2> QED BY <2>1, <2>2
<1>4. ASSUME NEW p \in Holders, Write(p) PROVE Latest'
  <2>1. CASE shared' BY <2>1
  <2>2. CASE ~shared'
    <3>1. ~shared BY <1>4, <2>2 DEF Write
    <3>2. Published' = Published BY <1>4, <3>1 DEF Write, Published, Unused
    <3>3. \A q \in Holders \ {p} : at[q] = "idle" /\ at'[q] = "idle" BY <1>4, <3>1 DEF Write, Goes
    <3>4. view'[p] = view[p] /\ (at'[p] = "open" => at[p] = "open")
          /\ (at'[p] \in {"changed", "write", "rename"} => at[p] \in {"changed", "write", "rename"})
      BY <1>4 DEF Write, Goes
    <3> QED BY <3>1, <3>2, <3>3, <3>4
  <2> QED BY <2>1, <2>2
<1>5. ASSUME NEW p \in Holders, WriteFails(p) PROVE Latest'
  <2>1. CASE shared' BY <2>1
  <2>2. CASE ~shared'
    <3>1. ~shared BY <1>5, <2>2 DEF WriteFails
    <3>2. Published' = Published BY <1>5, <3>1 DEF WriteFails, Published, Unused
    <3>3. \A q \in Holders \ {p} : at[q] = "idle" /\ at'[q] = "idle" BY <1>5, <3>1 DEF WriteFails, Goes
    <3>4. view'[p] = view[p] /\ (at'[p] = "open" => at[p] = "open")
          /\ (at'[p] \in {"changed", "write", "rename"} => at[p] \in {"changed", "write", "rename"})
      BY <1>5 DEF WriteFails, Goes
    <3> QED BY <3>1, <3>2, <3>3, <3>4
  <2> QED BY <2>1, <2>2
<1>6. ASSUME NEW p \in Holders, Rename(p) PROVE Latest'
  <2>1. CASE shared BY <1>6, <2>1 DEF Rename
  <2>2. CASE ~shared
    <3>1. inode[tmp] = Whole(view[p]) /\ tmp # path /\ tmp \in Inodes
      BY <1>6, <2>2 DEF Rename
    <3>2. inode'[tmp] = inode[tmp] BY <1>6, <3>1 DEF Rename, Drops
    <3>3. path' = tmp /\ view' = view /\ at'[p] = "open" BY <1>6 DEF Rename, Goes
    <3>4. Published' = view[p] BY <3>1, <3>2, <3>3 DEF Published, NoFile
    <3>5. \A q \in Holders \ {p} : at'[q] = "idle" BY <1>6, <2>2 DEF Rename, Goes
    <3> QED BY <3>3, <3>4, <3>5
  <2> QED BY <2>1, <2>2
<1>7. ASSUME NEW p \in Holders, RenameFails(p) PROVE Latest'
  <2>1. CASE shared BY <1>7, <2>1 DEF RenameFails
  <2>2. CASE ~shared BY <1>7, <2>2 DEF RenameFails
  <2> QED BY <2>1, <2>2
<1>8. ASSUME NEW p \in Holders, Close(p) PROVE Latest'
  <2>1. CASE shared' BY <2>1
  <2>2. CASE ~shared'
    <3>1. ~shared BY <1>8, <2>2 DEF Close
    <3>2. at' = [at EXCEPT ![p] = "idle"] /\ at[p] # "idle" BY <1>8 DEF Close, Goes
    <3>3. \A q \in Holders \ {p} : at[q] = "idle" BY <3>1, <3>2
    <3>4. at \in [Holders -> {"idle", "open", "changed", "write", "rename"}] OBVIOUS
    <3> HIDE DEF TypeOK, Files, Alone, Latest
    <3>5. \A q \in Holders : at'[q] = "idle" BY <3>2, <3>3, <3>4
    <3> QED BY <3>5 DEF Latest
  <2> QED BY <2>1, <2>2
<1>9. ASSUME NEW p \in Holders, Crash(p) PROVE Latest'
  <2>1. CASE shared' BY <2>1
  <2>2. CASE ~shared'
    <3>1. ~shared BY <1>9, <2>2 DEF Crash
    <3>2. at' = [at EXCEPT ![p] = "idle"] /\ at[p] # "idle" BY <1>9 DEF Crash, Goes
    <3>3. \A q \in Holders \ {p} : at[q] = "idle" BY <3>1, <3>2
    <3>4. at \in [Holders -> {"idle", "open", "changed", "write", "rename"}] OBVIOUS
    <3> HIDE DEF TypeOK, Files, Alone, Latest
    <3>5. \A q \in Holders : at'[q] = "idle" BY <3>2, <3>3, <3>4
    <3> QED BY <3>5 DEF Latest
  <2> QED BY <2>1, <2>2
<1>10. CASE UNCHANGED vars
  <2>1. Published' = Published /\ view' = view /\ at' = at /\ shared' = shared
    BY <1>10 DEF vars, Published
  <2>2. Latest OBVIOUS
  <2> HIDE DEF TypeOK, Files, Alone, Latest
  <2> QED BY <2>1, <2>2 DEF Latest
<1> QED BY <1>1, <1>2, <1>3, <1>4, <1>5, <1>6, <1>7, <1>8, <1>9, <1>10 DEF Next

-----------------------------------------------------------------------------
(* The theorems.                                                           *)

\* Only a rename changes the published map, and alone by one command.
LEMMA MapStepped ==
  ASSUME TypeOK, Files, Alone, Latest, Next, ~shared'
  PROVE  Map!MapStep \/ Published' = Published
<1> USE StoreAssumption DEF TypeOK, Files, Alone, names, Torn
<1>1. PICK p \in Holders :
        \/ Open(p) \/ Change(p) \/ Create(p) \/ Write(p) \/ WriteFails(p)
        \/ Rename(p) \/ RenameFails(p) \/ Close(p) \/ Crash(p)
  BY DEF Next
<1>2. ~shared
  BY <1>1 DEF Open, Change, Create, Write, WriteFails, Rename, RenameFails, Close, Crash
<1>3. CASE Rename(p)
  <2>1. inode[tmp] = Whole(view[p]) /\ tmp # path /\ tmp \in Inodes
    BY <1>2, <1>3 DEF Rename
  <2>2. inode'[tmp] = inode[tmp] /\ path' = tmp BY <1>3, <2>1 DEF Rename, Drops
  <2>3. Published' = view[p] BY <2>1, <2>2 DEF Published, Whole, NoFile
  <2>4. PICK c \in Map!Commands :
          Map!Permitted(c, Published) /\ view[p] = Map!Result(c, Published)
    BY <1>2, <1>3 DEF Rename, Latest
  <2> QED BY <2>3, <2>4 DEF Map!MapStep
<1>4. CASE Open(p) \/ Change(p) \/ RenameFails(p) \/ Close(p)
  BY <1>4 DEF Open, Change, RenameFails, Close, Published
<1>5. CASE Create(p) BY <1>5 DEF Create, Published, Unused
<1>6. CASE Write(p) BY <1>2, <1>6 DEF Write, Published
<1>7. CASE WriteFails(p) BY <1>2, <1>7 DEF WriteFails, Published
<1>8. CASE Crash(p) BY <1>2, <1>8 DEF Crash, Published
<1> QED BY <1>1, <1>3, <1>4, <1>5, <1>6, <1>7, <1>8

StoreInv == TypeOK /\ Uniques /\ Files /\ Alone /\ Latest

LEMMA InvInit == Init => StoreInv
<1> SUFFICES ASSUME Init PROVE StoreInv OBVIOUS
<1>1. Files /\ Latest BY DEF Init, Files, Latest
<1>2. Alone
  <2>1. path # NoFile => inode[path].text = "whole"
    <3>1. PICK S \in SUBSET Devices :
            LET m == [d \in Devices |-> IF d \in S THEN Map!Fresh(Map!Other) ELSE Map!Absent]
            IN  \/ path = NoFile
                \/ \E i \in Inodes :
                     path = i /\ inode = [[j \in Inodes |-> Empty] EXCEPT ![i] = Whole(m)]
      BY DEF Init
    <3> QED BY <3>1 DEF Whole
  <2>2. \A p \in Holders : at[p] = "idle" BY DEF Init
  <2> QED BY <2>1, <2>2 DEF Alone, Torn
<1> QED BY <1>1, <1>2, TypeInit, UniquesInit DEF StoreInv

LEMMA StoreInvariant == Spec => []StoreInv
<1>1. StoreInv /\ [Next]_vars => StoreInv'
  BY TypeStep, UniquesStep, FilesStep, AloneStep, LatestStep DEF StoreInv
<1> QED BY <1>1, InvInit, PTL DEF Spec

\* Every variable keeps its type.
THEOREM StoreTypeCorrect == Spec => []TypeOK
<1>1. StoreInv => TypeOK BY DEF StoreInv
<1> QED BY <1>1, StoreInvariant, PTL

\* An alias names its device in every devices.json, overlaps or not.
THEOREM AliasFoundHolds == Spec => []AliasFound
<1>1. StoreInv => AliasFound
  <2> SUFFICES ASSUME StoreInv,
                      NEW d \in Devices, NEW a \in Names, a \in Published[d].aliases,
                      \A e \in Devices \ {d} : Published[e].label # a
               PROVE  Map!Resolves(a, d, Published)
    BY DEF AliasFound
  <2>1. Unique(Published) BY PublishedUnique DEF StoreInv
  <2> QED BY <2>1 DEF Unique, Map!Resolves, Map!Hits
<1> QED BY <1>1, StoreInvariant, PTL

\* Holders that never overlapped never publish half a file.
THEOREM TornOnlyByOverlapHolds == Spec => []TornOnlyByOverlap
<1>1. StoreInv => TornOnlyByOverlap BY DEF StoreInv, Alone, TornOnlyByOverlap
<1> QED BY <1>1, StoreInvariant, PTL

\* As long as no two overlapped, devices.json is a map changed by one command
\* at a time.
THEOREM ImplementsMapHolds == Spec => ImplementsMap
<1>1. StoreInv /\ [Next]_vars => [shared' \/ Map!MapStep]_Published
  <2> SUFFICES ASSUME StoreInv, [Next]_vars PROVE [shared' \/ Map!MapStep]_Published OBVIOUS
  <2>1. CASE UNCHANGED vars BY <2>1 DEF vars, names, Published
  <2>2. CASE Next BY <2>2, MapStepped DEF StoreInv
  <2> QED BY <2>1, <2>2
<1> QED BY <1>1, StoreInvariant, PTL DEF Spec, ImplementsMap
=============================================================================
