---------------------------- MODULE DeviceStore ----------------------------
(***************************************************************************)
(* devices.json on disk.  Whoever changes it (commands, the TUI, tasks of  *)
(* the agent) reads the whole file, changes its copy, at times much later  *)
(* and more than once, writes it to devices.json.tmp and renames that.     *)
(* There is no lock, and the temporary name is the same for all.           *)
(***************************************************************************)
EXTENDS Naturals

CONSTANTS Devices, Names, Groups,
          Holders,     \* tasks and commands that open the store
          Inodes,      \* files, whatever their names
          MaxChanges,  \* bound: changes of a behaviour
          Faults       \* "crash": a process ends, "io": a file is not written to its end

NoFile == "none"

ASSUME StoreAssumption ==
  /\ MaxChanges \in Nat
  /\ Faults \subseteq {"crash", "io"}
  /\ NoFile \notin Inodes

VARIABLES inode,  \* content of each file
          path,   \* the file named devices.json
          tmp,    \* the file named devices.json.tmp
          at,     \* point of each holder
          view,   \* its copy of the map
          fd,     \* the file it writes
          left,   \* changes left
          shared  \* history: two holders had the store open at once

names == <<path, tmp>>
vars == <<inode, names, at, view, fd, left, shared>>

\* The map in a file, or in none: a file is whole, or its text has been cut.
Published == IF path = NoFile
             THEN [d \in Devices |-> [trust |-> "absent", label |-> "other",
                                      aliases |-> {}, groups |-> {}]]
             ELSE inode[path].map
Torn == path # NoFile /\ inode[path].text # "whole"

Map == INSTANCE DeviceMap WITH map <- Published

TypeOK ==
  /\ inode \in [Inodes -> [text : {"empty", "cut", "whole"}, map : Map!Maps]]
  /\ path \in Inodes \cup {NoFile} /\ tmp \in Inodes \cup {NoFile}
  /\ at \in [Holders -> {"idle", "open", "changed", "write", "rename"}]
  /\ view \in [Holders -> Map!Maps]
  /\ fd \in [Holders -> Inodes \cup {NoFile}]
  /\ left \in 0..MaxChanges
  /\ shared \in BOOLEAN

Whole(m) == [text |-> "whole", map |-> m]
Empty == [text |-> "empty", map |-> Map!Nobody]
Cut == [text |-> "cut", map |-> Map!Nobody]

\* Any devices linked before, by commands that are over.
Init ==
  /\ \E S \in SUBSET Devices :
       LET m == [d \in Devices |-> IF d \in S THEN Map!Fresh(Map!Other) ELSE Map!Absent]
       IN  \/ S = {} /\ path = NoFile /\ inode = [i \in Inodes |-> Empty]
           \/ \E i \in Inodes :
                path = i /\ inode = [[j \in Inodes |-> Empty] EXCEPT ![i] = Whole(m)]
  /\ tmp = NoFile
  /\ at = [p \in Holders |-> "idle"]
  /\ view = [p \in Holders |-> Map!Nobody]
  /\ fd = [p \in Holders |-> NoFile]
  /\ left = MaxChanges
  /\ shared = FALSE

-----------------------------------------------------------------------------
Goes(p, a) == at' = [at EXCEPT ![p] = a]
Crowded(p) == \E o \in Holders \ {p} : at[o] # "idle"
Unused(i) == i \notin {path, tmp} /\ \A p \in Holders : fd[p] # i

\* The bug of a copy that is kept and not read again.
Open_KeepsView(p) ==
  /\ at[p] = "idle" /\ ~Torn
  /\ view' = [view EXCEPT ![p] = IF @ = Map!Nobody THEN Published ELSE @]
  /\ Goes(p, "open")
  /\ shared' = (shared \/ Crowded(p))
  /\ UNCHANGED <<inode, names, fd, left>>

\* A file that does not parse is an error, for everyone and for good.
Open(p) ==
  /\ at[p] = "idle" /\ ~Torn
  /\ view' = [view EXCEPT ![p] = Published]
  /\ Goes(p, "open")
  /\ shared' = (shared \/ Crowded(p))
  /\ UNCHANGED <<inode, names, fd, left>>

Change(p) ==
  /\ at[p] = "open" /\ left > 0
  /\ \E c \in Map!Commands :
       Map!Permitted(c, view[p]) /\ view' = [view EXCEPT ![p] = Map!Result(c, @)]
  /\ Goes(p, "changed") /\ left' = left - 1
  /\ UNCHANGED <<inode, names, fd, shared>>

\* The bug of writing devices.json itself.
Create_InPlace(p) ==
  /\ at[p] = "changed"
  /\ \E i \in Inodes :
       /\ IF path = NoFile THEN Unused(i) ELSE i = path
       /\ path' = i /\ fd' = [fd EXCEPT ![p] = i]
       /\ inode' = [inode EXCEPT ![i] = Empty]
  /\ Goes(p, "write")
  /\ UNCHANGED <<tmp, view, left, shared>>

\* fs::write empties the temporary file that is there, or makes one.
Create(p) ==
  /\ at[p] = "changed"
  /\ \E i \in Inodes :
       /\ IF tmp = NoFile THEN Unused(i) ELSE i = tmp
       /\ tmp' = i /\ fd' = [fd EXCEPT ![p] = i]
       /\ inode' = [inode EXCEPT ![i] = Empty]
  /\ Goes(p, "write")
  /\ UNCHANGED <<path, view, left, shared>>

\* A copy written over another one leaves the tail of a longer one.
Write(p) ==
  /\ at[p] = "write"
  /\ \E c \in IF inode[fd[p]] = Empty THEN {Whole(view[p])} ELSE {Whole(view[p]), Cut} :
       inode' = [inode EXCEPT ![fd[p]] = c]
  /\ fd' = [fd EXCEPT ![p] = NoFile] /\ Goes(p, "rename")
  /\ UNCHANGED <<names, view, left, shared>>

\* Who fails to write gives up, but for the loop that clears the records of a
\* kicked device, which is not modelled.
WriteFails(p) ==
  /\ "io" \in Faults /\ at[p] = "write"
  /\ inode' = [inode EXCEPT ![fd[p]] = Cut]
  /\ fd' = [fd EXCEPT ![p] = NoFile] /\ Goes(p, "idle")
  /\ UNCHANGED <<names, view, left, shared>>

\* A file without a name that nobody writes is gone.
Drops(i) == IF i # NoFile /\ \A p \in Holders : fd[p] # i
            THEN inode' = [inode EXCEPT ![i] = Empty] ELSE UNCHANGED inode

Rename(p) ==
  /\ at[p] = "rename" /\ tmp # NoFile
  /\ path' = tmp /\ tmp' = NoFile /\ Drops(path)
  /\ Goes(p, "open")
  /\ UNCHANGED <<view, fd, left, shared>>

\* Another holder has renamed the file away: an error.
RenameFails(p) ==
  /\ at[p] = "rename" /\ tmp = NoFile
  /\ Goes(p, "open")
  /\ UNCHANGED <<inode, names, view, fd, left, shared>>

Close(p) ==
  /\ at[p] = "open" /\ Goes(p, "idle")
  /\ UNCHANGED <<inode, names, view, fd, left, shared>>

Crash(p) ==
  /\ "crash" \in Faults /\ at[p] # "idle" /\ Goes(p, "idle")
  /\ fd' = [fd EXCEPT ![p] = NoFile]
  /\ \/ UNCHANGED inode
     \/ at[p] = "write" /\ inode' = [inode EXCEPT ![fd[p]] = Cut]
  /\ UNCHANGED <<names, view, left, shared>>

Next == \E p \in Holders :
          \/ Open(p) \/ Change(p) \/ Create(p) \/ Write(p) \/ WriteFails(p)
          \/ Rename(p) \/ RenameFails(p) \/ Close(p) \/ Crash(p)

Spec == Init /\ [][Next]_vars

-----------------------------------------------------------------------------
(* Properties.                                                             *)

\* An alias names its device, in every devices.json that can be read, however
\* many copies were written over each other: asked for by that name, no command
\* acts on another device, nor finds it ambiguous unless it is also a label.
AliasFound ==
  \A d \in Devices, a \in Names :
    a \in Published[d].aliases /\ (\A e \in Devices \ {d} : Published[e].label # a)
      => Map!Resolves(a, d, Published)

\* A crash or a full disk in the middle of a change leaves the old file or the
\* new one; only holders that overlap can publish a torn one.
TornOnlyByOverlap == Torn => shared

\* Without overlap every change is made to the latest map, and none is lost.
ImplementsMap == [][shared' \/ Map!MapStep]_Published
=============================================================================
