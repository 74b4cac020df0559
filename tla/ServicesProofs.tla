--------------------------- MODULE ServicesProofs ---------------------------
(***************************************************************************)
(* Proofs about a command and the agent that serves it, for every command, *)
(* every set of faults, and every number of chunks or lines.               *)
(***************************************************************************)
EXTENDS Services, TLAPS

\* What is in a frame that is taken for data.
Sound == {f \in Frame : /\ f.type = "Chunk" => f.n \in 0..Items
                        /\ f.type \in {"Input", "Output", "Data"} => f.n \in 1..Items}

TypeInv ==
  /\ TypeOK
  /\ lane \in [Sides -> Seq(Sound)] /\ termOut \in Seq(Sound)
  /\ Len(file) <= Items + 1

-----------------------------------------------------------------------------
(* Sequences and frames.                                                   *)

LEMMA Heads ==
  ASSUME NEW S, NEW q \in Seq(S), q # <<>>
  PROVE  /\ Head(q) \in S /\ Head(q) = q[1] /\ Tail(q) \in Seq(S)
         /\ Len(q) \in Nat \ {0} /\ Len(Tail(q)) = Len(q) - 1
         /\ \A i \in 1..Len(Tail(q)) : i + 1 \in 1..Len(q) /\ Tail(q)[i] = q[i + 1]
OBVIOUS

LEMMA Elements ==
  ASSUME NEW S, NEW q \in Seq(S)
  PROVE  Len(q) \in Nat /\ \A i \in 1..Len(q) : q[i] \in S
OBVIOUS

LEMMA Joins ==
  ASSUME NEW S, NEW q \in Seq(S), NEW p \in Seq(S)
  PROVE  /\ q \o p \in Seq(S) /\ Len(q \o p) = Len(q) + Len(p)
         /\ Len(q) \in Nat /\ Len(p) \in Nat
         /\ \A i \in 1..Len(q) : (q \o p)[i] = q[i]
         /\ \A i \in 1..Len(p) : (q \o p)[Len(q) + i] = p[i]
OBVIOUS

LEMMA Starts ==
  ASSUME NEW S, NEW q \in Seq(S), NEW k \in 0..Len(q)
  PROVE  /\ SubSeq(q, 1, k) \in Seq(S) /\ Len(SubSeq(q, 1, k)) = k
         /\ \A i \in 1..k : i \in 1..Len(q) /\ SubSeq(q, 1, k)[i] = q[i]
OBVIOUS

LEMMA NoFrames == <<>> \in Seq(Sound)
OBVIOUS

LEMMA Widens ==
  ASSUME NEW S, NEW T, S \subseteq T
  PROVE  Seq(S) \subseteq Seq(T)
OBVIOUS

LEMMA Ones ==
  ASSUME NEW S, NEW x \in S
  PROVE  <<x>> \in Seq(S) /\ <<>> \in Seq(S) /\ Len(<<x>>) = 1 /\ <<x>>[1] = x
OBVIOUS

LEMMA FrameSound ==
  ASSUME NEW k \in Kinds, NEW t \in Types, NEW n \in 0..Items + 1,
         t = "Chunk" => n \in 0..Items, t \in {"Input", "Output", "Data"} => n \in 1..Items
  PROVE  F(k, t, n) \in Sound /\ F(k, t, n).type = t /\ F(k, t, n).n = n /\ F(k, t, n).kind = k
BY DEF F, Sound, Frame

LEMMA SoundFrames == Seq(Sound) \subseteq Seq(Frame)
BY Widens DEF Sound

LEMMA Words ==
  /\ \A k \in Kinds, t \in Types \ {"Input", "Output", "Data"} : F(k, t, 0) \in Sound
  /\ Snapshot \in Sound /\ KickAnnounce \in Sound
<1>1. 0 \in 0..Items + 1 /\ 0 \in 0..Items BY ServicesAssumption
<1>2. \A k \in Kinds, t \in Types \ {"Input", "Output", "Data"} : F(k, t, 0) \in Sound
  BY <1>1, FrameSound
<1>3. "control" \in Kinds /\ "Snapshot" \in Types /\ "KickAnnounce" \in Types BY DEF Kinds, Types
<1> QED BY <1>2, <1>3 DEF Snapshot, KickAnnounce

LEMMA PeerSide ==
  ASSUME NEW s \in Sides
  PROVE  Peer(s) \in Sides /\ Peer(s) # s
BY DEF Sides, Peer

-----------------------------------------------------------------------------
(* What an action does to the lanes.                                       *)

LEMMA SendLanes ==
  ASSUME lane \in [Sides -> Seq(Sound)], NEW s \in Sides, NEW fs \in Seq(Sound), Send(s, fs)
  PROVE  /\ lane' \in [Sides -> Seq(Sound)] /\ conn' = conn
         /\ lane'[s] = lane[s] /\ lane'[Peer(s)] = lane[Peer(s)] \o fs
<1>1. lane[Peer(s)] \o fs \in Seq(Sound) BY PeerSide, Joins
<1> QED BY <1>1, PeerSide DEF Send

LEMMA TakeLanes ==
  ASSUME lane \in [Sides -> Seq(Sound)], NEW s \in Sides, NEW fs \in Seq(Sound), Take(s, fs)
  PROVE  /\ lane' \in [Sides -> Seq(Sound)] /\ conn' = conn
         /\ lane[s] # <<>> /\ lane'[s] = Tail(lane[s]) /\ Tail(lane[s]) \in Seq(Sound)
         /\ lane'[Peer(s)] = lane[Peer(s)] \o fs
<1>1. lane[Peer(s)] \o fs \in Seq(Sound) BY PeerSide, Joins
<1>2. lane[s] # <<>> BY DEF Take, Has
<1>3. Tail(lane[s]) \in Seq(Sound) BY <1>2, Heads
<1> QED BY <1>1, <1>2, <1>3, PeerSide DEF Take

LEMMA LeaveLanes ==
  ASSUME lane \in [Sides -> Seq(Sound)], NEW s \in Sides, NEW fs \in Seq(Sound), NEW p,
         Leave(s, p, fs)
  PROVE  /\ lane' \in [Sides -> Seq(Sound)] /\ conn' = "closed" /\ lane'[s] = <<>>
         /\ \E k \in 0..Len(lane[Peer(s)] \o fs) :
              lane'[Peer(s)] = IF conn = "open" THEN SubSeq(lane[Peer(s)] \o fs, 1, k)
                                                ELSE lane[Peer(s)]
<1> DEFINE q == lane[Peer(s)] \o fs
<1>1. q \in Seq(Sound) BY PeerSide, Joins
<1>2. PICK k \in 0..Len(q) :
        lane' = [lane EXCEPT ![s] = <<>>,
                             ![Peer(s)] = IF conn = "open" THEN SubSeq(q, 1, k) ELSE @]
  BY DEF Leave
<1>3. SubSeq(q, 1, k) \in Seq(Sound) /\ lane[Peer(s)] \in Seq(Sound) BY <1>1, PeerSide, Starts
<1>4. <<>> \in Seq(Sound) OBVIOUS
<1> HIDE DEF q
<1>5. lane'[s] = <<>> /\ lane'[Peer(s)] = IF conn = "open" THEN SubSeq(q, 1, k) ELSE lane[Peer(s)]
  BY <1>2, PeerSide
<1>6. lane' \in [Sides -> Seq(Sound)] BY <1>2, <1>3, <1>4, PeerSide
<1> QED BY <1>2, <1>5, <1>6 DEF Leave, q

LEMMA CutLanes ==
  ASSUME lane \in [Sides -> Seq(Sound)], Cut
  PROVE  /\ lane' \in [Sides -> Seq(Sound)] /\ conn' = "closed" /\ conn = "open"
         /\ \A s \in Sides : \E k \in 0..Len(lane[s]) : lane'[s] = SubSeq(lane[s], 1, k)
<1>1. PICK i \in 0..Len(lane["client"]), j \in 0..Len(lane["host"]) :
        lane' = [client |-> SubSeq(lane["client"], 1, i), host |-> SubSeq(lane["host"], 1, j)]
  BY DEF Cut
<1>2. SubSeq(lane["client"], 1, i) \in Seq(Sound) /\ SubSeq(lane["host"], 1, j) \in Seq(Sound)
  BY Starts DEF Sides
<1>3. /\ DOMAIN lane' = Sides /\ lane'["client"] = SubSeq(lane["client"], 1, i)
      /\ lane'["host"] = SubSeq(lane["host"], 1, j)
  BY <1>1 DEF Sides
<1>4. lane' \in [{"client", "host"} -> Seq(Sound)]
  <2>1. lane' = [s \in {"client", "host"} |-> IF s = "client" THEN SubSeq(lane["client"], 1, i)
                                             ELSE SubSeq(lane["host"], 1, j)]
    BY <1>1
  <2> QED BY <1>2, <2>1
<1> QED BY <1>3, <1>4 DEF Cut, Sides

-----------------------------------------------------------------------------
(* Type correctness.                                                       *)

Points == {"accept", "hello", "news", "loop", "pipe", "ack", "request", "upload", "wait"}
            \cup Ended

LEMMA TypeInvInit == Init => TypeInv
<1> SUFFICES ASSUME Init PROVE TypeInv OBVIOUS
<1> USE ServicesAssumption
<1>1. OldFile \in Seq(0..Items) /\ Len(OldFile) = Items + 1 BY DEF OldFile
<1>2. F("control", "Hello", 0) \in Sound BY Words DEF Kinds, Types
<1>3. <<F("control", "Hello", 0)>> \in Seq(Sound) /\ <<>> \in Seq(Sound) BY <1>2
<1>4. lane \in [Sides -> Seq(Sound)] BY <1>3 DEF Init
<1>5. lane \in [Sides -> Seq(Frame)] BY <1>4, SoundFrames
<1>6. news \in Seq({Snapshot, KickAnnounce})
  <2>1. \A x, y : {<<>>, <<y>>, <<x>>, <<x, y>>} \subseteq Seq({x, y})
    OBVIOUS
  <2>2. news \in {<<>>, <<KickAnnounce>>, <<Snapshot>>, <<Snapshot, KickAnnounce>>}
    BY Zenon DEF Init
  <2> QED BY <2>1, <2>2
<1>7. at \in [Sides -> Points] BY DEF Init, Points
<1>8. out \in [Sides -> 0..Items] /\ got \in [Sides -> Seq(1..Items)] BY DEF Init
<1>9. file \in Seq(0..Items) /\ local \in Seq(0..Items) /\ Len(file) <= Items + 1
  BY <1>1 DEF Init
<1>10. termOut \in Seq(Sound) /\ termOut \in Seq(Frame) BY <1>3, SoundFrames DEF Init
<1>11. /\ cmd \in Commands /\ faults \in FaultSets /\ denied \in BOOLEAN /\ trusted \in BOOLEAN
       /\ conn \in {"open", "closed"} /\ put \in BOOLEAN /\ term \in BOOLEAN
       /\ shell \in {"none", "alive", "dead"}
  BY DEF Init
<1>12. torn \subseteq Sides BY DEF Init
<1> QED BY <1>4, <1>5, <1>6, <1>7, <1>8, <1>9, <1>10, <1>11, <1>12 DEF TypeInv, TypeOK, Points

\* The parts of the invariant, as the actions change them.
LEMMA TypeParts ==
  TypeInv <=>
    /\ cmd \in Commands /\ faults \in FaultSets /\ denied \in BOOLEAN
    /\ news \in Seq({Snapshot, KickAnnounce})
    /\ trusted \in BOOLEAN /\ conn \in {"open", "closed"}
    /\ lane \in [Sides -> Seq(Sound)] /\ termOut \in Seq(Sound)
    /\ at \in [Sides -> Points]
    /\ file \in Seq(0..Items) /\ Len(file) <= Items + 1
    /\ local \in Seq(0..Items) /\ put \in BOOLEAN
    /\ shell \in {"none", "alive", "dead"} /\ term \in BOOLEAN /\ torn \subseteq Sides
    /\ out \in [Sides -> 0..Items] /\ got \in [Sides -> Seq(1..Items)]
BY SoundFrames DEF TypeInv, TypeOK, Points

LEMMA WrittenType ==
  ASSUME NEW f \in Seq(0..Items), Len(f) <= Items + 1, NEW n \in 0..Items
  PROVE  WriteChunk(f, n) \in Seq(0..Items) /\ Len(WriteChunk(f, n)) <= Items + 1
<1> DEFINE m == IF n > Len(f) THEN n ELSE Len(f)
<1>1. m \in Nat /\ m <= Items + 1 BY ServicesAssumption
<1>2. WriteChunk(f, n) = [i \in 1..m |-> IF i = n THEN n ELSE IF i <= Len(f) THEN f[i] ELSE 0]
  BY DEF WriteChunk
<1>3. \A i \in 1..m : (IF i = n THEN n ELSE IF i <= Len(f) THEN f[i] ELSE 0) \in 0..Items
  BY ServicesAssumption
<1> HIDE DEF m
<1> QED BY <1>1, <1>2, <1>3

LEMMA ChunksType ==
  ASSUME NEW f \in Seq(0..Items), Len(f) <= Items + 1
  PROVE  /\ Chunks(f) \in Seq(Sound) /\ Len(Chunks(f)) = Len(f)
         /\ \A i \in 1..Len(f) : Chunks(f)[i] = F("files", "Chunk", f[i])
         /\ F("files", "Done", Len(f)) \in Sound
         /\ Append(Chunks(f), F("files", "Done", Len(f))) \in Seq(Sound)
<1>1. \A n \in 0..Items : F("files", "Chunk", n) \in Sound
  BY FrameSound, ServicesAssumption DEF Kinds, Types
<1>2. F("files", "Done", Len(f)) \in Sound
  BY FrameSound, ServicesAssumption DEF Kinds, Types
<1>3. Chunks(f) = [i \in 1..Len(f) |-> F("files", "Chunk", f[i])] BY DEF Chunks
<1> HIDE DEF Chunks
<1>4. Len(f) \in Nat /\ \A i \in 1..Len(f) : f[i] \in 0..Items
  BY Elements
<1>5. \A i \in 1..Len(f) : F("files", "Chunk", f[i]) \in Sound BY <1>1, <1>4
<1>6. /\ Chunks(f) \in Seq(Sound) /\ Len(Chunks(f)) = Len(f)
      /\ \A i \in 1..Len(f) : Chunks(f)[i] = F("files", "Chunk", f[i])
  BY <1>3, <1>4, <1>5
<1>7. Append(Chunks(f), F("files", "Done", Len(f))) \in Seq(Sound) BY <1>2, <1>6
<1> QED BY <1>2, <1>6, <1>7

LEMMA Foremost ==
  ASSUME lane \in [Sides -> Seq(Sound)], NEW s \in Sides, Has(s)
  PROVE  /\ lane[s] # <<>> /\ Next1(s) \in Sound
         /\ Next1(s) = lane[s][1]
<1> DEFINE q == lane[s]
<1>1. q \in Seq(Sound) OBVIOUS
<1>2. q # <<>> BY DEF Has
<1>3. Head(q) \in Sound /\ Head(q) = q[1] BY <1>1, <1>2, Heads
<1> QED BY <1>2, <1>3 DEF Next1

\* A side lets go of the connection.
LEMMA LeaveType ==
  ASSUME TypeInv, NEW s \in Sides, NEW p \in Ended, NEW fs \in Seq(Sound), Leave(s, p, fs),
         UNCHANGED <<cmd, faults, news, trusted, file, local, put, shell, out, got, denied>>,
         term' \in {term, FALSE}, termOut' \in {termOut, <<>>}, torn' = torn
  PROVE  TypeInv'
<1> USE DEF TypeInv
<1>1. lane' \in [Sides -> Seq(Sound)] /\ conn' = "closed" BY LeaveLanes
<1>2. at' \in [Sides -> Points] BY TypeParts DEF Leave, GoesTo, Points
<1> HIDE DEF TypeInv
<1>3. termOut' \in Seq(Sound) BY TypeParts, NoFrames
<1>4. term' \in BOOLEAN BY TypeParts
<1>5. lane' \in [Sides -> Seq(Frame)] /\ termOut' \in Seq(Frame) BY <1>1, <1>3, SoundFrames
<1>6. /\ cmd' \in Commands /\ faults' \in FaultSets /\ denied' \in BOOLEAN
      /\ news' \in Seq({Snapshot, KickAnnounce}) /\ trusted' \in BOOLEAN
      /\ file' \in Seq(0..Items) /\ Len(file') <= Items + 1
      /\ local' \in Seq(0..Items) /\ put' \in BOOLEAN /\ shell' \in {"none", "alive", "dead"}
      /\ out' \in [Sides -> 0..Items] /\ got' \in [Sides -> Seq(1..Items)]
      /\ torn' \subseteq Sides
  BY TypeParts
<1> QED BY <1>1, <1>2, <1>3, <1>4, <1>5, <1>6 DEF TypeInv, TypeOK, Points

LEMMA HostLeavesType ==
  ASSUME TypeInv, NEW fs \in Seq(Sound), HostLeaves(fs)
  PROVE  TypeInv'
BY LeaveType DEF HostLeaves, setting, files, apps, Sides, Ended

LEMMA ClientLeavesType ==
  ASSUME TypeInv, NEW p \in Ended, ClientLeaves(p)
  PROVE  TypeInv'
BY LeaveType, NoFrames DEF ClientLeaves, setting, files, apps, shells, Sides, Ended

\* A step that lets nobody go.
LEMMA StayType ==
  ASSUME TypeInv, UNCHANGED setting,
         lane' \in [Sides -> Seq(Sound)], conn' = conn \/ conn' = "closed",
         news' = news \/ news' \in Seq({Snapshot, KickAnnounce}), trusted' \in BOOLEAN,
         at' = at \/ \E s \in Sides, p \in Points : GoesTo(s, p),
         file' = file \/ (file' \in Seq(0..Items) /\ Len(file') <= Items + 1),
         local' = local \/ local' \in Seq(0..Items), put' \in BOOLEAN,
         shell' \in {"none", "alive", "dead"}, term' \in BOOLEAN,
         termOut' \in Seq(Sound), torn' = torn \/ torn' \subseteq Sides, out' = out \/ out' \in [Sides -> 0..Items],
         got' = got \/ got' \in [Sides -> Seq(1..Items)], denied' \in BOOLEAN
  PROVE  TypeInv'
<1>1. at' \in [Sides -> Points]
  <2>1. at \in [Sides -> Points] BY TypeParts
  <2>2. ASSUME NEW s \in Sides, NEW p \in Points, GoesTo(s, p) PROVE at' \in [Sides -> Points]
    BY <2>1, <2>2 DEF GoesTo
  <2> QED BY <2>1, <2>2
<1>2. lane' \in [Sides -> Seq(Frame)] /\ termOut' \in Seq(Frame) BY SoundFrames
<1>3. /\ cmd' \in Commands /\ faults' \in FaultSets /\ conn' \in {"open", "closed"}
      /\ news' \in Seq({Snapshot, KickAnnounce})
      /\ file' \in Seq(0..Items) /\ Len(file') <= Items + 1 /\ local' \in Seq(0..Items)
      /\ out' \in [Sides -> 0..Items] /\ got' \in [Sides -> Seq(1..Items)]
      /\ torn' \subseteq Sides
  BY TypeParts DEF setting
<1> QED BY <1>1, <1>2, <1>3 DEF TypeInv, TypeOK, Points

LEMMA TurnsType ==
  ASSUME TypeInv, NEW s \in Sides, TurnsAway(s)
  PROVE  torn' \subseteq Sides
BY TypeParts DEF TurnsAway

LEMMA Places ==
  /\ {"client", "host"} = Sides /\ Ended \subseteq Points
  /\ {"accept", "hello", "news", "loop", "pipe", "ack", "request", "upload", "wait"} \subseteq Points
BY DEF Sides, Points

LEMMA Requests == \A c \in Commands : Request[c] \in Sound
<1>1. /\ F("files", "Put", 0) \in Sound /\ F("files", "Get", 0) \in Sound
      /\ F("files", "List", 0) \in Sound /\ F("control", "Ping", 0) \in Sound
      /\ F("control", "MetricsRequest", 0) \in Sound /\ F("terminal", "Open", 0) \in Sound
      /\ F("tcp", "Dial", 0) \in Sound
  BY Words DEF Kinds, Types
<1>2. \A c \in Commands : c \in {"push", "bw", "pull", "list", "ping", "metrics", "shell", "tunnel"}
  BY ServicesAssumption DEF Copies, Probes
<1> QED BY <1>1, <1>2 DEF Request

\* A number a side writes down for its application.
LEMMA NumberedOut ==
  ASSUME TypeInv, NEW s \in Sides, out[s] < Items
  PROVE  /\ [out EXCEPT ![s] = @ + 1] \in [Sides -> 0..Items]
         /\ F("files", "Chunk", out[s] + 1) \in Sound
         /\ F("tcp", "Data", out[s] + 1) \in Sound
         /\ F("terminal", "Input", out[s] + 1) \in Sound
         /\ F("terminal", "Output", out[s] + 1) \in Sound
<1>1. out \in [Sides -> 0..Items] /\ out[s] \in 0..Items BY TypeParts
<1>2. out[s] + 1 \in 0..Items + 1 /\ out[s] + 1 \in 1..Items /\ out[s] + 1 \in 0..Items
  BY <1>1, ServicesAssumption
<1>3. [out EXCEPT ![s] = @ + 1] \in [Sides -> 0..Items] BY <1>1, <1>2
<1>4. /\ {"files", "tcp", "terminal"} \subseteq Kinds
      /\ {"Chunk", "Data", "Input", "Output"} \subseteq Types
  BY DEF Kinds, Types
<1> QED BY <1>2, <1>3, <1>4, FrameSound

\* What a side delivers to its application.
LEMMA Delivered ==
  ASSUME TypeInv, NEW s \in Sides, NEW f \in Sound, f.type \in {"Input", "Output", "Data"}
  PROVE  [got EXCEPT ![s] = Append(@, f.n)] \in [Sides -> Seq(1..Items)]
<1>1. f.n \in 1..Items BY DEF Sound
<1>2. got \in [Sides -> Seq(1..Items)] BY TypeParts
<1>3. Append(got[s], f.n) \in Seq(1..Items) BY <1>1, <1>2
<1> QED BY <1>2, <1>3


LEMMA HostType ==
  ASSUME TypeInv, Host \/ HostFails
  PROVE  TypeInv'
<1> DEFINE Fixed == /\ trusted \in BOOLEAN /\ put \in BOOLEAN /\ term \in BOOLEAN
                    /\ denied \in BOOLEAN /\ shell \in {"none", "alive", "dead"}
                    /\ termOut \in Seq(Sound) /\ lane \in [Sides -> Seq(Sound)]
                    /\ news \in Seq({Snapshot, KickAnnounce})
                    /\ file \in Seq(0..Items) /\ Len(file) <= Items + 1
                    /\ local \in Seq(0..Items)
<1>0. Fixed BY TypeParts
<1>1. "host" \in Sides /\ "client" \in Sides /\ Peer("host") = "client" BY DEF Sides, Peer
<1>2. \A fs \in Seq(Sound) : Take("host", fs) \/ Send("host", fs) =>
        lane' \in [Sides -> Seq(Sound)] /\ conn' = conn
  BY <1>0, <1>1, SendLanes, TakeLanes
<1>3. \A f \in Sound : <<f>> \in Seq(Sound) BY Ones
<1>4. Has("host") => Next1("host") \in Sound BY <1>0, <1>1, Foremost
<1>5. ASSUME NEW t \in Types \ {"Input", "Output", "Data"}, NEW k \in Kinds
      PROVE  <<F(k, t, 0)>> \in Seq(Sound)
  BY <1>3, Words
<1>6. Kinds = {"control", "files", "terminal", "tcp"}
      /\ {"HelloAck", "Pong", "Metrics", "ListResult", "DialOk", "DialErr"}
           \subseteq Types \ {"Input", "Output", "Data"}
  BY DEF Kinds, Types
<1> USE <1>0
<1>7. CASE HostAccept
  <2>1. CASE trusted BY <1>7, <1>1, <2>1, StayType, Places DEF HostAccept, setting, files, shells, apps
  <2>2. CASE ~trusted BY <1>7, <2>2, HostLeavesType, NoFrames DEF HostAccept
  <2> QED BY <2>1, <2>2
<1>8. CASE HostHello
  <2>1. <<F("control", "HelloAck", 0)>> \in Seq(Sound) BY <1>5, <1>6
  <2>2. lane' \in [Sides -> Seq(Sound)] /\ conn' = conn BY <1>8, <1>2, <2>1 DEF HostHello
  <2> QED BY <1>8, <1>1, <2>2, StayType, Places DEF HostHello, files, shells, apps
<1>9. CASE HostNews
  <2>1. CASE news = <<>> \/ conn = "closed"
    BY <1>9, <1>1, <2>1, StayType, Places DEF HostNews, files, shells, apps
  <2>2. CASE ~(news = <<>> \/ conn = "closed")
    <3>1. Head(news) \in {Snapshot, KickAnnounce} /\ Tail(news) \in Seq({Snapshot, KickAnnounce})
      BY <2>2, Heads
    <3>2. <<Head(news)>> \in Seq(Sound) BY <3>1, <1>3, Words
    <3>3. lane' \in [Sides -> Seq(Sound)] /\ conn' = conn BY <1>9, <1>2, <2>2, <3>2 DEF HostNews
    <3> QED BY <1>9, <2>2, <3>1, <3>3, StayType DEF HostNews, files, shells, apps
  <2> QED BY <2>1, <2>2
<1>10. CASE HostIgnores
  <2>1. lane' \in [Sides -> Seq(Sound)] /\ conn' = conn BY <1>10, <1>2, NoFrames DEF HostIgnores
  <2> QED BY <1>10, <2>1, StayType DEF HostIgnores, files, shells, apps
<1>11. CASE HostControl
  <2>1. /\ <<F("control", "Pong", 0)>> \in Seq(Sound) /\ <<F("control", "Metrics", 0)>> \in Seq(Sound)
        /\ <<>> \in Seq(Sound)
    BY <1>5, <1>6, NoFrames
  <2>2. lane' \in [Sides -> Seq(Sound)] /\ conn' = conn BY <1>11, <1>2, <2>1 DEF HostControl
  <2> QED BY <1>11, <2>2, StayType DEF HostControl, files, shells, apps
<1>12. CASE HostPut
  <2>1. lane' \in [Sides -> Seq(Sound)] /\ conn' = conn BY <1>12, <1>2, NoFrames DEF HostPut
  <2>2. file' \in Seq(0..Items) /\ Len(file') <= Items + 1
    <3>1. file' = <<>> BY <1>12 DEF HostPut
    <3> QED BY <3>1, ServicesAssumption
  <2> QED BY <1>12, <2>1, <2>2, StayType DEF HostPut, shells, apps
<1>13. CASE HostChunk
  <2>1. lane' \in [Sides -> Seq(Sound)] /\ conn' = conn BY <1>13, <1>2, NoFrames DEF HostChunk
  <2>2. Next1("host").n \in 0..Items BY <1>13, <1>4 DEF HostChunk, Serves, Sound
  <2>3. file' \in Seq(0..Items) /\ Len(file') <= Items + 1
    BY <1>13, <2>2, WrittenType DEF HostChunk
  <2> QED BY <1>13, <2>1, <2>3, StayType DEF HostChunk, shells, apps
<1>14. CASE HostDone
  <2>1. <<Next1("host")>> \in Seq(Sound) BY <1>14, <1>3, <1>4 DEF HostDone, Serves
  <2>2. lane' \in [Sides -> Seq(Sound)] /\ conn' = conn BY <1>14, <1>2, <2>1 DEF HostDone
  <2> QED BY <1>14, <2>2, StayType DEF HostDone, shells, apps
<1>15. CASE HostRead
  <2>1. /\ Append(Chunks(file), F("files", "Done", Len(file))) \in Seq(Sound)
        /\ <<F("files", "ListResult", 0)>> \in Seq(Sound)
    BY <1>5, <1>6, ChunksType
  <2>2. lane' \in [Sides -> Seq(Sound)] /\ conn' = conn BY <1>15, <1>2, <2>1 DEF HostRead
  <2> QED BY <1>15, <2>2, StayType DEF HostRead, files, shells, apps
<1>16. CASE HostOpen
  <2>1. lane' \in [Sides -> Seq(Sound)] /\ conn' = conn BY <1>16, <1>2, NoFrames DEF HostOpen, Spawn
  <2>2. shell' = "alive" /\ term' = TRUE /\ termOut' \in Seq(Sound) BY <1>16, NoFrames DEF HostOpen, Spawn
  <2> QED BY <1>16, <2>1, <2>2, StayType DEF HostOpen, files, apps
<1>17. CASE HostInput
  <2>1. lane' \in [Sides -> Seq(Sound)] /\ conn' = conn BY <1>17, <1>2, NoFrames DEF HostInput
  <2>2. got' = got \/ got' \in [Sides -> Seq(1..Items)]
    BY <1>17, <1>1, <1>4, Delivered DEF HostInput, Serves
  <2> QED BY <1>17, <2>1, <2>2, StayType DEF HostInput, files, shells
<1>18. CASE HostOutput
  <2>1. Head(termOut) \in Sound /\ Tail(termOut) \in Seq(Sound) BY <1>18, Heads DEF HostOutput
  <2>2. Append(lane["client"], Head(termOut)) \in Seq(Sound) BY <1>1, <2>1
  <2>3. lane' \in [Sides -> Seq(Sound)] BY <1>18, <2>2 DEF HostOutput
  <2>4. torn' \subseteq Sides BY <1>18, <1>1, TurnsType DEF HostOutput
  <2> QED BY <1>18, <2>1, <2>3, <2>4, StayType DEF HostOutput, files, apps
<1>19. CASE HostDial
  <2>1. <<F("tcp", "DialOk", 0)>> \in Seq(Sound) /\ <<F("tcp", "DialErr", 0)>> \in Seq(Sound)
    BY <1>5, <1>6
  <2>2. CASE HostLeaves(<<F("tcp", "DialErr", 0)>>) BY <2>1, <2>2, HostLeavesType
  <2>3. CASE /\ Take("host", <<F("tcp", "DialOk", 0)>>)
             /\ GoesTo("host", "pipe")
             /\ UNCHANGED <<setting, news, trusted, files, shells, apps, denied>>
    <3>1. lane' \in [Sides -> Seq(Sound)] /\ conn' = conn BY <2>3, <1>2, <2>1
    <3> QED BY <1>1, <2>3, <3>1, StayType, Places DEF files, shells, apps
  <2> QED BY <1>19, <2>2, <2>3 DEF HostDial
<1>20. CASE HostLost \/ HostFails \/ HostMisreads
  BY <1>20, HostLeavesType, NoFrames DEF HostLost, HostFails, HostMisreads
<1> QED BY <1>7, <1>8, <1>9, <1>10, <1>11, <1>12, <1>13, <1>14, <1>15, <1>16, <1>17, <1>18,
           <1>19, <1>20 DEF Host

LEMMA ShellType ==
  ASSUME TypeInv, ShellPrints \/ ShellExits
  PROVE  TypeInv'
<1>1. /\ trusted \in BOOLEAN /\ put \in BOOLEAN /\ term \in BOOLEAN /\ denied \in BOOLEAN
      /\ shell \in {"none", "alive", "dead"} /\ termOut \in Seq(Sound)
      /\ lane \in [Sides -> Seq(Sound)] /\ "host" \in Sides
  BY TypeParts DEF Sides
<1>2. CASE ShellPrints
  <2>1. CASE term
    <3>1. /\ [out EXCEPT !["host"] = @ + 1] \in [Sides -> 0..Items]
          /\ F("terminal", "Output", out["host"] + 1) \in Sound
      BY <1>1, <1>2, NumberedOut DEF ShellPrints
    <3> DEFINE f == F("terminal", "Output", out["host"] + 1)
    <3>2. termOut' = Append(termOut, f) /\ out' = [out EXCEPT !["host"] = @ + 1] /\ shell' = shell
      BY <1>2, <2>1 DEF ShellPrints
    <3> HIDE DEF f
    <3>3. termOut' \in Seq(Sound) BY <1>1, <3>1, <3>2 DEF f
    <3> QED BY <1>1, <1>2, <3>1, <3>2, <3>3, StayType DEF ShellPrints, files
  <2>2. CASE ~term BY <1>1, <1>2, <2>2, StayType DEF ShellPrints, files
  <2> QED BY <2>1, <2>2
<1>3. CASE ShellExits
  <2>1. F("terminal", "Exit", 0) \in Sound BY Words DEF Kinds, Types
  <2>2. termOut' \in Seq(Sound) BY <1>1, <1>3, <2>1 DEF ShellExits
  <2> QED BY <1>1, <1>3, <2>2, StayType DEF ShellExits, files, apps
<1> QED BY <1>2, <1>3

LEMMA ClientType ==
  ASSUME TypeInv, Client \/ ShellTypes \/ Quit
  PROVE  TypeInv'
<1> DEFINE Fixed == /\ trusted \in BOOLEAN /\ put \in BOOLEAN /\ term \in BOOLEAN
                    /\ denied \in BOOLEAN /\ shell \in {"none", "alive", "dead"}
                    /\ termOut \in Seq(Sound) /\ lane \in [Sides -> Seq(Sound)]
                    /\ local \in Seq(0..Items)
<1>0. Fixed BY TypeParts
<1>1. "client" \in Sides BY DEF Sides
<1>2. \A fs \in Seq(Sound) : Take("client", fs) \/ Send("client", fs) =>
        lane' \in [Sides -> Seq(Sound)] /\ conn' = conn
  BY <1>0, <1>1, SendLanes, TakeLanes
<1>3. \A f \in Sound : <<f>> \in Seq(Sound) BY Ones
<1>4. Has("client") => Next1("client") \in Sound BY <1>0, <1>1, Foremost
<1>5. \A p \in Ended : ClientLeaves(p) => TypeInv' BY ClientLeavesType
<1>6. {"ok", "err", "left"} = Ended BY DEF Ended
<1> USE <1>0
<1>7. CASE ClientAck
  <2>1. lane' \in [Sides -> Seq(Sound)] /\ conn' = conn BY <1>7, <1>2, NoFrames DEF ClientAck
  <2> QED BY <1>7, <1>1, <2>1, StayType, Places DEF ClientAck, files, shells, apps
<1>8. CASE ClientRequest
  <2>1. <<Request[cmd]>> \in Seq(Sound) BY <1>3, Requests, TypeParts
  <2>2. lane' \in [Sides -> Seq(Sound)] /\ conn' = conn BY <1>8, <1>2, <2>1 DEF ClientRequest
  <2>3. PICK p \in Points : GoesTo("client", p)
    BY <1>8, Places DEF ClientRequest
  <2>4. local' \in Seq(0..Items)
    <3>1. local' = <<>> \/ local' = local BY <1>8 DEF ClientRequest
    <3>2. <<>> \in Seq(0..Items) /\ local \in Seq(0..Items)
      <4>1. <<>> \in Seq(0..Items) OBVIOUS
      <4> QED BY <4>1, TypeParts
    <3> QED BY <3>1, <3>2
  <2> QED BY <1>8, <1>1, <2>2, <2>3, <2>4, StayType DEF ClientRequest, shells, apps
<1>9. CASE Upload
  <2>1. CASE out["client"] < Items
    <3>1. /\ [out EXCEPT !["client"] = @ + 1] \in [Sides -> 0..Items]
          /\ F("files", "Chunk", out["client"] + 1) \in Sound
      BY <1>1, <2>1, NumberedOut
    <3>2. lane' \in [Sides -> Seq(Sound)] /\ conn' = conn
      BY <1>9, <1>2, <1>3, <2>1, <3>1 DEF Upload
    <3> QED BY <1>9, <2>1, <3>1, <3>2, StayType DEF Upload, files, shells
  <2>2. CASE ~(out["client"] < Items)
    <3>1. F("files", "Done", Items) \in Sound
      BY FrameSound, ServicesAssumption DEF Kinds, Types
    <3>2. lane' \in [Sides -> Seq(Sound)] /\ conn' = conn
      BY <1>9, <1>2, <1>3, <2>2, <3>1 DEF Upload
    <3> QED BY <1>9, <1>1, <2>2, <3>2, StayType, Places DEF Upload, files, shells
  <2> QED BY <2>1, <2>2
<1>10. CASE ClientAnswer
  <2>1. CASE ClientLeaves("ok") BY <2>1, <1>5, <1>6
  <2>2. CASE /\ Take("client", <<>>) /\ GoesTo("client", "pipe")
             /\ UNCHANGED <<setting, news, trusted, files, shells, apps, denied>>
    <3>1. lane' \in [Sides -> Seq(Sound)] /\ conn' = conn BY <2>2, <1>2, NoFrames
    <3> QED BY <1>1, <2>2, <3>1, StayType, Places DEF files, shells, apps
  <2> QED BY <1>10, <2>1, <2>2 DEF ClientAnswer
<1>11. CASE ClientChunk
  <2>1. lane' \in [Sides -> Seq(Sound)] /\ conn' = conn BY <1>11, <1>2, NoFrames DEF ClientChunk
  <2>2. Next1("client").n \in 0..Items BY <1>11, <1>4 DEF ClientChunk, Waits, Sound
  <2>3. local' \in Seq(0..Items) BY <1>11, <2>2 DEF ClientChunk
  <2> QED BY <1>11, <2>1, <2>3, StayType DEF ClientChunk, shells, apps
<1>12. CASE ClientSkips
  <2>1. lane' \in [Sides -> Seq(Sound)] /\ conn' = conn BY <1>12, <1>2, NoFrames DEF ClientSkips
  <2> QED BY <1>12, <2>1, StayType DEF ClientSkips, files, shells, apps
<1>13. CASE ClientBalks \/ ClientLost \/ ClientTimeout \/ Quit
  BY <1>5, <1>6, <1>13 DEF ClientBalks, ClientLost, ClientTimeout, Quit
<1>14. CASE ShellTakes
  <2>1. CASE ClientLeaves("ok") \/ ClientLeaves("left") BY <2>1, <1>5, <1>6
  <2>2. CASE /\ Has("client") /\ Next1("client").type # "Exit"
             /\ Take("client", <<>>)
             /\ got' = IF Next1("client").type = "Output"
                       THEN [got EXCEPT !["client"] = Append(@, Next1("client").n)] ELSE got
             /\ UNCHANGED <<setting, news, trusted, at, files, shells, out, denied>>
    <3>1. lane' \in [Sides -> Seq(Sound)] /\ conn' = conn BY <2>2, <1>2, NoFrames
    <3>2. got' = got \/ got' \in [Sides -> Seq(1..Items)] BY <2>2, <1>1, <1>4, Delivered
    <3> QED BY <2>2, <3>1, <3>2, StayType DEF files, shells
  <2> QED BY <1>14, <2>1, <2>2 DEF ShellTakes
<1>15. CASE ShellTypes
  <2>1. /\ [out EXCEPT !["client"] = @ + 1] \in [Sides -> 0..Items]
        /\ F("terminal", "Input", out["client"] + 1) \in Sound
    BY <1>1, <1>15, NumberedOut DEF ShellTypes
  <2>2. lane' \in [Sides -> Seq(Sound)] /\ conn' = conn BY <1>15, <1>2, <1>3, <2>1 DEF ShellTypes
  <2>3. torn' \subseteq Sides BY <1>15, <1>1, TurnsType DEF ShellTypes
  <2> QED BY <1>15, <2>1, <2>2, <2>3, StayType DEF ShellTypes, files
<1> QED BY <1>7, <1>8, <1>9, <1>10, <1>11, <1>12, <1>13, <1>14, <1>15 DEF Client

LEMMA PipeType ==
  ASSUME TypeInv, NEW s \in Sides, PumpUp(s) \/ AppCloses(s) \/ PumpDown(s) \/ PumpLost(s)
  PROVE  TypeInv'
<1>0. /\ trusted \in BOOLEAN /\ put \in BOOLEAN /\ term \in BOOLEAN /\ denied \in BOOLEAN
      /\ shell \in {"none", "alive", "dead"} /\ termOut \in Seq(Sound)
      /\ lane \in [Sides -> Seq(Sound)]
  BY TypeParts
<1>1. ASSUME NEW fs \in Seq(Sound), PipeEnds(s, fs) PROVE TypeInv'
  BY <1>1, LeaveType DEF PipeEnds, setting, files, shells, apps, Ended
<1>2. CASE PumpUp(s)
  <2>1. /\ [out EXCEPT ![s] = @ + 1] \in [Sides -> 0..Items]
        /\ F("tcp", "Data", out[s] + 1) \in Sound
    BY <1>2, NumberedOut DEF PumpUp
  <2>2. lane' \in [Sides -> Seq(Sound)] /\ conn' = conn
    BY <1>0, <1>2, <2>1, Ones, SendLanes DEF PumpUp
  <2> QED BY <1>0, <1>2, <2>1, <2>2, StayType DEF PumpUp, files, shells
<1>3. CASE AppCloses(s)
  <2>1. <<F("tcp", "Close", 0)>> \in Seq(Sound) BY Words, Ones DEF Kinds, Types
  <2> QED BY <1>1, <1>3, <2>1 DEF AppCloses
<1>4. CASE PumpLost(s) BY <1>1, <1>4, NoFrames DEF PumpLost
<1>5. CASE PumpDown(s)
  <2>1. CASE PipeEnds(s, <<>>) BY <1>1, <2>1, NoFrames
  <2>2. CASE /\ Has(s) /\ Take(s, <<>>)
             /\ got' = IF Next1(s).type = "Data"
                       THEN [got EXCEPT ![s] = Append(@, Next1(s).n)] ELSE got
             /\ UNCHANGED <<setting, news, trusted, at, files, shells, out, denied>>
    <3>1. lane' \in [Sides -> Seq(Sound)] /\ conn' = conn BY <1>0, <2>2, NoFrames, TakeLanes
    <3>2. got' = got \/ got' \in [Sides -> Seq(1..Items)] BY <1>0, <2>2, Foremost, Delivered
    <3> QED BY <1>0, <2>2, <3>1, <3>2, StayType DEF files, shells
  <2> QED BY <1>5, <2>1, <2>2 DEF PumpDown
<1> QED BY <1>2, <1>3, <1>4, <1>5

LEMMA NetworkType ==
  ASSUME TypeInv, Cut \/ Regrant
  PROVE  TypeInv'
<1>0. /\ trusted \in BOOLEAN /\ put \in BOOLEAN /\ term \in BOOLEAN /\ denied \in BOOLEAN
      /\ shell \in {"none", "alive", "dead"} /\ termOut \in Seq(Sound)
      /\ lane \in [Sides -> Seq(Sound)]
  BY TypeParts
<1>1. CASE Cut
  <2>1. lane' \in [Sides -> Seq(Sound)] /\ conn' = "closed" BY <1>0, <1>1, CutLanes
  <2> QED BY <1>0, <1>1, <2>1, StayType DEF Cut, files, shells, apps
<1>2. CASE Regrant BY <1>0, <1>2, StayType DEF Regrant, files, shells, apps
<1> QED BY <1>1, <1>2

LEMMA TypeInvStep == TypeInv /\ [Next]_vars => TypeInv'
<1> SUFFICES ASSUME TypeInv, [Next]_vars PROVE TypeInv' OBVIOUS
<1>1. CASE Next
  BY <1>1, HostType, ShellType, ClientType, PipeType, NetworkType DEF Next
<1>2. CASE UNCHANGED vars
  BY <1>2 DEF vars, setting, files, shells, apps, TypeInv, TypeOK
<1> QED BY <1>1, <1>2

\* Every run of a command keeps its variables within their types: in particular
\* no chunk, line or answer has a number beyond those of the file or the shell,
\* and the host's file never grows past the longer of the two.
THEOREM ServicesTypeCorrect == Spec => []TypeOK
<1>1. TypeInv => TypeOK BY DEF TypeInv
<1> QED BY <1>1, TypeInvInit, TypeInvStep, PTL DEF Spec

-----------------------------------------------------------------------------
(* What a shell writes, on its way to the user.                            *)

LEMMA SameSeq ==
  ASSUME NEW S, NEW q \in Seq(S), NEW p \in Seq(S), Len(q) = Len(p),
         \A i \in 1..Len(q) : q[i] = p[i]
  PROVE  q = p
OBVIOUS

LEMMA JoinsTail ==
  ASSUME NEW S, NEW q \in Seq(S), NEW p \in Seq(S), q # <<>>
  PROVE  q \o p # <<>> /\ Head(q \o p) = Head(q) /\ Tail(q \o p) = Tail(q) \o p
<1>1. /\ q \o p \in Seq(S) /\ Len(q \o p) = Len(q) + Len(p) /\ Len(q) \in Nat \ {0} /\ Len(p) \in Nat
      /\ \A i \in 1..Len(q) : (q \o p)[i] = q[i]
      /\ \A i \in 1..Len(p) : (q \o p)[Len(q) + i] = p[i]
  BY Joins, Heads
<1>2. q \o p # <<>> BY <1>1
<1>3. /\ Head(q) = q[1] /\ Tail(q) \in Seq(S) /\ Len(Tail(q)) = Len(q) - 1
      /\ \A i \in 1..Len(Tail(q)) : Tail(q)[i] = q[i + 1]
  BY Heads
<1> DEFINE r == q \o p
<1> HIDE DEF r
<1>4. r \in Seq(S) /\ r # <<>> BY <1>1, <1>2 DEF r
<1>5. /\ Head(r) = r[1] /\ Tail(r) \in Seq(S) /\ Len(Tail(r)) = Len(r) - 1
      /\ \A i \in 1..Len(Tail(r)) : Tail(r)[i] = r[i + 1]
  BY <1>4, Heads
<1> DEFINE u == Tail(q)
<1> HIDE DEF u
<1>6. u \in Seq(S) BY <1>3 DEF u
<1>7. /\ u \o p \in Seq(S) /\ Len(u \o p) = Len(u) + Len(p)
      /\ \A i \in 1..Len(u) : (u \o p)[i] = u[i]
      /\ \A i \in 1..Len(p) : (u \o p)[Len(u) + i] = p[i]
  BY <1>6, Joins
<1>8. Len(Tail(r)) = Len(u \o p) BY <1>1, <1>3, <1>5, <1>7 DEF r, u
<1>9. ASSUME NEW i \in 1..Len(Tail(r)) PROVE Tail(r)[i] = (u \o p)[i]
  <2>1. Tail(r)[i] = r[i + 1] BY <1>5
  <2>2. CASE i <= Len(u)
    <3>1. i \in 1..Len(u) /\ i + 1 \in 1..Len(q) BY <1>1, <1>3, <2>2 DEF u
    <3>2. r[i + 1] = q[i + 1] /\ (u \o p)[i] = u[i] /\ u[i] = q[i + 1]
      BY <1>1, <1>3, <1>7, <3>1 DEF r, u
    <3> QED BY <2>1, <3>2
  <2>3. CASE ~(i <= Len(u))
    <3> DEFINE j == i - Len(u)
    <3>1. j \in 1..Len(p) /\ i = Len(u) + j /\ i + 1 = Len(q) + j
      BY <1>1, <1>3, <1>7, <1>8, <2>3 DEF u
    <3> HIDE DEF j
    <3>2. r[i + 1] = p[j] /\ (u \o p)[i] = p[j] BY <1>1, <1>7, <3>1 DEF r
    <3> QED BY <2>1, <3>2
  <2> QED BY <2>2, <2>3
<1>10. Tail(r) = u \o p BY <1>5, <1>7, <1>8, <1>9, SameSeq
<1>11. Head(r) = Head(q) BY <1>1, <1>3, <1>5 DEF r
<1> QED BY <1>4, <1>10, <1>11 DEF r, u

\* The first of one sequence becomes the last of the one before it.
LEMMA JoinsMove ==
  ASSUME NEW S, NEW q \in Seq(S), NEW p \in Seq(S), p # <<>>
  PROVE  Append(q, Head(p)) \o Tail(p) = q \o p
<1> DEFINE r == Append(q, Head(p))
           t == Tail(p)
<1>1. /\ Head(p) \in S /\ Head(p) = p[1] /\ t \in Seq(S) /\ Len(t) = Len(p) - 1 /\ Len(p) \in Nat \ {0}
      /\ \A i \in 1..Len(t) : t[i] = p[i + 1]
  BY Heads
<1>2. /\ r \in Seq(S) /\ Len(r) = Len(q) + 1 /\ Len(q) \in Nat /\ r[Len(q) + 1] = Head(p)
      /\ \A i \in 1..Len(q) : r[i] = q[i]
  BY <1>1
<1> HIDE DEF r, t
<1>a. r \in Seq(S) /\ t \in Seq(S) BY <1>1, <1>2
<1>3. /\ r \o t \in Seq(S) /\ Len(r \o t) = Len(r) + Len(t)
      /\ \A i \in 1..Len(r) : (r \o t)[i] = r[i]
      /\ \A i \in 1..Len(t) : (r \o t)[Len(r) + i] = t[i]
  BY <1>a, Joins
<1>4. /\ q \o p \in Seq(S) /\ Len(q \o p) = Len(q) + Len(p)
      /\ \A i \in 1..Len(q) : (q \o p)[i] = q[i]
      /\ \A i \in 1..Len(p) : (q \o p)[Len(q) + i] = p[i]
  BY Joins
<1>5. Len(r \o t) = Len(q \o p) BY <1>1, <1>2, <1>3, <1>4
<1>6. ASSUME NEW i \in 1..Len(r \o t) PROVE (r \o t)[i] = (q \o p)[i]
  <2>1. CASE i <= Len(q)
    <3>1. i \in 1..Len(q) /\ i \in 1..Len(r) BY <1>2, <2>1
    <3> QED BY <1>2, <1>3, <1>4, <3>1
  <2>2. CASE i = Len(q) + 1
    <3>1. i \in 1..Len(r) /\ 1 \in 1..Len(p) BY <1>1, <1>2, <2>2
    <3>2. (r \o t)[i] = p[1] BY <1>1, <1>2, <1>3, <2>2, <3>1
    <3>3. (q \o p)[i] = p[1] BY <1>4, <2>2, <3>1
    <3> QED BY <3>2, <3>3
  <2>3. CASE i > Len(q) + 1
    <3> DEFINE j == i - (Len(q) + 1)
    <3>1. j \in 1..Len(t) /\ i = Len(r) + j /\ j + 1 \in 1..Len(p) /\ i = Len(q) + (j + 1)
      BY <1>1, <1>2, <1>3, <2>3
    <3> HIDE DEF j
    <3>2. (r \o t)[i] = p[j + 1] BY <1>1, <1>3, <3>1
    <3>3. (q \o p)[i] = p[j + 1] BY <1>4, <3>1
    <3> QED BY <3>2, <3>3
  <2>4. i \in Int /\ Len(q) \in Nat BY <1>1, <1>2, <1>3
  <2>5. i <= Len(q) \/ i = Len(q) + 1 \/ i > Len(q) + 1 BY <2>4
  <2> QED BY <2>1, <2>2, <2>3, <2>5
<1>7. r \o t = q \o p BY <1>3, <1>4, <1>5, <1>6, SameSeq
<1> QED BY <1>7 DEF r, t

LEMMA JoinsAppend ==
  ASSUME NEW S, NEW q \in Seq(S), NEW p \in Seq(S), NEW x \in S
  PROVE  q \o Append(p, x) = Append(q \o p, x)
OBVIOUS

LEMMA JoinsNone ==
  ASSUME NEW S, NEW q \in Seq(S)
  PROVE  q \o <<>> = q
OBVIOUS

LEMMA JoinsPrefix ==
  ASSUME NEW S, NEW q \in Seq(S), NEW p \in Seq(S), NEW k \in 0..Len(q)
  PROVE  k \in 0..Len(q \o p) /\ SubSeq(q \o p, 1, k) = SubSeq(q, 1, k)
<1>1. /\ q \o p \in Seq(S) /\ Len(q \o p) = Len(q) + Len(p) /\ Len(q) \in Nat /\ Len(p) \in Nat
      /\ \A i \in 1..Len(q) : (q \o p)[i] = q[i]
  BY Joins
<1>2. k \in 0..Len(q \o p) BY <1>1
<1> DEFINE r == q \o p
<1> HIDE DEF r
<1>3. r \in Seq(S) /\ k \in 0..Len(r) BY <1>1, <1>2 DEF r
<1>4. /\ SubSeq(r, 1, k) \in Seq(S) /\ Len(SubSeq(r, 1, k)) = k
      /\ \A i \in 1..k : SubSeq(r, 1, k)[i] = r[i]
  BY <1>3, Starts
<1>5. /\ SubSeq(q, 1, k) \in Seq(S) /\ Len(SubSeq(q, 1, k)) = k
      /\ \A i \in 1..k : i \in 1..Len(q) /\ SubSeq(q, 1, k)[i] = q[i]
  BY Starts
<1>6. \A i \in 1..k : SubSeq(r, 1, k)[i] = SubSeq(q, 1, k)[i] BY <1>1, <1>4, <1>5 DEF r
<1>7. SubSeq(r, 1, k) = SubSeq(q, 1, k) BY <1>4, <1>5, <1>6, SameSeq
<1> QED BY <1>2, <1>7 DEF r

\* q begins with c frames that are not the shell's; from there on it holds the
\* shell's lines from the one after g on, each once and in order, and its exit,
\* which is the last of n.  As long as the connection is open none is missing.
Stream(q, c, g, n, sh, cn) ==
  /\ c \in 0..Len(q)
  /\ \A i \in 1..c : q[i].type \notin {"Output", "Exit"}
  /\ \A i \in c + 1..Len(q) :
       \/ q[i].type = "Output" /\ q[i].n = g + i - c /\ g + i - c <= n
       \/ q[i].type = "Exit" /\ g + i - c = n + 1 /\ sh = "dead"
  /\ (cn = "open" /\ sh # "none") => Len(q) + g = c + n + (IF sh = "dead" THEN 1 ELSE 0)
  /\ sh = "none" => c = Len(q)

LEMMA StreamSkips ==
  ASSUME NEW q \in Seq(Sound), q # <<>>, NEW c, NEW g \in Nat, NEW n \in Nat, NEW sh, NEW cn,
         Stream(q, c, g, n, sh, cn), Head(q).type \notin {"Output", "Exit"}
  PROVE  Stream(Tail(q), c - 1, g, n, sh, cn)
<1>1. /\ Head(q) = q[1] /\ Len(q) \in Nat \ {0} /\ Len(Tail(q)) = Len(q) - 1
      /\ \A i \in 1..Len(Tail(q)) : i + 1 \in 1..Len(q) /\ Tail(q)[i] = q[i + 1]
  BY Heads
<1>2. c \in 0..Len(q) BY DEF Stream
<1>3. c # 0
  <2>1. ASSUME c = 0 PROVE FALSE
    <3>1. 1 \in c + 1..Len(q) BY <1>1, <2>1
    <3> QED BY <1>1, <3>1 DEF Stream
  <2> QED BY <2>1
<1> DEFINE r == Tail(q)
<1> HIDE DEF r
<1>4. c - 1 \in 0..Len(r) BY <1>1, <1>2, <1>3 DEF r
<1>5. ASSUME NEW i \in 1..c - 1 PROVE r[i].type \notin {"Output", "Exit"}
  <2>1. i \in 1..Len(r) /\ i + 1 \in 1..c BY <1>1, <1>2, <1>3 DEF r
  <2> QED BY <1>1, <2>1 DEF r, Stream
<1>6. ASSUME NEW i \in (c - 1) + 1..Len(r)
      PROVE  \/ r[i].type = "Output" /\ r[i].n = g + i - (c - 1) /\ g + i - (c - 1) <= n
             \/ r[i].type = "Exit" /\ g + i - (c - 1) = n + 1 /\ sh = "dead"
  <2>1. i \in 1..Len(r) /\ i + 1 \in c + 1..Len(q) /\ i \in Int BY <1>1, <1>2, <1>3 DEF r
  <2>2. r[i] = q[i + 1] BY <1>1, <2>1 DEF r
  <2>3. g + (i + 1) - c = g + i - (c - 1) BY <1>2, <2>1
  <2>4. \/ q[i + 1].type = "Output" /\ q[i + 1].n = g + (i + 1) - c /\ g + (i + 1) - c <= n
        \/ q[i + 1].type = "Exit" /\ g + (i + 1) - c = n + 1 /\ sh = "dead"
    BY <2>1 DEF Stream
  <2> QED BY <2>2, <2>3, <2>4
<1>7. (cn = "open" /\ sh # "none") => Len(r) + g = (c - 1) + n + (IF sh = "dead" THEN 1 ELSE 0)
  <2>1. SUFFICES ASSUME cn = "open", sh # "none"
                 PROVE  Len(r) + g = (c - 1) + n + (IF sh = "dead" THEN 1 ELSE 0)
    OBVIOUS
  <2>2. Len(q) + g = c + n + (IF sh = "dead" THEN 1 ELSE 0) BY <2>1 DEF Stream
  <2> QED BY <1>1, <1>2, <2>2 DEF r
<1>8. sh = "none" => c - 1 = Len(r) BY <1>1 DEF r, Stream
<1>9. Stream(r, c - 1, g, n, sh, cn) BY <1>4, <1>5, <1>6, <1>7, <1>8 DEF Stream
<1> QED BY <1>9 DEF r

\* The user is shown the next line.
LEMMA StreamReads ==
  ASSUME NEW q \in Seq(Sound), q # <<>>, NEW c, NEW g \in Nat, NEW n \in Nat, NEW sh, NEW cn,
         Stream(q, c, g, n, sh, cn), Head(q).type = "Output"
  PROVE  Head(q).n = g + 1 /\ Stream(Tail(q), 0, g + 1, n, sh, cn)
<1>1. /\ Head(q) = q[1] /\ Len(q) \in Nat \ {0} /\ Len(Tail(q)) = Len(q) - 1
      /\ \A i \in 1..Len(Tail(q)) : i + 1 \in 1..Len(q) /\ Tail(q)[i] = q[i + 1]
  BY Heads
<1>2. c = 0
  <2>1. c \in 0..Len(q) BY DEF Stream
  <2>2. ASSUME c # 0 PROVE FALSE
    <3>1. 1 \in 1..c BY <2>1, <2>2
    <3> QED BY <1>1, <3>1 DEF Stream
  <2> QED BY <2>2
<1>3. 1 \in c + 1..Len(q) BY <1>1, <1>2
<1>4. Head(q).n = g + 1
  <2>1. q[1].n = g + 1 - c BY <1>1, <1>3 DEF Stream
  <2> QED BY <1>1, <1>2, <2>1
<1> DEFINE r == Tail(q)
<1> HIDE DEF r
<1>5. 0 \in 0..Len(r) /\ \A i \in 1..0 : r[i].type \notin {"Output", "Exit"} BY <1>1 DEF r
<1>6. ASSUME NEW i \in 0 + 1..Len(r)
      PROVE  \/ r[i].type = "Output" /\ r[i].n = (g + 1) + i - 0 /\ (g + 1) + i - 0 <= n
             \/ r[i].type = "Exit" /\ (g + 1) + i - 0 = n + 1 /\ sh = "dead"
  <2>1. i \in 1..Len(r) /\ i + 1 \in c + 1..Len(q) /\ i \in Int BY <1>1, <1>2 DEF r
  <2>2. r[i] = q[i + 1] BY <1>1, <2>1 DEF r
  <2>3. g + (i + 1) - c = (g + 1) + i - 0 BY <1>2, <2>1
  <2>4. \/ q[i + 1].type = "Output" /\ q[i + 1].n = g + (i + 1) - c /\ g + (i + 1) - c <= n
        \/ q[i + 1].type = "Exit" /\ g + (i + 1) - c = n + 1 /\ sh = "dead"
    BY <2>1 DEF Stream
  <2> QED BY <2>2, <2>3, <2>4
<1>7. (cn = "open" /\ sh # "none") => Len(r) + (g + 1) = 0 + n + (IF sh = "dead" THEN 1 ELSE 0)
  <2>1. SUFFICES ASSUME cn = "open", sh # "none"
                 PROVE  Len(r) + (g + 1) = 0 + n + (IF sh = "dead" THEN 1 ELSE 0)
    OBVIOUS
  <2>2. Len(q) + g = c + n + (IF sh = "dead" THEN 1 ELSE 0) BY <2>1 DEF Stream
  <2> QED BY <1>1, <1>2, <2>2 DEF r
<1>8. sh # "none" BY <1>1, <1>2 DEF Stream
<1>9. Stream(r, 0, g + 1, n, sh, cn) BY <1>5, <1>6, <1>7, <1>8 DEF Stream
<1> QED BY <1>4, <1>9 DEF r

\* The exit comes after the last line.
LEMMA StreamEnds ==
  ASSUME NEW q \in Seq(Sound), q # <<>>, NEW c, NEW g \in Nat, NEW n \in Nat, NEW sh, NEW cn,
         Stream(q, c, g, n, sh, cn), Head(q).type = "Exit"
  PROVE  g = n /\ sh = "dead"
<1>1. Head(q) = q[1] /\ Len(q) \in Nat \ {0} BY Heads
<1>2. c = 0
  <2>1. c \in 0..Len(q) BY DEF Stream
  <2>2. ASSUME c # 0 PROVE FALSE
    <3>1. 1 \in 1..c BY <2>1, <2>2
    <3> QED BY <1>1, <3>1 DEF Stream
  <2> QED BY <2>2
<1>3. 1 \in c + 1..Len(q) BY <1>1, <1>2
<1>4. g + 1 - c = n + 1 /\ sh = "dead" BY <1>1, <1>3 DEF Stream
<1> QED BY <1>2, <1>4

\* What is lost is lost from the end.
LEMMA StreamCut ==
  ASSUME NEW q \in Seq(Sound), NEW c, NEW g \in Nat, NEW n \in Nat, NEW sh, NEW cn,
         Stream(q, c, g, n, sh, cn), NEW k \in 0..Len(q)
  PROVE  Stream(SubSeq(q, 1, k), IF c < k THEN c ELSE k, g, n, sh, "closed")
<1> DEFINE r == SubSeq(q, 1, k)
           d == IF c < k THEN c ELSE k
<1>1. Len(r) = k /\ \A i \in 1..k : i \in 1..Len(q) /\ r[i] = q[i] BY Starts
<1>2. c \in 0..Len(q) /\ Len(q) \in Nat /\ k \in Nat BY DEF Stream
<1>3. d \in 0..k /\ d <= c /\ (d # k => d = c) BY <1>2
<1> HIDE DEF r, d
<1>4. ASSUME NEW i \in 1..d PROVE r[i].type \notin {"Output", "Exit"}
  <2>1. i \in 1..k /\ i \in 1..c BY <1>2, <1>3
  <2> QED BY <1>1, <2>1 DEF Stream
<1>5. ASSUME NEW i \in d + 1..Len(r)
      PROVE  \/ r[i].type = "Output" /\ r[i].n = g + i - d /\ g + i - d <= n
             \/ r[i].type = "Exit" /\ g + i - d = n + 1 /\ sh = "dead"
  <2>1. d = c /\ i \in 1..k /\ i \in c + 1..Len(q) BY <1>1, <1>2, <1>3
  <2>2. r[i] = q[i] BY <1>1, <2>1
  <2>3. \/ q[i].type = "Output" /\ q[i].n = g + i - c /\ g + i - c <= n
        \/ q[i].type = "Exit" /\ g + i - c = n + 1 /\ sh = "dead"
    BY <2>1 DEF Stream
  <2> QED BY <2>1, <2>2, <2>3
<1>6. sh = "none" => d = Len(r)
  <2>1. sh = "none" => c = Len(q) BY DEF Stream
  <2> QED BY <1>1, <1>2, <2>1 DEF d
<1>7. d \in 0..Len(r) BY <1>1, <1>3
<1>8. Stream(r, d, g, n, sh, "closed") BY <1>4, <1>5, <1>6, <1>7 DEF Stream
<1> QED BY <1>8 DEF r, d

\* Before there is a shell, a frame of the session is one of those before it.
LEMMA StreamGrows ==
  ASSUME NEW q \in Seq(Sound), NEW c, NEW g \in Nat, NEW n \in Nat, NEW cn,
         Stream(q, c, g, n, "none", cn), NEW f \in Sound, f.type \notin {"Output", "Exit"}
  PROVE  Stream(Append(q, f), c + 1, g, n, "none", cn)
<1> DEFINE r == Append(q, f)
<1>1. /\ Len(q) \in Nat /\ Len(r) = Len(q) + 1 /\ r[Len(q) + 1] = f
      /\ \A i \in 1..Len(q) : r[i] = q[i]
  OBVIOUS
<1> HIDE DEF r
<1>2. c = Len(q) /\ \A i \in 1..c : q[i].type \notin {"Output", "Exit"} BY DEF Stream
<1>3. ASSUME NEW i \in 1..c + 1 PROVE r[i].type \notin {"Output", "Exit"}
  <2>1. i \in 1..c \/ i = c + 1 BY <1>1, <1>2
  <2> QED BY <1>1, <1>2, <2>1
<1>4. c + 1 \in 0..Len(r) /\ c + 1 = Len(r) BY <1>1, <1>2
<1>5. \A i \in (c + 1) + 1..Len(r) : FALSE BY <1>1, <1>4
<1>6. Stream(r, c + 1, g, n, "none", cn) BY <1>3, <1>4, <1>5 DEF Stream
<1> QED BY <1>6 DEF r

\* The shell starts, and has written nothing.
LEMMA StreamStarts ==
  ASSUME NEW q \in Seq(Sound), NEW c, NEW cn, Stream(q, c, 0, 0, "none", cn)
  PROVE  Stream(q, c, 0, 0, "alive", cn)
<1>1. Len(q) \in Nat /\ c = Len(q) /\ \A i \in 1..c : q[i].type \notin {"Output", "Exit"}
  BY DEF Stream
<1>2. c \in 0..Len(q) /\ \A i \in c + 1..Len(q) : FALSE BY <1>1
<1>3. Len(q) + 0 = c + 0 + (IF "alive" = "dead" THEN 1 ELSE 0) BY <1>1
<1> QED BY <1>1, <1>2, <1>3 DEF Stream

\* The shell writes a line, or exits, on an open connection.
LEMMA StreamWrites ==
  ASSUME NEW q \in Seq(Sound), NEW c, NEW g \in Nat, NEW n \in Nat,
         Stream(q, c, g, n, "alive", "open"), NEW f \in Sound
  PROVE  /\ f.type = "Output" /\ f.n = n + 1 => Stream(Append(q, f), c, g, n + 1, "alive", "open")
         /\ f.type = "Exit" => Stream(Append(q, f), c, g, n, "dead", "open")
<1> DEFINE r == Append(q, f)
<1>1. /\ Len(q) \in Nat /\ Len(r) = Len(q) + 1 /\ r[Len(q) + 1] = f
      /\ \A i \in 1..Len(q) : r[i] = q[i]
  OBVIOUS
<1> HIDE DEF r
<1>2. c \in 0..Len(q) /\ Len(q) + g = c + n BY DEF Stream
<1>3. c \in 0..Len(r) BY <1>1, <1>2
<1>4. ASSUME NEW i \in 1..c PROVE r[i].type \notin {"Output", "Exit"}
  <2>1. i \in 1..Len(q) BY <1>1, <1>2
  <2> QED BY <1>1, <2>1 DEF Stream
<1>5. ASSUME NEW i \in c + 1..Len(q)
      PROVE  r[i].type = "Output" /\ r[i].n = g + i - c /\ g + i - c <= n
  <2>1. i \in 1..Len(q) BY <1>1, <1>2
  <2>2. r[i] = q[i] BY <1>1, <2>1
  <2> QED BY <2>2 DEF Stream
<1>6. \A i \in c + 1..Len(r) : i \in c + 1..Len(q) \/ i = Len(q) + 1 BY <1>1, <1>2
<1>7. g + (Len(q) + 1) - c = n + 1 BY <1>1, <1>2
<1>8. ASSUME f.type = "Output", f.n = n + 1 PROVE Stream(r, c, g, n + 1, "alive", "open")
  <2>1. ASSUME NEW i \in c + 1..Len(r)
        PROVE  r[i].type = "Output" /\ r[i].n = g + i - c /\ g + i - c <= n + 1
    <3>1. CASE i \in c + 1..Len(q)
      <4>1. i \in Int BY <3>1
      <4> QED BY <1>2, <1>5, <3>1, <4>1
    <3>2. CASE i = Len(q) + 1 BY <1>1, <1>7, <1>8, <3>2
    <3> QED BY <1>6, <3>1, <3>2
  <2>2. Len(r) + g = c + (n + 1) + (IF "alive" = "dead" THEN 1 ELSE 0) BY <1>1, <1>2
  <2> QED BY <1>3, <1>4, <2>1, <2>2 DEF Stream
<1>9. ASSUME f.type = "Exit" PROVE Stream(r, c, g, n, "dead", "open")
  <2>1. ASSUME NEW i \in c + 1..Len(r)
        PROVE  \/ r[i].type = "Output" /\ r[i].n = g + i - c /\ g + i - c <= n
               \/ r[i].type = "Exit" /\ g + i - c = n + 1
    <3>1. CASE i \in c + 1..Len(q) BY <1>5, <3>1
    <3>2. CASE i = Len(q) + 1 BY <1>1, <1>7, <1>9, <3>2
    <3> QED BY <1>6, <3>1, <3>2
  <2>2. Len(r) + g = c + n + (IF "dead" = "dead" THEN 1 ELSE 0) BY <1>1, <1>2
  <2> QED BY <1>3, <1>4, <2>1, <2>2 DEF Stream
<1> QED BY <1>8, <1>9 DEF r

\* What a shell does once the connection is closed reaches nobody.
LEMMA StreamLate ==
  ASSUME NEW q \in Seq(Sound), NEW c, NEW g \in Nat, NEW n \in Nat,
         Stream(q, c, g, n, "alive", "closed")
  PROVE  /\ Stream(q, c, g, n + 1, "alive", "closed")
         /\ Stream(q, c, g, n, "dead", "closed")
<1>1. c \in 0..Len(q) /\ \A i \in 1..c : q[i].type \notin {"Output", "Exit"} BY DEF Stream
<1>2. ASSUME NEW i \in c + 1..Len(q)
      PROVE  q[i].type = "Output" /\ q[i].n = g + i - c /\ g + i - c <= n /\ g + i - c <= n + 1
  <2>1. q[i].type = "Output" /\ q[i].n = g + i - c /\ g + i - c <= n BY DEF Stream
  <2>2. i \in Int /\ c \in Int BY <1>1
  <2> QED BY <2>1, <2>2
<1> QED BY <1>1, <1>2 DEF Stream

LEMMA StreamNone ==
  ASSUME NEW g \in Nat, NEW n \in Nat, NEW sh
  PROVE  Stream(<<>>, 0, g, n, sh, "closed")
<1>1. Len(<<>>) = 0 OBVIOUS
<1>2. 0 \in 0..0 /\ \A i \in 1..0 : FALSE OBVIOUS
<1>3. \A i \in 0 + 1..0 : FALSE OBVIOUS
<1> QED BY <1>1, <1>2, <1>3 DEF Stream

LEMMA StreamDead ==
  ASSUME NEW q \in Seq(Sound), NEW c, NEW g \in Nat, NEW n \in Nat, NEW sh, NEW cn,
         Stream(q, c, g, n, sh, cn), NEW i \in 1..Len(q), q[i].type = "Exit"
  PROVE  sh = "dead"
<1>1. c \in 0..Len(q) /\ Len(q) \in Nat BY DEF Stream
<1>2. i \in 1..c \/ i \in c + 1..Len(q) BY <1>1
<1> QED BY <1>2 DEF Stream

\* What is on its way to the host of a shell: one Open, and none once there is
\* a shell or before the client has asked for it.
Asks(q, sh, p) ==
  /\ \A i \in 1..Len(q) : q[i].type \in {"Hello", "Open", "Input"}
  /\ \A i \in 1..Len(q) : q[i].type = "Open" =>
       /\ sh = "none" /\ p \notin {"ack", "request"}
       /\ \A j \in 1..Len(q) : q[j].type = "Open" => j = i

LEMMA AsksTail ==
  ASSUME NEW q \in Seq(Sound), q # <<>>, NEW sh, NEW p, Asks(q, sh, p)
  PROVE  /\ Head(q).type \in {"Hello", "Open", "Input"} /\ Asks(Tail(q), sh, p)
         /\ Head(q).type = "Open" =>
              sh = "none" /\ p \notin {"ack", "request"} /\ \A s2 : Asks(Tail(q), s2, p)
<1> DEFINE r == Tail(q)
<1>1. /\ Head(q) = q[1] /\ 1 \in 1..Len(q) /\ Len(q) \in Nat
      /\ \A i \in 1..Len(r) : i + 1 \in 1..Len(q) /\ i \in Int /\ r[i] = q[i + 1]
  BY Heads
<1> HIDE DEF r
<1>2. \A i \in 1..Len(r) : r[i].type \in {"Hello", "Open", "Input"} BY <1>1 DEF Asks
<1>3. ASSUME NEW i \in 1..Len(r), r[i].type = "Open"
      PROVE  /\ sh = "none" /\ p \notin {"ack", "request"} /\ Head(q).type # "Open"
             /\ \A j \in 1..Len(r) : r[j].type = "Open" => j = i
  <2>1. q[i + 1].type = "Open" /\ i + 1 \in 1..Len(q) /\ i + 1 # 1 BY <1>1, <1>3
  <2>2. \A j \in 1..Len(q) : q[j].type = "Open" => j = i + 1 BY <2>1 DEF Asks
  <2>3. ASSUME NEW j \in 1..Len(r), r[j].type = "Open" PROVE j = i
    <3>1. j + 1 = i + 1 BY <1>1, <2>2, <2>3
    <3> QED BY <1>1, <3>1
  <2> QED BY <1>1, <2>1, <2>2, <2>3 DEF Asks
<1>4. Asks(r, sh, p) BY <1>2, <1>3 DEF Asks
<1>5. ASSUME Head(q).type = "Open" PROVE sh = "none" /\ p \notin {"ack", "request"}
  BY <1>1, <1>5 DEF Asks
<1>6. ASSUME Head(q).type = "Open", NEW s2 PROVE Asks(r, s2, p)
  BY <1>2, <1>3, <1>6 DEF Asks
<1>7. Head(q).type \in {"Hello", "Open", "Input"} BY <1>1 DEF Asks
<1> QED BY <1>4, <1>5, <1>6, <1>7 DEF r

LEMMA AsksCut ==
  ASSUME NEW q \in Seq(Sound), NEW sh, NEW p, Asks(q, sh, p), NEW k \in 0..Len(q)
  PROVE  Asks(SubSeq(q, 1, k), sh, p)
<1> DEFINE r == SubSeq(q, 1, k)
<1>1. Len(r) = k /\ \A i \in 1..k : i \in 1..Len(q) /\ r[i] = q[i] BY Starts
<1> HIDE DEF r
<1>2. Asks(r, sh, p) BY <1>1 DEF Asks
<1> QED BY <1>2 DEF r

LEMMA AsksGrows ==
  ASSUME NEW q \in Seq(Sound), NEW sh, NEW p, NEW p2, Asks(q, sh, p), NEW f \in Sound,
         p2 \notin {"ack", "request"},
         \/ f.type = "Input"
         \/ f.type = "Open" /\ sh = "none" /\ p \in {"ack", "request"}
  PROVE  Asks(q \o <<f>>, sh, p2)
<1> DEFINE r == q \o <<f>>
<1>1. /\ Len(q) \in Nat /\ Len(r) = Len(q) + 1 /\ r[Len(q) + 1] = f
      /\ \A i \in 1..Len(q) : r[i] = q[i]
  OBVIOUS
<1> HIDE DEF r
<1>2. \A i \in 1..Len(r) : i \in 1..Len(q) \/ i = Len(q) + 1 BY <1>1
<1>3. Asks(r, sh, p2) BY <1>1, <1>2 DEF Asks
<1> QED BY <1>3 DEF r

LEMMA AsksNone == ASSUME NEW sh, NEW p PROVE Asks(<<>>, sh, p)
<1>1. \A i \in 1..Len(<<>>) : FALSE OBVIOUS
<1> QED BY <1>1 DEF Asks

\* The frames that will reach the client if nothing is lost any more.
Coming == IF conn = "open" THEN lane["client"] \o termOut ELSE lane["client"]

Sitting ==
  /\ at["host"] \in {"accept", "hello", "news", "loop", "err"}
  /\ at["client"] \in {"ack", "request", "pipe"} \cup Ended
  /\ at["host"] \in {"accept", "hello", "news"} => shell = "none"
  /\ at["client"] \in {"ack", "request"} => shell = "none"
  /\ shell = "none" => out["host"] = 0 /\ got["client"] = <<>> /\ termOut = <<>> /\ ~term
  /\ at["host"] = "err" => ~term /\ termOut = <<>> /\ conn = "closed"
  /\ at["client"] \in Ended => conn = "closed"
  /\ (conn = "open" /\ shell = "alive") => term

Told ==
  /\ got["client"] = [i \in 1..Len(got["client"]) |-> i]
  /\ at["client"] = "ok" => shell = "dead" /\ Len(got["client"]) = out["host"]

Flow == \E c : Stream(Coming, c, Len(got["client"]), out["host"], shell, conn)

ShellInv ==
  cmd = "shell" => Sitting /\ Told /\ Flow /\ Asks(lane["host"], shell, at["client"])

LEMMA ShellInvInit == Init => ShellInv
<1> SUFFICES ASSUME Init, cmd = "shell"
             PROVE  Sitting /\ Told /\ Flow /\ Asks(lane["host"], shell, at["client"])
  BY DEF ShellInv
<1>1. /\ at["host"] = "accept" /\ at["client"] = "ack" /\ conn = "open" /\ shell = "none"
      /\ out["host"] = 0 /\ got["client"] = <<>> /\ termOut = <<>> /\ term = FALSE
      /\ lane["client"] = <<>> /\ lane["host"] = <<F("control", "Hello", 0)>>
  BY DEF Init, Sides
<1>2. Sitting BY <1>1 DEF Sitting, Ended
<1>3. <<>> = [i \in 1..0 |-> i] /\ Len(<<>>) = 0 OBVIOUS
<1>4. Told BY <1>1, <1>3 DEF Told
<1>5. Coming = <<>> BY <1>1 DEF Coming
<1>6. Stream(<<>>, 0, 0, 0, "none", "open")
  <2>1. 0 \in 0..0 /\ (\A i \in 1..0 : FALSE) /\ (\A i \in 0 + 1..0 : FALSE) OBVIOUS
  <2> QED BY <1>3, <2>1 DEF Stream
<1>7. Flow BY <1>1, <1>3, <1>5, <1>6 DEF Flow
<1>8. Asks(lane["host"], shell, at["client"])
  <2>1. Len(lane["host"]) = 1 /\ lane["host"][1].type = "Hello" BY <1>1 DEF F
  <2> QED BY <2>1 DEF Asks
<1> QED BY <1>2, <1>4, <1>7, <1>8

LEMMA AsksMoves ==
  ASSUME NEW q \in Seq(Sound), NEW sh, NEW p, Asks(q, sh, p), NEW s2, NEW p2,
         p2 \notin {"ack", "request"} \/ p \in {"ack", "request"}, s2 = sh \/ sh # "none"
  PROVE  Asks(q, s2, p2)
BY DEF Asks

LEMMA ComingType ==
  ASSUME TypeInv
  PROVE  /\ lane["client"] \in Seq(Sound) /\ lane["host"] \in Seq(Sound) /\ termOut \in Seq(Sound)
         /\ Coming \in Seq(Sound) /\ out["host"] \in Nat /\ Len(got["client"]) \in Nat
         /\ got["client"] \in Seq(1..Items) /\ "client" \in DOMAIN got /\ "host" \in DOMAIN out
         /\ "client" \in DOMAIN at /\ "host" \in DOMAIN at /\ conn \in {"open", "closed"}
         /\ "client" \in Sides /\ "host" \in Sides /\ Peer("client") = "host" /\ Peer("host") = "client"
<1>1. /\ lane \in [Sides -> Seq(Sound)] /\ termOut \in Seq(Sound) /\ out \in [Sides -> 0..Items]
      /\ got \in [Sides -> Seq(1..Items)] /\ at \in [Sides -> Points] /\ conn \in {"open", "closed"}
  BY TypeParts
<1>2. "client" \in Sides /\ "host" \in Sides /\ Peer("client") = "host" /\ Peer("host") = "client"
  BY DEF Sides, Peer
<1>3. lane["client"] \o termOut \in Seq(Sound) BY <1>1, <1>2, Joins
<1>4. Coming \in Seq(Sound) BY <1>1, <1>2, <1>3 DEF Coming
<1>5. Len(got["client"]) \in Nat BY <1>1, <1>2, Elements
<1>6. out["host"] \in Nat BY <1>1, <1>2, ServicesAssumption
<1> QED BY <1>1, <1>2, <1>4, <1>5, <1>6

\* The host's session ends.
LEMMA ShellLeaves ==
  ASSUME TypeInv, ShellInv, HostLeaves(<<>>)
  PROVE  ShellInv'
<1> SUFFICES ASSUME cmd = "shell", cmd' = "shell"
             PROVE  (Sitting /\ Told /\ Flow /\ Asks(lane["host"], shell, at["client"]))'
  BY DEF ShellInv, HostLeaves, setting
<1>1. Sitting /\ Told /\ Flow /\ Asks(lane["host"], shell, at["client"]) BY DEF ShellInv
<1>2. /\ at' = [at EXCEPT !["host"] = "err"] /\ conn' = "closed" /\ term' = FALSE /\ termOut' = <<>>
      /\ shell' = shell /\ out' = out /\ got' = got
  BY DEF HostLeaves, Leave, GoesTo, apps
<1>3. at'["host"] = "err" /\ at'["client"] = at["client"] BY <1>2, ComingType
<1>4. PICK k \in 0..Len(lane["client"] \o <<>>) :
        /\ lane'["host"] = <<>>
        /\ lane'["client"] = IF conn = "open" THEN SubSeq(lane["client"] \o <<>>, 1, k)
                                              ELSE lane["client"]
  <2>1. lane \in [Sides -> Seq(Sound)] /\ Leave("host", "err", <<>>) BY TypeParts DEF HostLeaves
  <2>2. "host" \in Sides /\ <<>> \in Seq(Sound) BY ComingType, NoFrames
  <2>3. /\ lane'["host"] = <<>>
        /\ \E k \in 0..Len(lane[Peer("host")] \o <<>>) :
             lane'[Peer("host")] = IF conn = "open" THEN SubSeq(lane[Peer("host")] \o <<>>, 1, k)
                                                     ELSE lane[Peer("host")]
    BY <2>1, <2>2, LeaveLanes
  <2> QED BY <2>3, ComingType
<1>5. lane["client"] \o <<>> = lane["client"] BY ComingType, JoinsNone
<1>6. Sitting' BY <1>1, <1>2, <1>3 DEF Sitting, Ended
<1>7. Told' BY <1>1, <1>2, <1>3 DEF Told
<1>8. Asks(lane["host"], shell, at["client"])' BY <1>4, AsksNone
<1>9. Flow'
  <2>1. PICK c : Stream(Coming, c, Len(got["client"]), out["host"], shell, conn) BY <1>1 DEF Flow
  <2>2. Coming' = lane'["client"] BY <1>2 DEF Coming
  <2>3. CASE conn = "open"
    <3>1. k \in 0..Len(lane["client"]) /\ lane'["client"] = SubSeq(lane["client"], 1, k)
      BY <1>4, <1>5, <2>3
    <3>2. k \in 0..Len(Coming) /\ lane'["client"] = SubSeq(Coming, 1, k)
      BY <2>3, <3>1, ComingType, JoinsPrefix DEF Coming
    <3>3. \E d : Stream(lane'["client"], d, Len(got["client"]), out["host"], shell, "closed")
      BY <2>1, <3>2, ComingType, StreamCut
    <3> QED BY <1>2, <2>2, <3>3 DEF Flow
  <2>4. CASE conn # "open"
    <3>1. conn = "closed" /\ Coming' = Coming BY <1>4, <2>2, <2>4, ComingType DEF Coming
    <3> QED BY <1>2, <2>1, <3>1 DEF Flow
  <2> QED BY <2>3, <2>4
<1> QED BY <1>6, <1>7, <1>8, <1>9

\* The command ends.
LEMMA ShellGone ==
  ASSUME TypeInv, ShellInv, NEW p \in Ended, ClientLeaves(p),
         (cmd = "shell" /\ p = "ok") => shell = "dead" /\ Len(got["client"]) = out["host"]
  PROVE  ShellInv'
<1> SUFFICES ASSUME cmd = "shell", cmd' = "shell"
             PROVE  (Sitting /\ Told /\ Flow /\ Asks(lane["host"], shell, at["client"]))'
  BY DEF ShellInv, ClientLeaves, setting
<1>1. Sitting /\ Told /\ Flow /\ Asks(lane["host"], shell, at["client"]) BY DEF ShellInv
<1>2. /\ at' = [at EXCEPT !["client"] = p] /\ conn' = "closed"
      /\ shell' = shell /\ term' = term /\ termOut' = termOut /\ out' = out /\ got' = got
  BY DEF ClientLeaves, Leave, GoesTo, apps, shells
<1>3. at'["client"] = p /\ at'["host"] = at["host"] BY <1>2, ComingType
<1>4. PICK k \in 0..Len(lane["host"] \o <<>>) :
        /\ lane'["client"] = <<>>
        /\ lane'["host"] = IF conn = "open" THEN SubSeq(lane["host"] \o <<>>, 1, k)
                                            ELSE lane["host"]
  <2>1. lane \in [Sides -> Seq(Sound)] /\ Leave("client", p, <<>>) BY TypeParts DEF ClientLeaves
  <2>2. "client" \in Sides /\ <<>> \in Seq(Sound) BY ComingType, NoFrames
  <2>3. /\ lane'["client"] = <<>>
        /\ \E k \in 0..Len(lane[Peer("client")] \o <<>>) :
             lane'[Peer("client")] = IF conn = "open" THEN SubSeq(lane[Peer("client")] \o <<>>, 1, k)
                                                     ELSE lane[Peer("client")]
    BY <2>1, <2>2, LeaveLanes
  <2> QED BY <2>3, ComingType
<1>5. lane["host"] \o <<>> = lane["host"] BY ComingType, JoinsNone
<1>6. Sitting' BY <1>1, <1>2, <1>3 DEF Sitting, Ended
<1>7. Told' BY <1>1, <1>2, <1>3 DEF Told
<1>8. Asks(lane["host"], shell, at["client"])'
  <2>1. p \notin {"ack", "request"} BY DEF Ended
  <2>2. Asks(lane["host"], shell, p) BY <1>1, <2>1, ComingType, AsksMoves
  <2>3. Asks(lane'["host"], shell, p) BY <1>4, <1>5, <2>2, ComingType, AsksCut
  <2> QED BY <1>2, <1>3, <2>3
<1>9. Flow'
  <2>1. Coming' = <<>> BY <1>2, <1>4 DEF Coming
  <2>2. Stream(<<>>, 0, Len(got["client"]), out["host"], shell, "closed")
    BY ComingType, StreamNone
  <2> QED BY <1>2, <2>1, <2>2 DEF Flow
<1> QED BY <1>6, <1>7, <1>8, <1>9

\* The host takes a frame of the request without an answer.
LEMMA ShellAsked ==
  ASSUME TypeInv, ShellInv, cmd = "shell", Take("host", <<>>)
  PROVE  /\ lane["host"] # <<>> /\ Next1("host") = Head(lane["host"])
         /\ Next1("host").type \in {"Hello", "Open", "Input"}
         /\ conn' = conn /\ lane'["client"] = lane["client"] /\ lane'["host"] = Tail(lane["host"])
         /\ Asks(lane'["host"], shell, at["client"])
         /\ Next1("host").type = "Open" =>
              /\ shell = "none" /\ at["client"] \notin {"ack", "request"}
              /\ \A s2 : Asks(lane'["host"], s2, at["client"])
<1>1. Asks(lane["host"], shell, at["client"]) BY DEF ShellInv
<1>2. lane \in [Sides -> Seq(Sound)] BY TypeParts
<1>3. /\ conn' = conn /\ lane["host"] # <<>> /\ lane'["host"] = Tail(lane["host"])
      /\ lane'["client"] = lane["client"] \o <<>>
  BY <1>2, ComingType, TakeLanes, NoFrames
<1>4. lane'["client"] = lane["client"] BY <1>3, ComingType, JoinsNone
<1>5. /\ Head(lane["host"]).type \in {"Hello", "Open", "Input"}
      /\ Asks(lane'["host"], shell, at["client"])
      /\ Head(lane["host"]).type = "Open" =>
           /\ shell = "none" /\ at["client"] \notin {"ack", "request"}
           /\ \A s2 : Asks(lane'["host"], s2, at["client"])
  BY <1>1, <1>3, ComingType, AsksTail
<1> QED BY <1>3, <1>4, <1>5 DEF Next1

\* A step that moves neither the shell's output nor the shell, and no side.
LEMMA ShellStill ==
  ASSUME TypeInv, ShellInv, cmd = "shell", cmd' = "shell",
         UNCHANGED <<at, shells, got>>, out'["host"] = out["host"], conn' = conn,
         lane'["client"] = lane["client"], Asks(lane'["host"], shell, at["client"])
  PROVE  ShellInv'
<1>1. Sitting /\ Told /\ Flow BY DEF ShellInv
<1>2. Sitting' /\ Told' BY <1>1 DEF Sitting, Told, shells
<1>3. Coming' = Coming BY DEF Coming, shells
<1>4. Flow' BY <1>1, <1>3 DEF Flow, shells
<1>5. Asks(lane["host"], shell, at["client"])' BY DEF shells
<1> QED BY <1>2, <1>4, <1>5 DEF ShellInv

\* Before there is a shell the session sends a frame of its own.
LEMMA ShellSays ==
  ASSUME TypeInv, Sitting, Flow, shell = "none", NEW f \in Sound, f.type \notin {"Output", "Exit"},
         lane'["client"] = lane["client"] \o <<f>>, conn' = conn,
         UNCHANGED <<shells, got>>, out' = out
  PROVE  Flow'
<1>1. PICK c : Stream(Coming, c, Len(got["client"]), out["host"], shell, conn) BY DEF Flow
<1>2. termOut = <<>> BY DEF Sitting
<1>3. Coming = lane["client"]
  <2>1. lane["client"] \o <<>> = lane["client"] BY ComingType, JoinsNone
  <2> QED BY <1>2, <2>1 DEF Coming
<1>4. Coming' = lane'["client"]
  <2>1. lane["client"] \o <<f>> \in Seq(Sound)
    <3>1. <<f>> \in Seq(Sound) BY Ones
    <3> QED BY <3>1, ComingType, Joins
  <2>2. lane'["client"] \o <<>> = lane'["client"] BY <2>1, JoinsNone
  <2> QED BY <1>2, <2>2 DEF Coming, shells
<1>5. lane["client"] \o <<f>> = Append(lane["client"], f) BY ComingType
<1>6. Stream(Append(Coming, f), c + 1, Len(got["client"]), out["host"], "none", conn)
  BY <1>1, ComingType, StreamGrows
<1>7. Coming' = Append(Coming, f) BY <1>3, <1>4, <1>5
<1> QED BY <1>6, <1>7 DEF Flow, shells

LEMMA ShellGreets ==
  ASSUME TypeInv, ShellInv, cmd = "shell", HostAccept \/ HostHello \/ HostNews
  PROVE  ShellInv'
<1>1. Sitting /\ Told /\ Flow /\ Asks(lane["host"], shell, at["client"]) BY DEF ShellInv
<1>2. lane \in [Sides -> Seq(Sound)] BY TypeParts
<1>3. CASE HostAccept
  <2>1. CASE trusted
    <3>1. /\ at["host"] = "accept" /\ at'["host"] = "hello" /\ at'["client"] = at["client"]
          /\ UNCHANGED <<setting, conn, lane, shells, apps>>
      BY <1>3, <2>1, ComingType DEF HostAccept, GoesTo
    <3>2. Sitting' /\ Told' BY <1>1, <3>1 DEF Sitting, Told, Ended, shells, apps
    <3>3. Flow' BY <1>1, <3>1 DEF Flow, Coming, shells, apps
    <3> QED BY <1>1, <3>1, <3>2, <3>3 DEF ShellInv, shells
  <2>2. CASE ~trusted BY <1>3, <2>2, ShellLeaves DEF HostAccept
  <2> QED BY <2>1, <2>2
<1>4. CASE HostHello
  <2> DEFINE f == F("control", "HelloAck", 0)
  <2>1. f \in Sound /\ <<f>> \in Seq(Sound) /\ f.type = "HelloAck"
    BY Words, Ones DEF F, Kinds, Types
  <2> HIDE DEF f
  <2>2. Take("host", <<f>>) BY <1>4 DEF HostHello, f
  <2>3. /\ conn' = conn /\ lane["host"] # <<>> /\ lane'["host"] = Tail(lane["host"])
        /\ lane'["client"] = lane["client"] \o <<f>>
    BY <1>2, <2>1, <2>2, ComingType, TakeLanes
  <2>4. /\ at["host"] = "hello" /\ at'["host"] = "news" /\ at'["client"] = at["client"]
        /\ UNCHANGED <<setting, shells, apps>>
    BY <1>4, ComingType DEF HostHello, GoesTo
  <2>5. shell = "none" BY <1>1, <2>4 DEF Sitting
  <2>6. Sitting' /\ Told' BY <1>1, <2>3, <2>4 DEF Sitting, Told, Ended, shells, apps
  <2>7. Flow' BY <1>1, <2>1, <2>3, <2>4, <2>5, ShellSays DEF apps
  <2>8. Asks(lane'["host"], shell, at["client"]) BY <1>1, <2>3, ComingType, AsksTail
  <2> QED BY <2>4, <2>6, <2>7, <2>8 DEF ShellInv, shells
<1>5. CASE HostNews
  <2>1. at["host"] = "news" /\ UNCHANGED <<setting, shells, apps>> BY <1>5 DEF HostNews
  <2>2. shell = "none" BY <1>1, <2>1 DEF Sitting
  <2>3. CASE news = <<>> \/ conn = "closed"
    <3>1. at'["host"] = "loop" /\ at'["client"] = at["client"] /\ UNCHANGED <<lane, conn>>
      BY <1>5, <2>3, ComingType DEF HostNews, GoesTo
    <3>2. Sitting' /\ Told' BY <1>1, <2>1, <3>1 DEF Sitting, Told, Ended, shells, apps
    <3>3. Flow' BY <1>1, <2>1, <3>1 DEF Flow, Coming, shells, apps
    <3> QED BY <1>1, <2>1, <3>1, <3>2, <3>3 DEF ShellInv, shells
  <2>4. CASE ~(news = <<>> \/ conn = "closed")
    <3>1. news \in Seq({Snapshot, KickAnnounce}) BY TypeParts
    <3>2. Head(news) \in {Snapshot, KickAnnounce} BY <2>4, <3>1, Heads
    <3>3. PICK f : f = Head(news) /\ Send("host", <<f>>) /\ at' = at
      BY <1>5, <2>4 DEF HostNews
    <3>4. f \in Sound /\ <<f>> \in Seq(Sound) /\ f.type \notin {"Output", "Exit"}
      BY <3>2, <3>3, Words, Ones DEF Snapshot, KickAnnounce, F
    <3>5. /\ conn' = conn /\ lane'["host"] = lane["host"]
          /\ lane'["client"] = lane["client"] \o <<f>>
      <4>1. "host" \in Sides /\ Peer("host") = "client" BY ComingType
      <4>2. /\ conn' = conn /\ lane'["host"] = lane["host"]
            /\ lane'[Peer("host")] = lane[Peer("host")] \o <<f>>
        BY <1>2, <3>3, <3>4, <4>1, SendLanes
      <4> QED BY <4>1, <4>2
    <3>6. Sitting' /\ Told' BY <1>1, <2>1, <3>3, <3>5 DEF Sitting, Told, shells, apps
    <3>7. Flow' BY <1>1, <2>1, <2>2, <3>4, <3>5, ShellSays DEF apps
    <3> QED BY <1>1, <2>1, <3>3, <3>5, <3>6, <3>7 DEF ShellInv, shells
  <2> QED BY <2>3, <2>4
<1> QED BY <1>3, <1>4, <1>5

LEMMA ShellServes ==
  ASSUME TypeInv, ShellInv, cmd = "shell",
         HostIgnores \/ HostControl \/ HostPut \/ HostChunk \/ HostDone \/ HostRead \/ HostOpen
           \/ HostInput \/ HostDial \/ HostFails \/ HostLost \/ HostMisreads
  PROVE  ShellInv'
<1>1. Sitting /\ Told /\ Flow /\ Asks(lane["host"], shell, at["client"]) BY DEF ShellInv
<1>2. Has("host") => Next1("host").type \in {"Hello", "Open", "Input"}
  BY <1>1, ComingType, AsksTail DEF Has, Next1
<1>3. ~HostPut /\ ~HostChunk /\ ~HostDone /\ ~HostRead /\ ~HostDial
  BY <1>2 DEF HostPut, HostChunk, HostDone, HostRead, HostDial, Serves
<1>4. CASE HostFails \/ HostLost \/ HostMisreads
  BY <1>4, ShellLeaves DEF HostFails, HostLost, HostMisreads
<1>5. CASE HostIgnores
  <2>1. /\ Take("host", <<>>) /\ cmd' = cmd /\ UNCHANGED <<at, shells, got>>
        /\ out'["host"] = out["host"]
    BY <1>5 DEF HostIgnores, setting, apps
  <2> QED BY <2>1, ShellAsked, ShellStill
<1>6. CASE HostControl
  <2>1. /\ Take("host", <<>>) /\ cmd' = cmd /\ UNCHANGED <<at, shells, got>>
        /\ out'["host"] = out["host"]
    BY <1>2, <1>6 DEF HostControl, Serves, setting, apps
  <2> QED BY <2>1, ShellAsked, ShellStill
<1>7. CASE HostInput
  <2>1. /\ Take("host", <<>>) /\ cmd' = cmd /\ UNCHANGED <<at, shells, out>>
        /\ got'["client"] = got["client"]
    BY <1>7, ComingType DEF HostInput, setting
  <2>2. /\ conn' = conn /\ lane'["client"] = lane["client"]
        /\ Asks(lane'["host"], shell, at["client"])
    BY <2>1, ShellAsked
  <2>3. Sitting' /\ Told' BY <1>1, <2>1, <2>2 DEF Sitting, Told, shells
  <2>4. Coming' = Coming BY <2>1, <2>2 DEF Coming, shells
  <2>5. Flow' BY <1>1, <2>1, <2>2, <2>4 DEF Flow, shells
  <2>6. Asks(lane["host"], shell, at["client"])' BY <2>1, <2>2 DEF shells
  <2> QED BY <2>3, <2>5, <2>6 DEF ShellInv
<1>8. CASE HostOpen
  <2>1. /\ Take("host", <<>>) /\ Next1("host").type = "Open" /\ at["host"] = "loop"
        /\ cmd' = cmd /\ UNCHANGED <<at, apps>> /\ shell' = "alive" /\ term' = TRUE /\ termOut' = <<>>
    BY <1>8 DEF HostOpen, Spawn, Serves, setting
  <2>2. /\ conn' = conn /\ lane'["client"] = lane["client"] /\ shell = "none"
        /\ at["client"] \notin {"ack", "request"} /\ Asks(lane'["host"], "alive", at["client"])
    BY <2>1, ShellAsked
  <2>3. out["host"] = 0 /\ got["client"] = <<>> /\ termOut = <<>> BY <1>1, <2>2 DEF Sitting
  <2>4. at["client"] # "ok" BY <1>1, <2>2 DEF Told
  <2>5. Sitting' /\ Told' BY <1>1, <2>1, <2>2, <2>4 DEF Sitting, Told, apps
  <2>6. Coming' = Coming BY <2>1, <2>2, <2>3 DEF Coming
  <2>7. PICK c : Stream(Coming, c, 0, 0, "none", conn)
    <3>1. Len(got["client"]) = 0 BY <2>3
    <3> QED BY <1>1, <2>2, <2>3, <3>1 DEF Flow
  <2>8. Flow'
    <3>1. Stream(Coming, c, 0, 0, "alive", conn) BY <2>7, ComingType, StreamStarts
    <3>2. Len(got["client"]) = 0 BY <2>3
    <3> QED BY <2>1, <2>2, <2>3, <2>6, <3>1, <3>2 DEF Flow, apps
  <2>9. Asks(lane["host"], shell, at["client"])' BY <2>1, <2>2
  <2> QED BY <2>5, <2>8, <2>9 DEF ShellInv
<1> QED BY <1>3, <1>4, <1>5, <1>6, <1>7, <1>8

\* The session passes on the next of what the reader has queued.
LEMMA ShellOutputStep ==
  ASSUME TypeInv, ShellInv, cmd = "shell", HostOutput
  PROVE  ShellInv'
<1>1. Sitting /\ Told /\ Flow /\ Asks(lane["host"], shell, at["client"]) BY DEF ShellInv
<1>2. lane \in [Sides -> Seq(Sound)] BY TypeParts
<1>3. /\ at["host"] = "loop" /\ termOut # <<>> /\ conn = "open" /\ conn' = conn
      /\ termOut' = Tail(termOut) /\ term' = (Head(termOut).type # "Exit")
      /\ UNCHANGED <<shell, setting, at, apps>>
      /\ lane' = [lane EXCEPT !["client"] = Append(@, Head(termOut))]
  BY DEF HostOutput
<1>4. lane'["client"] = Append(lane["client"], Head(termOut)) /\ lane'["host"] = lane["host"]
  BY <1>2, <1>3, ComingType
<1>5. Coming' = Coming
  <2>1. Append(lane["client"], Head(termOut)) \o Tail(termOut) = lane["client"] \o termOut
    BY <1>3, ComingType, JoinsMove
  <2> QED BY <1>3, <1>4, <2>1 DEF Coming
<1>6. Head(termOut).type = "Exit" => shell = "dead"
  <2>1. SUFFICES ASSUME Head(termOut).type = "Exit" PROVE shell = "dead" OBVIOUS
  <2>2. PICK c : Stream(Coming, c, Len(got["client"]), out["host"], shell, conn) BY <1>1 DEF Flow
  <2>3. /\ Len(lane["client"]) \in Nat /\ Len(Coming) = Len(lane["client"]) + Len(termOut)
        /\ \A i \in 1..Len(termOut) : Coming[Len(lane["client"]) + i] = termOut[i]
    BY <1>3, ComingType, Joins DEF Coming
  <2>4. Len(termOut) \in Nat \ {0} /\ Head(termOut) = termOut[1] BY <1>3, ComingType, Heads
  <2>5. Len(lane["client"]) + 1 \in 1..Len(Coming) /\ Coming[Len(lane["client"]) + 1] = Head(termOut)
    BY <2>3, <2>4
  <2> QED BY <2>1, <2>2, <2>5, ComingType, StreamDead
<1>7. Sitting' /\ Told' BY <1>1, <1>3, <1>6 DEF Sitting, Told, apps
<1>8. Flow' BY <1>1, <1>3, <1>5 DEF Flow, apps
<1>9. Asks(lane["host"], shell, at["client"])' BY <1>1, <1>3, <1>4
<1> QED BY <1>7, <1>8, <1>9 DEF ShellInv

\* The shell writes a line, or exits, or is killed when nobody reads it.
LEMMA ShellActs ==
  ASSUME TypeInv, ShellInv, cmd = "shell", ShellPrints \/ ShellExits
  PROVE  ShellInv'
<1>1. Sitting /\ Told /\ Flow /\ Asks(lane["host"], shell, at["client"]) BY DEF ShellInv
<1>2. PICK c : Stream(Coming, c, Len(got["client"]), out["host"], shell, conn) BY <1>1 DEF Flow
<1>3. /\ shell = "alive" /\ cmd' = cmd
      /\ UNCHANGED <<conn, lane, at, term>> /\ got'["client"] = got["client"]
  BY DEF ShellPrints, ShellExits, setting, apps
<1>4. at["client"] # "ok" BY <1>1, <1>3 DEF Told
<1>5. /\ at["client"] \notin {"ack", "request"} /\ shell # "none"
      /\ at["host"] \notin {"accept", "hello", "news"}
  BY <1>1, <1>3 DEF Sitting
<1>6. \A s2 : Asks(lane'["host"], s2, at'["client"]) BY <1>1, <1>3, <1>5, ComingType, AsksMoves
<1>7. Told' BY <1>1, <1>3, <1>4 DEF Told
<1>8. ASSUME NEW f \in Sound, termOut' = Append(termOut, f), conn = "open"
      PROVE  Coming' = Append(Coming, f)
  <2>1. /\ Coming = lane["client"] \o termOut
        /\ Coming' = lane["client"] \o Append(termOut, f)
    BY <1>3, <1>8 DEF Coming
  <2>2. lane["client"] \o Append(termOut, f) = Append(lane["client"] \o termOut, f)
    <3>1. lane["client"] \in Seq(Sound) /\ termOut \in Seq(Sound) BY ComingType
    <3>2. \A q, p \in Seq(Sound) : q \o Append(p, f) = Append(q \o p, f) BY JoinsAppend
    <3> QED BY <3>1, <3>2, Zenon
  <2> QED BY <2>1, <2>2
<1>9. ASSUME conn # "open" PROVE Coming' = Coming /\ conn = "closed"
  BY <1>3, <1>9, ComingType DEF Coming
<1>10. at["host"] = "err" => ~term /\ termOut = <<>> /\ conn = "closed" BY <1>1 DEF Sitting
<1>11. CASE ShellPrints /\ term
  <2> DEFINE f == F("terminal", "Output", out["host"] + 1)
  <2>1. f \in Sound /\ f.type = "Output" /\ f.n = out["host"] + 1
    BY <1>11, ComingType, NumberedOut DEF ShellPrints, F
  <2>2. /\ termOut' = Append(termOut, f) /\ shell' = shell
        /\ out' = [out EXCEPT !["host"] = @ + 1]
    BY <1>11 DEF ShellPrints
  <2> HIDE DEF f
  <2>3. out'["host"] = out["host"] + 1 BY <2>2, ComingType
  <2>4. Sitting' BY <1>1, <1>3, <1>5, <1>10, <1>11, <2>2 DEF Sitting
  <2>5. Flow'
    <3>1. CASE conn = "open"
      <4>1. Stream(Append(Coming, f), c, Len(got["client"]), out["host"] + 1, "alive", "open")
        BY <1>2, <1>3, <2>1, <3>1, ComingType, StreamWrites
      <4> QED BY <1>3, <1>8, <2>1, <2>2, <2>3, <3>1, <4>1 DEF Flow
    <3>2. CASE conn # "open"
      <4>1. Stream(Coming, c, Len(got["client"]), out["host"] + 1, "alive", "closed")
        BY <1>2, <1>3, <1>9, <3>2, ComingType, StreamLate
      <4> QED BY <1>3, <1>9, <2>2, <2>3, <3>2, <4>1 DEF Flow
    <3> QED BY <3>1, <3>2
  <2> QED BY <1>6, <1>7, <2>4, <2>5 DEF ShellInv
<1>12. CASE (ShellPrints /\ ~term) \/ (ShellExits /\ ~term)
  <2>1. shell' = "dead" /\ termOut' = termOut /\ out' = out
    BY <1>12 DEF ShellPrints, ShellExits, apps
  <2>2. conn # "open" BY <1>1, <1>3, <1>12 DEF Sitting
  <2>3. Sitting' BY <1>1, <1>3, <1>5, <2>1 DEF Sitting
  <2>4. Stream(Coming, c, Len(got["client"]), out["host"], "dead", "closed")
    BY <1>2, <1>3, <1>9, <2>2, ComingType, StreamLate
  <2>5. Flow' BY <1>3, <1>9, <2>1, <2>2, <2>4 DEF Flow
  <2> QED BY <1>6, <1>7, <2>3, <2>5 DEF ShellInv
<1>13. CASE ShellExits /\ term
  <2> DEFINE f == F("terminal", "Exit", 0)
  <2>1. f \in Sound /\ f.type = "Exit" BY Words DEF Kinds, Types, F
  <2>2. termOut' = Append(termOut, f) /\ shell' = "dead" /\ out' = out
    BY <1>13 DEF ShellExits, apps
  <2> HIDE DEF f
  <2>3. Sitting' BY <1>1, <1>3, <1>5, <1>10, <1>13, <2>2 DEF Sitting
  <2>4. Flow'
    <3>1. CASE conn = "open"
      <4>1. Stream(Append(Coming, f), c, Len(got["client"]), out["host"], "dead", "open")
        BY <1>2, <1>3, <2>1, <3>1, ComingType, StreamWrites
      <4> QED BY <1>3, <1>8, <2>1, <2>2, <3>1, <4>1 DEF Flow
    <3>2. CASE conn # "open"
      <4>1. Stream(Coming, c, Len(got["client"]), out["host"], "dead", "closed")
        BY <1>2, <1>3, <1>9, <3>2, ComingType, StreamLate
      <4> QED BY <1>3, <1>9, <2>2, <3>2, <4>1 DEF Flow
    <3> QED BY <3>1, <3>2
  <2> QED BY <1>6, <1>7, <2>3, <2>4 DEF ShellInv
<1> QED BY <1>11, <1>12, <1>13

\* The client takes the next frame on its way to it.
LEMMA ShellNext ==
  ASSUME TypeInv, ShellInv, cmd = "shell", Take("client", <<>>), termOut' = termOut
  PROVE  /\ conn' = conn /\ lane'["host"] = lane["host"]
         /\ Coming # <<>> /\ Next1("client") = Head(Coming) /\ Coming' = Tail(Coming)
<1>1. lane \in [Sides -> Seq(Sound)] BY TypeParts
<1>2. /\ conn' = conn /\ lane["client"] # <<>> /\ lane'["client"] = Tail(lane["client"])
      /\ lane'["host"] = lane["host"] \o <<>>
  BY <1>1, ComingType, TakeLanes, NoFrames
<1>3. lane'["host"] = lane["host"] BY <1>2, ComingType, JoinsNone
<1>4. CASE conn = "open"
  <2>1. Coming = lane["client"] \o termOut /\ Coming' = Tail(lane["client"]) \o termOut
    BY <1>2, <1>4 DEF Coming
  <2>2. /\ lane["client"] \o termOut # <<>>
        /\ Head(lane["client"] \o termOut) = Head(lane["client"])
        /\ Tail(lane["client"] \o termOut) = Tail(lane["client"]) \o termOut
    BY <1>2, ComingType, JoinsTail
  <2> QED BY <1>2, <1>3, <2>1, <2>2 DEF Next1
<1>5. CASE conn # "open" BY <1>2, <1>3, <1>5 DEF Coming, Next1
<1> QED BY <1>4, <1>5

LEMMA NoShell ==
  ASSUME NEW q \in Seq(Sound), q # <<>>, NEW c, NEW g \in Nat, NEW n \in Nat, NEW sh, NEW cn,
         Stream(q, c, g, n, sh, cn), Head(q).type = "Output"
  PROVE  sh # "none"
<1>1. Head(q) = q[1] /\ Len(q) \in Nat \ {0} BY Heads
<1>2. 1 \in 1..Len(q) BY <1>1
<1>3. ASSUME sh = "none" PROVE FALSE
  <2>1. 1 \in 1..c BY <1>2, <1>3 DEF Stream
  <2> QED BY <1>1, <2>1 DEF Stream
<1> QED BY <1>3

LEMMA ShellFirst ==
  ASSUME TypeInv, Has("client")
  PROVE  Coming # <<>> /\ Next1("client") = Head(Coming)
<1>1. lane["client"] # <<>> BY DEF Has
<1>2. CASE conn = "open"
  <2>1. /\ lane["client"] \o termOut # <<>>
        /\ Head(lane["client"] \o termOut) = Head(lane["client"])
    BY <1>1, ComingType, JoinsTail
  <2> QED BY <1>2, <2>1 DEF Coming, Next1
<1>3. CASE conn # "open" BY <1>1, <1>3 DEF Coming, Next1
<1> QED BY <1>2, <1>3

\* The client drops a frame that is not the shell's.
LEMMA ShellDrops ==
  ASSUME TypeInv, ShellInv, cmd = "shell", cmd' = "shell", Take("client", <<>>),
         Next1("client").type \notin {"Output", "Exit"}, UNCHANGED <<shells, apps>>,
         \/ at' = at
         \/ at["client"] = "ack" /\ at' = [at EXCEPT !["client"] = "request"]
  PROVE  ShellInv'
<1>1. Sitting /\ Told /\ Flow /\ Asks(lane["host"], shell, at["client"]) BY DEF ShellInv
<1>2. /\ conn' = conn /\ lane'["host"] = lane["host"]
      /\ Coming # <<>> /\ Next1("client") = Head(Coming) /\ Coming' = Tail(Coming)
  BY ShellNext DEF shells
<1>3. /\ at'["host"] = at["host"]
      /\ at'["client"] = at["client"] \/ (at["client"] = "ack" /\ at'["client"] = "request")
  <2>1. CASE at' = at BY <2>1
  <2>2. CASE at["client"] = "ack" /\ at' = [at EXCEPT !["client"] = "request"]
    BY <2>2, ComingType
  <2> QED BY <2>1, <2>2
<1>4. Sitting' BY <1>1, <1>2, <1>3 DEF Sitting, Ended, shells, apps
<1>5. Told' BY <1>1, <1>3 DEF Told, shells, apps
<1>6. PICK c : Stream(Coming, c, Len(got["client"]), out["host"], shell, conn) BY <1>1 DEF Flow
<1>7. Stream(Tail(Coming), c - 1, Len(got["client"]), out["host"], shell, conn)
  BY <1>2, <1>6, ComingType, StreamSkips
<1>8. Flow' BY <1>2, <1>7 DEF Flow, shells, apps
<1>9. Asks(lane["host"], shell, at["client"])'
  <2>1. Asks(lane["host"], shell, at'["client"]) BY <1>1, <1>3, ComingType, AsksMoves
  <2> QED BY <1>2, <2>1 DEF shells
<1> QED BY <1>4, <1>5, <1>8, <1>9 DEF ShellInv

\* The user is shown the next line of the shell.
LEMMA ShellShows ==
  ASSUME TypeInv, ShellInv, cmd = "shell", cmd' = "shell", Take("client", <<>>), at' = at,
         Next1("client").type = "Output", UNCHANGED <<shells, out>>, at["client"] = "pipe",
         got' = [got EXCEPT !["client"] = Append(@, Next1("client").n)]
  PROVE  ShellInv'
<1>1. Sitting /\ Told /\ Flow /\ Asks(lane["host"], shell, at["client"]) BY DEF ShellInv
<1>2. /\ conn' = conn /\ lane'["host"] = lane["host"]
      /\ Coming # <<>> /\ Next1("client") = Head(Coming) /\ Coming' = Tail(Coming)
  BY ShellNext DEF shells
<1> DEFINE g == Len(got["client"])
<1>3. PICK c : Stream(Coming, c, g, out["host"], shell, conn) BY <1>1 DEF Flow
<1>4. g \in Nat /\ got["client"] \in Seq(1..Items) BY ComingType
<1>5. Next1("client").n = g + 1 /\ Stream(Tail(Coming), 0, g + 1, out["host"], shell, conn)
  BY <1>2, <1>3, <1>4, ComingType, StreamReads
<1>6. shell # "none" BY <1>2, <1>3, <1>4, ComingType, NoShell
<1>7. got'["client"] = Append(got["client"], g + 1) BY <1>5, ComingType
<1>8. Len(got'["client"]) = g + 1 BY <1>4, <1>7
<1>9. got'["client"] = [i \in 1..g + 1 |-> i]
  <2>1. got["client"] = [i \in 1..g |-> i] BY <1>1 DEF Told
  <2> HIDE DEF g
  <2>2. Append([i \in 1..g |-> i], g + 1) = [i \in 1..g + 1 |-> i] BY <1>4
  <2> QED BY <1>7, <2>1, <2>2
<1>10. Sitting' BY <1>1, <1>2, <1>6 DEF Sitting, shells
<1>11. Told' BY <1>1, <1>8, <1>9 DEF Told
<1>12. Flow' BY <1>2, <1>5, <1>8 DEF Flow, shells
<1>13. Asks(lane["host"], shell, at["client"])' BY <1>1, <1>2 DEF shells
<1> QED BY <1>10, <1>11, <1>12, <1>13 DEF ShellInv

\* The client asks for the shell, or sends it a line.
LEMMA ShellSends ==
  ASSUME TypeInv, ShellInv, cmd = "shell", cmd' = "shell", NEW f \in Sound, Send("client", <<f>>),
         UNCHANGED <<shell, term, termOut, got>>, out'["host"] = out["host"],
         \/ f.type = "Input" /\ at["client"] = "pipe" /\ at' = at
         \/ /\ f.type = "Open" /\ at["client"] = "request"
            /\ at' = [at EXCEPT !["client"] = "pipe"]
  PROVE  ShellInv'
<1>1. Sitting /\ Told /\ Flow /\ Asks(lane["host"], shell, at["client"]) BY DEF ShellInv
<1>2. lane \in [Sides -> Seq(Sound)] /\ <<f>> \in Seq(Sound) BY TypeParts, Ones
<1>3. /\ conn' = conn /\ lane'["client"] = lane["client"]
      /\ lane'["host"] = lane["host"] \o <<f>>
  <2>1. "client" \in Sides /\ Peer("client") = "host" BY ComingType
  <2>2. /\ conn' = conn /\ lane'["client"] = lane["client"]
        /\ lane'[Peer("client")] = lane[Peer("client")] \o <<f>>
    BY <1>2, <2>1, SendLanes
  <2> QED BY <2>1, <2>2
<1>4. at'["host"] = at["host"] /\ at'["client"] = "pipe" BY ComingType
<1>5. Sitting' /\ Told' BY <1>1, <1>3, <1>4 DEF Sitting, Told, Ended
<1>6. Coming' = Coming BY <1>3 DEF Coming
<1>7. Flow' BY <1>1, <1>3, <1>6 DEF Flow
<1>8. at["client"] = "request" => shell = "none" BY <1>1 DEF Sitting
<1>9. Asks(lane["host"] \o <<f>>, shell, "pipe")
  <2>1. "pipe" \notin {"ack", "request"} OBVIOUS
  <2>2. \/ f.type = "Input"
        \/ f.type = "Open" /\ shell = "none" /\ at["client"] \in {"ack", "request"}
    BY <1>8
  <2> QED BY <1>1, <2>1, <2>2, ComingType, AsksGrows
<1>10. Asks(lane["host"], shell, at["client"])' BY <1>3, <1>4, <1>9
<1> QED BY <1>5, <1>7, <1>10 DEF ShellInv

\* No step changes the command.
LEMMA FixedCommand == Next => cmd' = cmd /\ faults' = faults
<1> SUFFICES ASSUME Next PROVE cmd' = cmd /\ faults' = faults OBVIOUS
<1>1. CASE Host \/ HostFails
  BY <1>1 DEF Host, HostFails, HostAccept, HostHello, HostNews, HostIgnores, HostControl, HostPut,
       HostChunk, HostDone, HostRead, HostOpen, HostInput, HostOutput, HostDial, HostLost, HostMisreads,
       HostLeaves, setting
<1>2. CASE ShellPrints \/ ShellExits BY <1>2 DEF ShellPrints, ShellExits, setting
<1>3. CASE Client \/ ShellTypes \/ Quit
  BY <1>3 DEF Client, ShellTypes, Quit, ClientAck, ClientRequest, Upload, ClientAnswer,
       ClientChunk, ClientBalks, ClientSkips, ClientLost, ClientTimeout, ShellTakes,
       ClientLeaves, setting
<1>4. CASE \E s \in Sides : PumpUp(s) \/ AppCloses(s) \/ PumpDown(s) \/ PumpLost(s)
  BY <1>4 DEF PumpUp, AppCloses, PumpDown, PumpLost, PipeEnds, setting
<1>5. CASE Cut \/ Regrant BY <1>5 DEF Cut, Regrant, setting
<1> QED BY <1>1, <1>2, <1>3, <1>4, <1>5 DEF Next

LEMMA ShellClient ==
  ASSUME TypeInv, ShellInv, cmd = "shell", Client \/ ShellTypes \/ Quit
  PROVE  ShellInv'
<1>1. Sitting /\ Told /\ Flow /\ Asks(lane["host"], shell, at["client"]) BY DEF ShellInv
<1>2. at["client"] \notin {"upload", "wait"} BY <1>1 DEF Sitting, Ended
<1>3. ~Upload /\ ~ClientAnswer /\ ~ClientChunk /\ ~ClientBalks /\ ~ClientSkips /\ ~ClientTimeout
  BY <1>2 DEF Upload, ClientAnswer, ClientChunk, ClientBalks, ClientSkips, ClientTimeout, Waits
<1>4. CASE ClientLost \/ Quit
  <2>1. PICK p \in {"err", "left"} : ClientLeaves(p) BY <1>4 DEF ClientLost, Quit
  <2>2. p \in Ended /\ p # "ok" BY DEF Ended
  <2> QED BY <2>1, <2>2, ShellGone
<1>5. CASE ClientAck
  <2>1. /\ Take("client", <<>>) /\ Next1("client").type = "HelloAck" /\ cmd' = cmd
        /\ UNCHANGED <<shells, apps>> /\ at["client"] = "ack"
        /\ at' = [at EXCEPT !["client"] = "request"]
    BY <1>5 DEF ClientAck, GoesTo, setting
  <2> QED BY <2>1, ShellDrops
<1>6. CASE ClientRequest
  <2> DEFINE f == F("terminal", "Open", 0)
  <2>1. f \in Sound /\ f.type = "Open" BY Words DEF F, Kinds, Types
  <2>2. Request[cmd] = f BY DEF Request
  <2> HIDE DEF f
  <2>3. /\ Send("client", <<f>>) /\ cmd' = cmd /\ UNCHANGED <<shell, term, termOut, got>>
        /\ out'["host"] = out["host"] /\ at["client"] = "request"
        /\ at' = [at EXCEPT !["client"] = "pipe"]
    BY <1>6, <2>2 DEF ClientRequest, GoesTo, setting, shells, apps
  <2> QED BY <2>1, <2>3, ShellSends
<1>7. CASE ShellTypes
  <2> DEFINE f == F("terminal", "Input", out["client"] + 1)
  <2>1. f \in Sound /\ f.type = "Input"
    BY <1>7, ComingType, NumberedOut DEF F, ShellTypes
  <2> HIDE DEF f
  <2>2. /\ Send("client", <<f>>) /\ cmd' = cmd
        /\ UNCHANGED <<shell, term, termOut, got, at>>
        /\ out'["host"] = out["host"] /\ at["client"] = "pipe"
    BY <1>7, ComingType DEF ShellTypes, InShell, setting, f
  <2> QED BY <2>1, <2>2, ShellSends
<1>8. CASE ShellTakes
  <2>1. CASE ClientLeaves("left") BY <2>1, ShellGone DEF Ended
  <2>2. CASE Has("client") /\ Next1("client").type = "Exit" /\ ClientLeaves("ok")
    <3>1. PICK c : Stream(Coming, c, Len(got["client"]), out["host"], shell, conn)
      BY <1>1 DEF Flow
    <3>2. Coming # <<>> /\ Head(Coming).type = "Exit" BY <2>2, ShellFirst
    <3>3. Len(got["client"]) = out["host"] /\ shell = "dead"
      BY <3>1, <3>2, ComingType, StreamEnds
    <3> QED BY <2>2, <3>3, ShellGone DEF Ended
  <2>3. CASE /\ Has("client") /\ Next1("client").type # "Exit"
             /\ Take("client", <<>>)
             /\ got' = IF Next1("client").type = "Output"
                       THEN [got EXCEPT !["client"] = Append(@, Next1("client").n)] ELSE got
             /\ UNCHANGED <<setting, news, trusted, at, files, shells, out, denied>>
    <3>1. cmd' = cmd /\ at' = at /\ UNCHANGED <<shells, out>> /\ Take("client", <<>>)
      BY <2>3 DEF setting
    <3>2. CASE Next1("client").type = "Output"
      <4>1. got' = [got EXCEPT !["client"] = Append(@, Next1("client").n)] BY <2>3, <3>2
      <4>2. at["client"] = "pipe" BY <1>8 DEF ShellTakes, InShell
      <4> QED BY <3>1, <3>2, <4>1, <4>2, ShellShows
    <3>3. CASE Next1("client").type # "Output"
      BY <2>3, <3>1, <3>3, ShellDrops DEF apps
    <3> QED BY <3>2, <3>3
  <2> QED BY <1>8, <2>1, <2>2, <2>3 DEF ShellTakes
<1> QED BY <1>3, <1>4, <1>5, <1>6, <1>7, <1>8 DEF Client

LEMMA ShellNetwork ==
  ASSUME TypeInv, ShellInv, cmd = "shell", Cut \/ Regrant
  PROVE  ShellInv'
<1>1. Sitting /\ Told /\ Flow /\ Asks(lane["host"], shell, at["client"]) BY DEF ShellInv
<1>2. CASE Regrant
  BY <1>1, <1>2 DEF Regrant, setting, shells, apps, ShellInv, Sitting, Told, Flow, Coming
<1>3. CASE Cut
  <2>1. lane \in [Sides -> Seq(Sound)] BY TypeParts
  <2>2. /\ conn = "open" /\ conn' = "closed"
        /\ \A s \in Sides : \E k \in 0..Len(lane[s]) : lane'[s] = SubSeq(lane[s], 1, k)
    BY <1>3, <2>1, CutLanes
  <2>3. UNCHANGED <<cmd, at, shell, term, termOut, out, got>>
    BY <1>3 DEF Cut, setting, shells, apps
  <2>4. Sitting' /\ Told' BY <1>1, <2>2, <2>3 DEF Sitting, Told
  <2>5. Asks(lane'["host"], shell, at["client"])
    <3>1. PICK k \in 0..Len(lane["host"]) : lane'["host"] = SubSeq(lane["host"], 1, k)
      BY <2>2, ComingType
    <3> QED BY <1>1, <3>1, ComingType, AsksCut
  <2>6. Flow'
    <3>1. PICK k \in 0..Len(lane["client"]) : lane'["client"] = SubSeq(lane["client"], 1, k)
      BY <2>2, ComingType
    <3>2. PICK c : Stream(Coming, c, Len(got["client"]), out["host"], shell, conn)
      BY <1>1 DEF Flow
    <3>3. k \in 0..Len(Coming) /\ lane'["client"] = SubSeq(Coming, 1, k)
      BY <2>2, <3>1, ComingType, JoinsPrefix DEF Coming
    <3>4. \E d : Stream(lane'["client"], d, Len(got["client"]), out["host"], shell, "closed")
      BY <3>2, <3>3, ComingType, StreamCut
    <3>5. Coming' = lane'["client"] BY <2>2 DEF Coming
    <3> QED BY <2>2, <2>3, <3>4, <3>5 DEF Flow
  <2> QED BY <2>3, <2>4, <2>5, <2>6 DEF ShellInv
<1> QED BY <1>2, <1>3

LEMMA ShellInvStep == TypeInv /\ ShellInv /\ [Next]_vars => ShellInv'
<1> SUFFICES ASSUME TypeInv, ShellInv, [Next]_vars PROVE ShellInv' OBVIOUS
<1>1. CASE UNCHANGED vars
  BY <1>1 DEF vars, setting, files, shells, apps, ShellInv, Sitting, Told, Flow, Coming
<1>2. CASE Next /\ cmd # "shell"
  <2>1. cmd' = cmd BY <1>2, FixedCommand
  <2> QED BY <1>2, <2>1 DEF ShellInv
<1>3. CASE Next /\ cmd = "shell"
  <2>1. \A s \in Sides : ~PumpUp(s) /\ ~AppCloses(s) /\ ~PumpDown(s) /\ ~PumpLost(s)
    BY <1>3 DEF PumpUp, AppCloses, PumpDown, PumpLost, Piping
  <2> QED BY <1>3, <2>1, ShellGreets, ShellServes, ShellOutputStep, ShellActs, ShellClient,
             ShellNetwork DEF Next, Host
<1> QED BY <1>1, <1>2, <1>3

\* A user whose shell exits has been shown everything it wrote, each line once
\* and in order, for any number of lines and under every set of faults.  What
\* is on its way, in the reader's queue or on the connection, always continues
\* what was shown and ends with the exit (TerminalHost::spawn, handle_session,
\* cmd_shell).
THEOREM ShellOutputWholeHolds == Spec => []ShellOutputWhole
<1>1. ShellInv => ShellOutputWhole BY DEF ShellInv, Told, ShellOutputWhole
<1> QED BY <1>1, TypeInvInit, TypeInvStep, ShellInvInit, ShellInvStep, PTL DEF Spec

-----------------------------------------------------------------------------
(* The frames of a copy.                                                   *)

Transfers == {"push", "bw", "pull"}

\* The i-th frame a client sends, and how many it has sent.
Sent(cm, i) == IF i = 1 THEN F("control", "Hello", 0)
               ELSE IF i = 2 THEN Request[cm]
               ELSE IF i <= Items + 2 THEN F("files", "Chunk", i - 2)
               ELSE F("files", "Done", Items)
SentNow == IF at["client"] \in {"ack", "request"} THEN 1
           ELSE IF at["client"] = "upload" THEN 2 + out["client"]
           ELSE IF cmd = "pull" THEN 2 ELSE Items + 3

\* The host has taken p of the m frames sent; of the rest q is on its way, and
\* all of it as long as the connection is open.
Segment(q, cm, p, m, cn) ==
  /\ p \in Nat /\ p + Len(q) <= m
  /\ cn = "open" => p + Len(q) = m
  /\ \A i \in 1..Len(q) : q[i] = Sent(cm, p + i)

Upto(n) == [i \in 1..n |-> i]

Ends(q) == \E i \in 1..Len(q) : q[i].type = "Done"

\* The host's file holds the chunks it has taken of a put.
Pushing(p) ==
  /\ p >= 2 => file = Upto(IF p - 2 <= Items THEN p - 2 ELSE Items) /\ put = (p <= Items + 2)
  /\ Ends(lane["client"]) \/ at["client"] = "ok" => p = Items + 3

\* l begins f, and q holds the rest of it after c other frames.
Copying(q, c, f, l) ==
  /\ Len(l) <= Len(f) /\ \A i \in 1..Len(l) : l[i] = f[i]
  /\ c \in 0..Len(q) /\ \A i \in 1..c : q[i].type \notin {"Chunk", "Done"}
  /\ \A i \in c + 1..Len(q) :
       \/ q[i].type = "Chunk" /\ Len(l) + i - c <= Len(f) /\ q[i].n = f[Len(l) + i - c]
       \/ q[i].type = "Done" /\ Len(l) + i - c = Len(f) + 1

Bare(q) == \A i \in 1..Len(q) : q[i].type \notin {"Chunk", "Done"}

Pulling(p) ==
  /\ p <= 1 => Bare(lane["client"])
  /\ at["client"] = "wait" =>
       (p <= 1 => local = <<>>) /\ \E c : Copying(lane["client"], c, file, local)
  /\ at["client"] = "ok" => local = file

Copier ==
  /\ at["client"] \in {"ack", "request", "upload", "wait"} \cup Ended
  /\ cmd = "pull" => at["client"] # "upload"
  /\ at["client"] \in {"ack", "request"} => out["client"] = 0
  /\ at["client"] \in Ended => conn = "closed"
  /\ shell = "none" /\ termOut = <<>>

Taken(p) ==
  /\ Segment(lane["host"], cmd, p, SentNow, conn)
  /\ at["host"] \in {"accept", "hello", "news"} => p <= 1
  /\ IF cmd = "pull" THEN Pulling(p) ELSE Pushing(p)

CopyInv == (cmd \in Transfers /\ ~denied) => Copier /\ \E p : Taken(p)

LEMMA SegmentTail ==
  ASSUME NEW q \in Seq(Sound), q # <<>>, NEW cm, NEW p, NEW m \in Nat, NEW cn,
         Segment(q, cm, p, m, cn)
  PROVE  Segment(Tail(q), cm, p + 1, m, cn) /\ Head(q) = Sent(cm, p + 1) /\ p + 1 <= m /\ p \in Nat
<1> DEFINE r == Tail(q)
<1>1. /\ Head(q) = q[1] /\ Len(q) \in Nat \ {0} /\ Len(r) = Len(q) - 1
      /\ \A i \in 1..Len(r) : i + 1 \in 1..Len(q) /\ i \in Int /\ r[i] = q[i + 1]
  BY Heads
<1> HIDE DEF r
<1>2. /\ p \in Nat /\ p + Len(q) <= m /\ (cn = "open" => p + Len(q) = m)
      /\ \A i \in 1..Len(q) : q[i] = Sent(cm, p + i)
  BY DEF Segment
<1>3. p + 1 \in Nat /\ (p + 1) + Len(r) = p + Len(q) /\ p + 1 <= m BY <1>1, <1>2
<1>4. ASSUME NEW i \in 1..Len(r) PROVE r[i] = Sent(cm, (p + 1) + i)
  <2>1. q[i + 1] = Sent(cm, p + (i + 1)) BY <1>1, <1>2
  <2>2. p + (i + 1) = (p + 1) + i BY <1>1, <1>2
  <2> QED BY <1>1, <2>1, <2>2
<1>5. Segment(r, cm, p + 1, m, cn) BY <1>2, <1>3, <1>4 DEF Segment
<1>6. Head(q) = Sent(cm, p + 1)
  <2>1. 1 \in 1..Len(q) BY <1>1
  <2> QED BY <1>1, <1>2, <2>1
<1> QED BY <1>2, <1>3, <1>5, <1>6 DEF r

LEMMA SegmentCut ==
  ASSUME NEW q \in Seq(Sound), NEW cm, NEW p, NEW m \in Nat, NEW cn, Segment(q, cm, p, m, cn),
         NEW k \in 0..Len(q), NEW m2 \in Nat, m <= m2
  PROVE  Segment(SubSeq(q, 1, k), cm, p, m2, "closed")
<1> DEFINE r == SubSeq(q, 1, k)
<1>1. Len(r) = k /\ k <= Len(q) /\ Len(q) \in Nat /\ \A i \in 1..k : i \in 1..Len(q) /\ r[i] = q[i]
  BY Starts, Elements
<1> HIDE DEF r
<1>2. p \in Nat /\ p + Len(r) <= m2 BY <1>1 DEF Segment
<1>3. \A i \in 1..Len(r) : r[i] = Sent(cm, p + i) BY <1>1 DEF Segment
<1>4. Segment(r, cm, p, m2, "closed") BY <1>2, <1>3 DEF Segment
<1> QED BY <1>4 DEF r

LEMMA SegmentGrows ==
  ASSUME NEW q \in Seq(Sound), NEW cm, NEW p, NEW m \in Nat, Segment(q, cm, p, m, "open"),
         NEW f \in Sound, f = Sent(cm, m + 1)
  PROVE  Segment(q \o <<f>>, cm, p, m + 1, "open")
<1> DEFINE r == q \o <<f>>
<1>1. /\ Len(q) \in Nat /\ Len(r) = Len(q) + 1 /\ r[Len(q) + 1] = f
      /\ \A i \in 1..Len(q) : r[i] = q[i]
  OBVIOUS
<1> HIDE DEF r
<1>2. p \in Nat /\ p + Len(q) = m /\ \A i \in 1..Len(q) : q[i] = Sent(cm, p + i) BY DEF Segment
<1>3. p + Len(r) = m + 1 /\ p + (Len(q) + 1) = m + 1 BY <1>1, <1>2
<1>4. ASSUME NEW i \in 1..Len(r) PROVE r[i] = Sent(cm, p + i)
  <2>1. i \in 1..Len(q) \/ i = Len(q) + 1 BY <1>1
  <2> QED BY <1>1, <1>2, <1>3, <2>1
<1>5. Segment(r, cm, p, m + 1, "open") BY <1>2, <1>3, <1>4 DEF Segment
<1> QED BY <1>5 DEF r

LEMMA SegmentClosed ==
  ASSUME NEW q \in Seq(Sound), NEW cm, NEW p, NEW m \in Nat, NEW cn, Segment(q, cm, p, m, cn),
         NEW m2 \in Nat, m <= m2
  PROVE  Segment(q, cm, p, m2, "closed") /\ Segment(<<>>, cm, p, m2, "closed")
<1>1. Len(<<>>) = 0 OBVIOUS
<1>2. p \in Nat /\ p + Len(q) <= m2 /\ p + 0 <= m2
  <2>1. Len(q) \in Nat BY Elements
  <2> QED BY <2>1 DEF Segment
<1>3. \A i \in 1..0 : FALSE OBVIOUS
<1> QED BY <1>1, <1>2, <1>3 DEF Segment

\* What the frames sent are.
LEMMA SentFrames ==
  ASSUME NEW cm \in Transfers, NEW i \in Nat \ {0}
  PROVE  /\ i = 1 => Sent(cm, i).type = "Hello"
         /\ i = 2 => Sent(cm, i).type = IF cm = "pull" THEN "Get" ELSE "Put"
         /\ i \in 3..Items + 2 => Sent(cm, i).type = "Chunk" /\ Sent(cm, i).n = i - 2
         /\ i > Items + 2 /\ i > 2 => Sent(cm, i).type = "Done"
         /\ Sent(cm, i).kind = IF i = 1 THEN "control" ELSE "files"
<1>1. Request[cm] = IF cm = "pull" THEN F("files", "Get", 0) ELSE F("files", "Put", 0)
  BY DEF Transfers, Request
<1> QED BY <1>1, ServicesAssumption DEF Sent, F

LEMMA BareKept ==
  ASSUME NEW q \in Seq(Sound)
  PROVE  /\ \A k \in 0..Len(q) : /\ Bare(q) => Bare(SubSeq(q, 1, k))
                                 /\ Ends(SubSeq(q, 1, k)) => Ends(q)
         /\ q # <<>> => (Bare(q) => Bare(Tail(q))) /\ (Ends(Tail(q)) => Ends(q))
         /\ \A f \in Sound : /\ Bare(q) /\ f.type \notin {"Chunk", "Done"} => Bare(q \o <<f>>)
                             /\ Ends(q \o <<f>>) => Ends(q) \/ f.type = "Done"
<1>1. ASSUME NEW k \in 0..Len(q)
      PROVE  /\ Bare(q) => Bare(SubSeq(q, 1, k))
             /\ Ends(SubSeq(q, 1, k)) => Ends(q)
  <2> DEFINE r == SubSeq(q, 1, k)
  <2>1. Len(r) = k /\ \A i \in 1..k : i \in 1..Len(q) /\ r[i] = q[i] BY <1>1, Starts
  <2> HIDE DEF r
  <2>2. (Bare(q) => Bare(r)) /\ (Ends(r) => Ends(q)) BY <2>1 DEF Bare, Ends
  <2> QED BY <2>2 DEF r
<1>2. ASSUME q # <<>> PROVE (Bare(q) => Bare(Tail(q))) /\ (Ends(Tail(q)) => Ends(q))
  <2> DEFINE r == Tail(q)
  <2>1. \A i \in 1..Len(r) : i + 1 \in 1..Len(q) /\ r[i] = q[i + 1] BY <1>2, Heads
  <2> HIDE DEF r
  <2>2. (Bare(q) => Bare(r)) /\ (Ends(r) => Ends(q)) BY <2>1 DEF Bare, Ends
  <2> QED BY <2>2 DEF r
<1>3. ASSUME NEW f \in Sound
      PROVE  /\ Bare(q) /\ f.type \notin {"Chunk", "Done"} => Bare(q \o <<f>>)
             /\ Ends(q \o <<f>>) => Ends(q) \/ f.type = "Done"
  <2> DEFINE r == q \o <<f>>
  <2>1. /\ Len(q) \in Nat /\ Len(r) = Len(q) + 1 /\ r[Len(q) + 1] = f
        /\ \A i \in 1..Len(q) : r[i] = q[i]
    BY <1>3
  <2> HIDE DEF r
  <2>2. \A i \in 1..Len(r) : i \in 1..Len(q) \/ i = Len(q) + 1 BY <2>1
  <2>3. Bare(q) /\ f.type \notin {"Chunk", "Done"} => Bare(r) BY <2>1, <2>2 DEF Bare
  <2>4. Ends(r) => Ends(q) \/ f.type = "Done" BY <2>1, <2>2 DEF Ends
  <2> QED BY <2>3, <2>4 DEF r
<1> QED BY <1>1, <1>2, <1>3

LEMMA CopyingBare ==
  ASSUME NEW q \in Seq(Sound), Bare(q), NEW f \in Seq(0..Items)
  PROVE  Copying(q, Len(q), f, <<>>)
<1>1. Len(q) \in Nat /\ Len(f) \in Nat BY Elements
<1>2. Len(<<>>) = 0 OBVIOUS
<1>3. \A i \in 1..0 : FALSE OBVIOUS
<1>4. \A i \in Len(q) + 1..Len(q) : FALSE BY <1>1
<1> QED BY <1>1, <1>2, <1>3, <1>4 DEF Copying, Bare

LEMMA CopyingCut ==
  ASSUME NEW q \in Seq(Sound), NEW c, NEW f, NEW l, Copying(q, c, f, l), NEW k \in 0..Len(q)
  PROVE  \E d : Copying(SubSeq(q, 1, k), d, f, l)
<1> DEFINE r == SubSeq(q, 1, k)
           d == IF c < k THEN c ELSE k
<1>1. Len(r) = k /\ \A i \in 1..k : i \in 1..Len(q) /\ r[i] = q[i] BY Starts
<1>2. c \in 0..Len(q) /\ Len(q) \in Nat /\ k \in Nat BY Elements DEF Copying
<1>3. d \in 0..k /\ d <= c /\ (d # k => d = c) BY <1>2
<1> HIDE DEF r, d
<1>4. ASSUME NEW i \in 1..d PROVE r[i].type \notin {"Chunk", "Done"}
  <2>1. i \in 1..k /\ i \in 1..c BY <1>2, <1>3
  <2> QED BY <1>1, <2>1 DEF Copying
<1>5. ASSUME NEW i \in d + 1..Len(r)
      PROVE  \/ r[i].type = "Chunk" /\ Len(l) + i - d <= Len(f) /\ r[i].n = f[Len(l) + i - d]
             \/ r[i].type = "Done" /\ Len(l) + i - d = Len(f) + 1
  <2>1. d = c /\ i \in 1..k /\ i \in c + 1..Len(q) BY <1>1, <1>2, <1>3
  <2>2. r[i] = q[i] BY <1>1, <2>1
  <2>3. \/ q[i].type = "Chunk" /\ Len(l) + i - c <= Len(f) /\ q[i].n = f[Len(l) + i - c]
        \/ q[i].type = "Done" /\ Len(l) + i - c = Len(f) + 1
    BY <2>1 DEF Copying
  <2> QED BY <2>1, <2>2, <2>3
<1>6. d \in 0..Len(r) /\ Len(l) <= Len(f) /\ \A i \in 1..Len(l) : l[i] = f[i]
  BY <1>1, <1>3 DEF Copying
<1>7. Copying(r, d, f, l) BY <1>4, <1>5, <1>6 DEF Copying
<1> QED BY <1>7 DEF r

\* The host answers a pull with the whole file.
LEMMA CopyingStarts ==
  ASSUME NEW q \in Seq(Sound), Bare(q), NEW f \in Seq(0..Items), Len(f) <= Items + 1
  PROVE  Copying(q \o Append(Chunks(f), F("files", "Done", Len(f))), Len(q), f, <<>>)
<1> DEFINE d == F("files", "Done", Len(f))
           a == Append(Chunks(f), d)
           r == q \o a
<1>1. Len(q) \in Nat /\ Len(f) \in Nat BY Elements
<1>2. /\ Chunks(f) \in Seq(Sound) /\ Len(Chunks(f)) = Len(f) /\ d \in Sound
      /\ \A i \in 1..Len(f) : Chunks(f)[i] = F("files", "Chunk", f[i])
      /\ a \in Seq(Sound)
  BY ChunksType
<1>3. Len(a) = Len(f) + 1 /\ a[Len(f) + 1] = d /\ \A i \in 1..Len(f) : a[i] = Chunks(f)[i]
  BY <1>1, <1>2
<1> HIDE DEF a
<1>4. /\ Len(r) = Len(q) + Len(a) /\ \A i \in 1..Len(q) : r[i] = q[i]
      /\ \A i \in 1..Len(a) : r[Len(q) + i] = a[i]
  BY <1>2, Joins
<1> HIDE DEF r
<1>5. ASSUME NEW i \in Len(q) + 1..Len(r)
      PROVE  \/ r[i].type = "Chunk" /\ 0 + i - Len(q) <= Len(f) /\ r[i].n = f[0 + i - Len(q)]
             \/ r[i].type = "Done" /\ 0 + i - Len(q) = Len(f) + 1
  <2> DEFINE j == i - Len(q)
  <2>1. j \in 1..Len(f) + 1 /\ i = Len(q) + j /\ 0 + i - Len(q) = j BY <1>1, <1>3, <1>4
  <2> HIDE DEF j
  <2>2. r[i] = a[j] BY <1>3, <1>4, <2>1
  <2>3. CASE j \in 1..Len(f)
    <3>1. r[i] = F("files", "Chunk", f[j]) BY <1>2, <1>3, <2>2, <2>3
    <3>2. r[i].type = "Chunk" /\ r[i].n = f[j] /\ j <= Len(f) BY <2>3, <3>1 DEF F
    <3> QED BY <2>1, <3>2
  <2>4. CASE j = Len(f) + 1
    <3>1. r[i].type = "Done" BY <1>3, <2>2, <2>4 DEF F
    <3> QED BY <2>1, <2>4, <3>1
  <2>5. j \in 1..Len(f) \/ j = Len(f) + 1 BY <1>1, <2>1
  <2> QED BY <2>3, <2>4, <2>5
<1>6. Len(q) \in 0..Len(r) /\ \A i \in 1..Len(q) : r[i].type \notin {"Chunk", "Done"}
  BY <1>1, <1>3, <1>4 DEF Bare
<1>7. Len(<<>>) = 0 /\ 0 <= Len(f) /\ \A i \in 1..0 : FALSE BY <1>1
<1>8. Copying(r, Len(q), f, <<>>) BY <1>5, <1>6, <1>7 DEF Copying
<1> QED BY <1>8 DEF r, a

\* The client writes the next chunk, or learns that there is none.
LEMMA CopyingReads ==
  ASSUME NEW q \in Seq(Sound), q # <<>>, NEW c, NEW f \in Seq(0..Items), NEW l \in Seq(0..Items),
         Copying(q, c, f, l), Head(q).type \in {"Chunk", "Done"}
  PROVE  /\ Head(q).type = "Chunk" => Copying(Tail(q), 0, f, Append(l, Head(q).n))
         /\ Head(q).type = "Done" => l = f
<1> DEFINE r == Tail(q)
<1>1. /\ Head(q) = q[1] /\ Len(q) \in Nat \ {0} /\ Len(r) = Len(q) - 1
      /\ \A i \in 1..Len(r) : i + 1 \in 1..Len(q) /\ i \in Int /\ r[i] = q[i + 1]
  BY Heads
<1> HIDE DEF r
<1>2. Len(f) \in Nat /\ Len(l) \in Nat BY Elements
<1>3. c = 0
  <2>1. c \in 0..Len(q) BY DEF Copying
  <2>2. ASSUME c # 0 PROVE FALSE
    <3>1. 1 \in 1..c BY <2>1, <2>2
    <3> QED BY <1>1, <3>1 DEF Copying
  <2> QED BY <2>2
<1>4. Len(l) <= Len(f) /\ \A i \in 1..Len(l) : l[i] = f[i] BY DEF Copying
<1>5. \A i \in 1..Len(q) :
        \/ q[i].type = "Chunk" /\ Len(l) + i <= Len(f) /\ q[i].n = f[Len(l) + i]
        \/ q[i].type = "Done" /\ Len(l) + i = Len(f) + 1
  <2>1. SUFFICES ASSUME NEW i \in 1..Len(q)
                 PROVE  \/ q[i].type = "Chunk" /\ Len(l) + i <= Len(f) /\ q[i].n = f[Len(l) + i]
                        \/ q[i].type = "Done" /\ Len(l) + i = Len(f) + 1
    OBVIOUS
  <2>2. i \in c + 1..Len(q) /\ Len(l) + i - c = Len(l) + i BY <1>1, <1>2, <1>3
  <2>3. \/ q[i].type = "Chunk" /\ Len(l) + i - c <= Len(f) /\ q[i].n = f[Len(l) + i - c]
        \/ q[i].type = "Done" /\ Len(l) + i - c = Len(f) + 1
    BY <2>2 DEF Copying
  <2> QED BY <2>2, <2>3
<1>6. 1 \in 1..Len(q) BY <1>1
<1>7. ASSUME Head(q).type = "Done" PROVE l = f
  <2>1. Len(l) + 1 = Len(f) + 1 BY <1>1, <1>5, <1>6, <1>7
  <2>2. Len(l) = Len(f) BY <1>2, <2>1
  <2> QED BY <1>4, <2>2, SameSeq
<1>8. ASSUME Head(q).type = "Chunk" PROVE Copying(r, 0, f, Append(l, Head(q).n))
  <2> DEFINE m == Append(l, Head(q).n)
  <2>1. Len(l) + 1 <= Len(f) /\ Head(q).n = f[Len(l) + 1] BY <1>1, <1>5, <1>6, <1>8
  <2>2. Len(m) = Len(l) + 1 /\ m[Len(l) + 1] = Head(q).n /\ \A i \in 1..Len(l) : m[i] = l[i]
    BY <1>2
  <2> HIDE DEF m
  <2>3. ASSUME NEW i \in 1..Len(m) PROVE m[i] = f[i]
    <3>1. i \in 1..Len(l) \/ i = Len(l) + 1 BY <1>2, <2>2
    <3> QED BY <1>4, <2>1, <2>2, <3>1
  <2>4. ASSUME NEW i \in 0 + 1..Len(r)
        PROVE  \/ r[i].type = "Chunk" /\ Len(m) + i - 0 <= Len(f) /\ r[i].n = f[Len(m) + i - 0]
               \/ r[i].type = "Done" /\ Len(m) + i - 0 = Len(f) + 1
    <3>1. i \in 1..Len(r) /\ i \in Int /\ i + 1 \in 1..Len(q) /\ r[i] = q[i + 1] BY <1>1
    <3>2. Len(m) + i - 0 = Len(l) + (i + 1) BY <1>2, <2>2, <3>1
    <3>3. \/ q[i + 1].type = "Chunk" /\ Len(l) + (i + 1) <= Len(f) /\ q[i + 1].n = f[Len(l) + (i + 1)]
          \/ q[i + 1].type = "Done" /\ Len(l) + (i + 1) = Len(f) + 1
      BY <1>5, <3>1
    <3> QED BY <3>1, <3>2, <3>3
  <2>5. 0 \in 0..Len(r) /\ \A i \in 1..0 : FALSE BY <1>1
  <2>6. Len(m) <= Len(f) BY <2>1, <2>2
  <2>7. Copying(r, 0, f, m) BY <2>3, <2>4, <2>5, <2>6 DEF Copying
  <2> QED BY <2>7 DEF m
<1> QED BY <1>7, <1>8 DEF r

LEMMA CopyType ==
  ASSUME TypeInv
  PROVE  /\ lane["client"] \in Seq(Sound) /\ lane["host"] \in Seq(Sound)
         /\ lane \in [Sides -> Seq(Sound)] /\ at \in [Sides -> Points]
         /\ out["client"] \in Nat /\ out["client"] <= Items /\ out \in [Sides -> 0..Items]
         /\ file \in Seq(0..Items) /\ Len(file) <= Items + 1 /\ local \in Seq(0..Items)
         /\ conn \in {"open", "closed"} /\ SentNow \in Nat /\ SentNow <= Items + 3
         /\ Peer("client") = "host" /\ Peer("host") = "client"
         /\ "client" \in Sides /\ "host" \in Sides
<1>1. /\ lane \in [Sides -> Seq(Sound)] /\ out \in [Sides -> 0..Items] /\ at \in [Sides -> Points]
      /\ conn \in {"open", "closed"} /\ file \in Seq(0..Items) /\ Len(file) <= Items + 1
      /\ local \in Seq(0..Items)
  BY TypeParts
<1>2. "client" \in Sides /\ "host" \in Sides /\ Peer("client") = "host" /\ Peer("host") = "client"
  BY DEF Sides, Peer
<1>3. out["client"] \in Nat /\ out["client"] <= Items BY <1>1, <1>2, ServicesAssumption
<1>4. SentNow \in Nat /\ SentNow <= Items + 3 BY <1>3, ServicesAssumption DEF SentNow
<1> QED BY <1>1, <1>2, <1>3, <1>4

LEMMA CopyInvInit == Init => CopyInv
<1> SUFFICES ASSUME Init PROVE Copier /\ Taken(0) BY DEF CopyInv
<1>1. /\ at["host"] = "accept" /\ at["client"] = "ack" /\ conn = "open" /\ shell = "none"
      /\ out["client"] = 0 /\ termOut = <<>> /\ lane["client"] = <<>>
      /\ lane["host"] = <<F("control", "Hello", 0)>>
  BY DEF Init, Sides
<1>2. Copier BY <1>1 DEF Copier, Ended
<1>3. SentNow = 1 BY <1>1 DEF SentNow
<1>4. Segment(lane["host"], cmd, 0, 1, "open")
  <2>1. Len(lane["host"]) = 1 /\ lane["host"][1] = Sent(cmd, 0 + 1) BY <1>1 DEF Sent
  <2> QED BY <2>1 DEF Segment
<1>5. Bare(lane["client"]) /\ ~Ends(lane["client"])
  <2>1. \A i \in 1..Len(lane["client"]) : FALSE BY <1>1
  <2> QED BY <2>1 DEF Bare, Ends
<1>6. Pulling(0) /\ Pushing(0) BY <1>1, <1>5 DEF Pulling, Pushing
<1> QED BY <1>1, <1>2, <1>3, <1>4, <1>6 DEF Taken

\* What is on its way to the client, cut short.
LEMMA PartsCut ==
  ASSUME TypeInv, NEW p, IF cmd = "pull" THEN Pulling(p) ELSE Pushing(p),
         NEW q \in Seq(Sound), NEW k \in 0..Len(lane["client"]),
         q = lane["client"] \/ q = SubSeq(lane["client"], 1, k),
         lane'["client"] = q, UNCHANGED <<cmd, file, put, local>>, at'["client"] = at["client"]
  PROVE  IF cmd = "pull" THEN Pulling(p)' ELSE Pushing(p)'
<1>1. /\ Bare(lane["client"]) => Bare(q)
      /\ Ends(q) => Ends(lane["client"])
  <2> DEFINE r == SubSeq(lane["client"], 1, k)
  <2>1. (Bare(lane["client"]) => Bare(r)) /\ (Ends(r) => Ends(lane["client"]))
    BY CopyType, BareKept
  <2>2. q = lane["client"] \/ q = r OBVIOUS
  <2> HIDE DEF r
  <2> QED BY <2>1, <2>2
<1>2. ASSUME cmd = "pull" PROVE Pulling(p)'
  <2>1. p <= 1 => Bare(lane'["client"]) BY <1>1, <1>2 DEF Pulling
  <2>2. ASSUME at["client"] = "wait"
        PROVE  (p <= 1 => local = <<>>) /\ \E c : Copying(q, c, file, local)
    <3>1. PICK c : Copying(lane["client"], c, file, local) BY <1>2, <2>2 DEF Pulling
    <3>2. \E d : Copying(SubSeq(lane["client"], 1, k), d, file, local)
      BY <3>1, CopyType, CopyingCut
    <3>3. p <= 1 => local = <<>> BY <1>2, <2>2 DEF Pulling
    <3> QED BY <3>1, <3>2, <3>3
  <2>3. at["client"] = "ok" => local = file BY <1>2 DEF Pulling
  <2> QED BY <2>1, <2>2, <2>3 DEF Pulling
<1>3. ASSUME cmd # "pull" PROVE Pushing(p)' BY <1>1, <1>3 DEF Pushing
<1> QED BY <1>2, <1>3

\* The host's session ends.
LEMMA CopyHostLeaves ==
  ASSUME TypeInv, CopyInv, HostLeaves(<<>>)
  PROVE  CopyInv'
<1> SUFFICES ASSUME cmd \in Transfers, ~denied PROVE (Copier /\ \E p : Taken(p))'
  BY DEF CopyInv, HostLeaves, setting
<1>1. Copier /\ \E p : Taken(p) BY DEF CopyInv
<1>2. PICK p : Taken(p) BY <1>1
<1>3. /\ at' = [at EXCEPT !["host"] = "err"] /\ conn' = "closed" /\ termOut' = <<>>
      /\ cmd' = cmd /\ shell' = shell /\ out' = out /\ UNCHANGED <<file, put, local>>
  BY DEF HostLeaves, Leave, GoesTo, apps, files, setting
<1>4. at'["host"] = "err" /\ at'["client"] = at["client"] BY <1>3, CopyType
<1>5. /\ lane'["host"] = <<>> /\ lane' \in [Sides -> Seq(Sound)]
      /\ \E k \in 0..Len(lane["client"] \o <<>>) :
           lane'["client"] = IF conn = "open" THEN SubSeq(lane["client"] \o <<>>, 1, k)
                                              ELSE lane["client"]
  <2>1. Leave("host", "err", <<>>) /\ "host" \in Sides /\ Peer("host") = "client"
    BY CopyType DEF HostLeaves
  <2>2. /\ lane'["host"] = <<>> /\ lane' \in [Sides -> Seq(Sound)]
        /\ \E k \in 0..Len(lane[Peer("host")] \o <<>>) :
             lane'[Peer("host")] = IF conn = "open" THEN SubSeq(lane[Peer("host")] \o <<>>, 1, k)
                                                     ELSE lane[Peer("host")]
    BY <2>1, CopyType, LeaveLanes, NoFrames
  <2> QED BY <2>1, <2>2
<1>6. lane["client"] \o <<>> = lane["client"] BY CopyType, JoinsNone
<1>7. Copier' BY <1>1, <1>3, <1>4 DEF Copier
<1>8. SentNow' = SentNow BY <1>3, <1>4 DEF SentNow
<1>9. Segment(lane'["host"], cmd', p, SentNow', conn')
  <2>1. Segment(lane["host"], cmd, p, SentNow, conn) BY <1>2 DEF Taken
  <2>2. SentNow \in Nat /\ SentNow <= SentNow /\ lane["host"] \in Seq(Sound) BY CopyType
  <2>3. Segment(<<>>, cmd, p, SentNow, "closed") BY <2>1, <2>2, SegmentClosed
  <2> QED BY <1>3, <1>5, <1>8, <2>3
<1>10. IF cmd = "pull" THEN Pulling(p)' ELSE Pushing(p)'
  <2>1. PICK k \in 0..Len(lane["client"]) :
          lane'["client"] = lane["client"] \/ lane'["client"] = SubSeq(lane["client"], 1, k)
    BY <1>5, <1>6
  <2>2. lane'["client"] \in Seq(Sound) BY <1>5, CopyType
  <2>3. IF cmd = "pull" THEN Pulling(p) ELSE Pushing(p) BY <1>2 DEF Taken
  <2> QED BY <1>3, <1>4, <2>1, <2>2, <2>3, PartsCut
<1>11. Taken(p)' BY <1>3, <1>4, <1>9, <1>10 DEF Taken
<1> QED BY <1>7, <1>11

\* The command ends.
LEMMA CopyGone ==
  ASSUME TypeInv, CopyInv, NEW e \in Ended, ClientLeaves(e),
         (cmd \in Transfers /\ ~denied /\ e = "ok") =>
           IF cmd = "pull" THEN local = file ELSE Ends(lane["client"])
  PROVE  CopyInv'
<1> SUFFICES ASSUME cmd \in Transfers, ~denied PROVE (Copier /\ \E p : Taken(p))'
  BY DEF CopyInv, ClientLeaves, setting
<1>1. Copier /\ \E p : Taken(p) BY DEF CopyInv
<1>2. PICK p : Taken(p) BY <1>1
<1>3. /\ at' = [at EXCEPT !["client"] = e] /\ conn' = "closed" /\ termOut' = termOut
      /\ cmd' = cmd /\ shell' = shell /\ out' = out /\ UNCHANGED <<file, put, local>>
  BY DEF ClientLeaves, Leave, GoesTo, apps, files, shells, setting
<1>4. at'["client"] = e /\ at'["host"] = at["host"] BY <1>3, CopyType
<1>5. /\ lane'["client"] = <<>>
      /\ \E k \in 0..Len(lane["host"] \o <<>>) :
           lane'["host"] = IF conn = "open" THEN SubSeq(lane["host"] \o <<>>, 1, k)
                                            ELSE lane["host"]
  <2>1. Leave("client", e, <<>>) /\ "client" \in Sides /\ Peer("client") = "host"
    BY CopyType DEF ClientLeaves
  <2>2. /\ lane'["client"] = <<>>
        /\ \E k \in 0..Len(lane[Peer("client")] \o <<>>) :
             lane'[Peer("client")] = IF conn = "open" THEN SubSeq(lane[Peer("client")] \o <<>>, 1, k)
                                                       ELSE lane[Peer("client")]
    BY <2>1, CopyType, LeaveLanes, NoFrames
  <2> QED BY <2>1, <2>2
<1>6. lane["host"] \o <<>> = lane["host"] BY CopyType, JoinsNone
<1>7. /\ e \notin {"ack", "request", "upload", "wait"} /\ Copier'
  <2>1. e \notin {"ack", "request", "upload", "wait"} BY DEF Ended
  <2> QED BY <1>1, <1>3, <1>4, <2>1 DEF Copier
<1>8. SentNow' \in Nat /\ SentNow <= SentNow'
  <2>1. SentNow' = IF cmd = "pull" THEN 2 ELSE Items + 3 BY <1>3, <1>4, <1>7 DEF SentNow
  <2>2. cmd = "pull" => SentNow <= 2 BY <1>1, <1>3 DEF SentNow, Copier
  <2> QED BY <2>1, <2>2, CopyType, ServicesAssumption
<1>9. Segment(lane'["host"], cmd', p, SentNow', conn')
  <2>1. Segment(lane["host"], cmd, p, SentNow, conn) BY <1>2 DEF Taken
  <2>2. PICK k \in 0..Len(lane["host"]) :
          lane'["host"] = lane["host"] \/ lane'["host"] = SubSeq(lane["host"], 1, k)
    BY <1>5, <1>6
  <2>3. /\ Segment(lane["host"], cmd, p, SentNow', "closed")
        /\ Segment(SubSeq(lane["host"], 1, k), cmd, p, SentNow', "closed")
    BY <1>8, <2>1, CopyType, SegmentClosed, SegmentCut
  <2> QED BY <1>3, <2>2, <2>3
<1>10. Bare(<<>>) /\ ~Ends(<<>>)
  <2>1. Len(<<>>) = 0 /\ \A i \in 1..0 : FALSE OBVIOUS
  <2> QED BY <2>1 DEF Bare, Ends
<1>11. IF cmd = "pull" THEN Pulling(p)' ELSE Pushing(p)'
  <2>1. IF cmd = "pull" THEN Pulling(p) ELSE Pushing(p) BY <1>2 DEF Taken
  <2>2. CASE cmd = "pull" BY <1>3, <1>4, <1>5, <1>7, <1>10, <2>2 DEF Pulling
  <2>3. CASE cmd # "pull" BY <1>3, <1>4, <1>5, <1>10, <2>1, <2>3 DEF Pushing
  <2> QED BY <2>2, <2>3
<1>12. Taken(p)' BY <1>2, <1>3, <1>4, <1>9, <1>11 DEF Taken
<1> QED BY <1>7, <1>12

\* The host takes the next frame the client has sent.
LEMMA CopyTook ==
  ASSUME TypeInv, CopyInv, cmd \in Transfers, ~denied, NEW fs \in Seq(Sound), Take("host", fs),
         UNCHANGED <<cmd, out>>, at'["client"] = at["client"]
  PROVE  \E p : /\ Taken(p) /\ p \in Nat /\ p + 1 <= SentNow
                /\ Segment(lane'["host"], cmd', p + 1, SentNow', conn')
                /\ Next1("host") = Sent(cmd, p + 1) /\ conn' = conn
                /\ lane'["client"] = lane["client"] \o fs
                /\ cmd = "pull" => p <= 1
                /\ p <= Items + 2
<1>1. Copier /\ \E p : Taken(p) BY DEF CopyInv
<1>2. PICK p : Taken(p) BY <1>1
<1>3. /\ conn' = conn /\ lane["host"] # <<>> /\ lane'["host"] = Tail(lane["host"])
      /\ lane'["client"] = lane["client"] \o fs
  <2>1. "host" \in Sides /\ Peer("host") = "client" BY CopyType
  <2>2. /\ conn' = conn /\ lane["host"] # <<>> /\ lane'["host"] = Tail(lane["host"])
        /\ lane'[Peer("host")] = lane[Peer("host")] \o fs
    BY <2>1, CopyType, TakeLanes
  <2> QED BY <2>1, <2>2
<1>4. SentNow' = SentNow BY DEF SentNow
<1>5. Segment(lane["host"], cmd, p, SentNow, conn) BY <1>2 DEF Taken
<1>6. /\ Segment(Tail(lane["host"]), cmd, p + 1, SentNow, conn) /\ p \in Nat
      /\ Head(lane["host"]) = Sent(cmd, p + 1) /\ p + 1 <= SentNow
  BY <1>3, <1>5, CopyType, SegmentTail
<1>7. cmd = "pull" => SentNow <= 2 BY <1>1 DEF SentNow, Copier
<1>8. (cmd = "pull" => p <= 1) /\ p <= Items + 2 BY <1>6, <1>7, CopyType, ServicesAssumption
<1> QED BY <1>2, <1>3, <1>4, <1>6, <1>8 DEF Next1

\* The same, by what the frame is.
LEMMA CopyFrame ==
  ASSUME NEW cm \in Transfers, NEW p \in Nat, p <= Items + 2, cm = "pull" => p <= 1
  PROVE  LET f == Sent(cm, p + 1)
         IN  /\ f.type \in {"Hello", "Get", "Put", "Chunk", "Done"}
             /\ f.kind \in {"control", "files"} /\ (f.kind = "control" => p = 0)
             /\ f.type = "Hello" => p = 0
             /\ f.type = "Get" => p = 1 /\ cm = "pull"
             /\ f.type = "Put" => p = 1 /\ cm # "pull"
             /\ f.type = "Chunk" => p \in 2..Items + 1 /\ f.n = p - 1 /\ cm # "pull"
             /\ f.type = "Done" => p = Items + 2 /\ p >= 2 /\ cm # "pull"
<1> DEFINE i == p + 1
           f == Sent(cm, i)
<1>1. i \in Nat \ {0} /\ i <= Items + 3 BY ServicesAssumption
<1> HIDE DEF f
<1>2. /\ i = 1 => f.type = "Hello"
      /\ i = 2 => f.type = IF cm = "pull" THEN "Get" ELSE "Put"
      /\ i \in 3..Items + 2 => f.type = "Chunk" /\ f.n = i - 2
      /\ i > Items + 2 /\ i > 2 => f.type = "Done"
      /\ f.kind = IF i = 1 THEN "control" ELSE "files"
  BY <1>1, SentFrames DEF f
<1>3. i = 1 \/ i = 2 \/ i \in 3..Items + 2 \/ (i > Items + 2 /\ i > 2)
  BY <1>1, ServicesAssumption
<1>4. cm = "pull" => i = 1 \/ i = 2 BY <1>1
<1>5. CASE i = 1 BY <1>2, <1>5 DEF f
<1>6. CASE i = 2 BY <1>2, <1>6 DEF f
<1>7. CASE i \in 3..Items + 2 BY <1>2, <1>4, <1>7, ServicesAssumption DEF f
<1>8. CASE i > Items + 2 /\ i > 2 BY <1>1, <1>2, <1>4, <1>8, ServicesAssumption DEF f
<1> QED BY <1>3, <1>5, <1>6, <1>7, <1>8

\* A frame of the session comes before what it answers.
LEMMA CopySays ==
  ASSUME TypeInv, NEW p, p <= 1, NEW p2, p2 <= 1, p \in Nat, p2 \in Nat,
         IF cmd = "pull" THEN Pulling(p) ELSE Pushing(p),
         NEW fs \in Seq(Sound),
         \/ fs = <<>>
         \/ \E f \in Sound : f.type \notin {"Chunk", "Done"} /\ fs = <<f>>,
         lane'["client"] = lane["client"] \o fs,
         UNCHANGED <<cmd, file, put, local>>, at'["client"] = at["client"]
  PROVE  IF cmd = "pull" THEN Pulling(p2)' ELSE Pushing(p2)'
<1>1. Items + 3 # p /\ Items + 3 # p2 /\ ~(p2 >= 2) BY ServicesAssumption
<1>2. /\ Bare(lane["client"]) => Bare(lane["client"] \o fs)
      /\ Ends(lane["client"] \o fs) => Ends(lane["client"])
  <2>1. CASE fs = <<>>
    <3>1. lane["client"] \o <<>> = lane["client"] BY CopyType, JoinsNone
    <3> QED BY <2>1, <3>1
  <2>2. CASE \E f \in Sound : f.type \notin {"Chunk", "Done"} /\ fs = <<f>>
    BY <2>2, CopyType, BareKept
  <2> QED BY <2>1, <2>2
<1>3. ASSUME cmd = "pull" PROVE Pulling(p2)'
  <2>1. Bare(lane'["client"]) BY <1>2, <1>3 DEF Pulling
  <2>2. lane'["client"] \in Seq(Sound) BY CopyType, Joins
  <2>3. at["client"] = "wait" => local = <<>> BY <1>3 DEF Pulling
  <2>4. Copying(lane'["client"], Len(lane'["client"]), file, <<>>)
    BY <2>1, <2>2, CopyType, CopyingBare
  <2>5. at["client"] = "ok" => local = file BY <1>3 DEF Pulling
  <2> QED BY <2>1, <2>3, <2>4, <2>5 DEF Pulling
<1>4. ASSUME cmd # "pull" PROVE Pushing(p2)'
  <2>1. ~Ends(lane["client"]) /\ at["client"] # "ok" BY <1>1, <1>4 DEF Pushing
  <2> QED BY <1>1, <1>2, <2>1 DEF Pushing
<1> QED BY <1>3, <1>4

\* Steps that change nothing a copy depends on.
LEMMA CopyStill ==
  ASSUME TypeInv, CopyInv, UNCHANGED <<cmd, lane, conn, file, put, local, shell, termOut>>,
         denied' = denied, at'["client"] = at["client"], out'["client"] = out["client"],
         at' = at \/ at'["host"] = "loop" \/ at["host"] = "accept"
  PROVE  CopyInv'
<1> SUFFICES ASSUME cmd \in Transfers, ~denied PROVE (Copier /\ \E p : Taken(p))'
  BY DEF CopyInv
<1>1. Copier /\ \E p : Taken(p) BY DEF CopyInv
<1>2. PICK p : Taken(p) BY <1>1
<1>3. Copier' /\ SentNow' = SentNow BY <1>1 DEF Copier, SentNow
<1>4. IF cmd = "pull" THEN Pulling(p)' ELSE Pushing(p)' BY <1>2 DEF Taken, Pulling, Pushing
<1>5. Segment(lane'["host"], cmd', p, SentNow', conn') BY <1>2, <1>3 DEF Taken
<1>6. at'["host"] \in {"accept", "hello", "news"} => p <= 1 BY <1>2 DEF Taken
<1>7. Taken(p)' BY <1>4, <1>5, <1>6 DEF Taken
<1> QED BY <1>3, <1>7

LEMMA CopyGreets ==
  ASSUME TypeInv, CopyInv, HostAccept \/ HostHello \/ HostNews
  PROVE  CopyInv'
<1> SUFFICES ASSUME cmd \in Transfers, ~denied PROVE CopyInv'
  BY DEF CopyInv, HostAccept, HostHello, HostNews, HostLeaves, setting
<1>1. Copier /\ \E p : Taken(p) BY DEF CopyInv
<1>2. CASE HostAccept
  <2>1. CASE trusted
    <3>1. /\ at["host"] = "accept" /\ at'["client"] = at["client"] /\ denied' = denied
          /\ UNCHANGED <<cmd, lane, conn, file, put, local, shell, termOut>>
          /\ out'["client"] = out["client"]
      BY <1>2, <2>1, CopyType DEF HostAccept, GoesTo, setting, files, shells, apps
    <3> QED BY <3>1, CopyStill
  <2>2. CASE ~trusted BY <1>2, <2>2, CopyHostLeaves DEF HostAccept
  <2> QED BY <2>1, <2>2
<1>3. CASE HostHello
  <2> DEFINE f == F("control", "HelloAck", 0)
  <2>1. f \in Sound /\ <<f>> \in Seq(Sound) /\ f.type = "HelloAck"
    BY Words, Ones DEF F, Kinds, Types
  <2> HIDE DEF f
  <2>2. /\ Take("host", <<f>>) /\ at'["host"] = "news" /\ at'["client"] = at["client"]
        /\ UNCHANGED <<cmd, out, file, put, local, shell, termOut, denied>>
        /\ Next1("host").type = "Hello"
    BY <1>3, CopyType DEF HostHello, GoesTo, setting, files, shells, apps, f
  <2>3. PICK p : /\ Taken(p) /\ p \in Nat /\ p + 1 <= SentNow
                 /\ Segment(lane'["host"], cmd', p + 1, SentNow', conn')
                 /\ Next1("host") = Sent(cmd, p + 1) /\ conn' = conn
                 /\ lane'["client"] = lane["client"] \o <<f>>
                 /\ cmd = "pull" => p <= 1
                 /\ p <= Items + 2
    BY <2>1, <2>2, CopyTook
  <2>4. p = 0 BY <2>2, <2>3, CopyFrame
  <2> DEFINE p2 == p + 1
  <2>5. p2 \in Nat /\ p2 <= 1 /\ p <= 1 BY <2>3, <2>4
  <2>6. Segment(lane'["host"], cmd', p2, SentNow', conn') BY <2>3
  <2> HIDE DEF p2
  <2>7. IF cmd = "pull" THEN Pulling(p2)' ELSE Pushing(p2)'
    <3>1. IF cmd = "pull" THEN Pulling(p) ELSE Pushing(p) BY <2>3 DEF Taken
    <3>2. \E g \in Sound : g.type \notin {"Chunk", "Done"} /\ <<f>> = <<g>> BY <2>1
    <3> QED BY <2>1, <2>2, <2>3, <2>5, <3>1, <3>2, CopySays
  <2>8. Taken(p2)' BY <2>2, <2>5, <2>6, <2>7 DEF Taken
  <2>9. Copier' BY <1>1, <2>2, <2>3 DEF Copier
  <2> QED BY <2>9, <2>8 DEF CopyInv
<1>4. CASE HostNews
  <2>1. /\ at["host"] = "news" /\ UNCHANGED <<cmd, out, file, put, local, shell, termOut, denied>>
    BY <1>4 DEF HostNews, setting, files, shells, apps
  <2>2. CASE news = <<>> \/ conn = "closed"
    <3>1. at'["host"] = "loop" /\ at'["client"] = at["client"] /\ UNCHANGED <<lane, conn>>
      BY <1>4, <2>2, CopyType DEF HostNews, GoesTo
    <3> QED BY <2>1, <3>1, CopyStill
  <2>3. CASE ~(news = <<>> \/ conn = "closed")
    <3>1. news \in Seq({Snapshot, KickAnnounce}) BY TypeParts
    <3>2. Head(news) \in {Snapshot, KickAnnounce} BY <2>3, <3>1, Heads
    <3>3. PICK f : f = Head(news) /\ Send("host", <<f>>) /\ at' = at
      BY <1>4, <2>3 DEF HostNews
    <3>4. f \in Sound /\ <<f>> \in Seq(Sound) /\ f.type \notin {"Chunk", "Done"}
      BY <3>2, <3>3, Words, Ones DEF Snapshot, KickAnnounce, F
    <3>5. /\ conn' = conn /\ lane'["host"] = lane["host"]
          /\ lane'["client"] = lane["client"] \o <<f>>
      <4>1. "host" \in Sides /\ Peer("host") = "client" BY CopyType
      <4>2. /\ conn' = conn /\ lane'["host"] = lane["host"]
            /\ lane'[Peer("host")] = lane[Peer("host")] \o <<f>>
        BY <3>3, <3>4, <4>1, CopyType, SendLanes
      <4> QED BY <4>1, <4>2
    <3>6. PICK p : Taken(p) BY <1>1
    <3>7. p \in Nat /\ p <= 1 BY <2>1, <3>6 DEF Taken, Segment
    <3>8. SentNow' = SentNow BY <2>1, <3>3 DEF SentNow
    <3>9. IF cmd = "pull" THEN Pulling(p)' ELSE Pushing(p)'
      <4>1. IF cmd = "pull" THEN Pulling(p) ELSE Pushing(p) BY <3>6 DEF Taken
      <4>2. \E g \in Sound : g.type \notin {"Chunk", "Done"} /\ <<f>> = <<g>> BY <3>4
      <4> QED BY <2>1, <3>3, <3>4, <3>5, <3>7, <4>1, <4>2, CopySays
    <3>10. Segment(lane'["host"], cmd', p, SentNow', conn')
      BY <2>1, <3>5, <3>6, <3>8 DEF Taken
    <3>11. Taken(p)' BY <2>1, <3>3, <3>7, <3>9, <3>10 DEF Taken
    <3>12. Copier' BY <1>1, <2>1, <3>3, <3>5 DEF Copier
    <3> QED BY <3>11, <3>12 DEF CopyInv
  <2> QED BY <2>2, <2>3
<1> QED BY <1>2, <1>3, <1>4

LEMMA WrittenNext ==
  ASSUME NEW n \in Nat
  PROVE  WriteChunk(Upto(n), n + 1) = Upto(n + 1)
<1>1. Len(Upto(n)) = n /\ \A i \in 1..n : Upto(n)[i] = i BY DEF Upto
<1>2. WriteChunk(Upto(n), n + 1) =
        [i \in 1..n + 1 |-> IF i = n + 1 THEN n + 1 ELSE IF i <= n THEN Upto(n)[i] ELSE 0]
  BY <1>1 DEF WriteChunk
<1>3. \A i \in 1..n + 1 :
        (IF i = n + 1 THEN n + 1 ELSE IF i <= n THEN Upto(n)[i] ELSE 0) = i
  <2>1. SUFFICES ASSUME NEW i \in 1..n + 1
                 PROVE (IF i = n + 1 THEN n + 1 ELSE IF i <= n THEN Upto(n)[i] ELSE 0) = i
    OBVIOUS
  <2>2. i = n + 1 \/ (i <= n /\ i \in 1..n) OBVIOUS
  <2> QED BY <1>1, <2>2
<1> QED BY <1>2, <1>3 DEF Upto

\* The host serves a frame of a copy without an answer that is one of it.
LEMMA CopyServes ==
  ASSUME TypeInv, CopyInv,
         HostIgnores \/ HostControl \/ HostOpen \/ HostInput \/ HostOutput \/ HostDial
           \/ HostFails \/ HostLost \/ HostMisreads
  PROVE  CopyInv'
<1>1. CASE HostFails \/ HostLost \/ HostMisreads
  BY <1>1, CopyHostLeaves DEF HostFails, HostLost, HostMisreads
<1>2. CASE HostIgnores BY <1>2 DEF HostIgnores, CopyInv
<1>3. CASE HostControl \/ HostOpen \/ HostInput \/ HostOutput \/ HostDial
  <2>1. SUFFICES ASSUME cmd \in Transfers, ~denied PROVE CopyInv'
    BY <1>3 DEF CopyInv, HostControl, HostOpen, Spawn, HostInput, HostOutput, HostDial, HostLeaves, setting
  <2>2. Copier /\ \E p : Taken(p) BY <2>1 DEF CopyInv
  <2>3. ~HostOutput BY <2>2 DEF Copier, HostOutput
  <2>4. Has("host") => \E p \in Nat : /\ Next1("host") = Sent(cmd, p + 1) /\ p <= Items + 2
                                      /\ cmd = "pull" => p <= 1
    <3>1. SUFFICES ASSUME Has("host") PROVE \E p \in Nat :
            /\ Next1("host") = Sent(cmd, p + 1) /\ p <= Items + 2 /\ (cmd = "pull" => p <= 1)
      OBVIOUS
    <3>2. PICK p : Segment(lane["host"], cmd, p, SentNow, conn) BY <2>2 DEF Taken
    <3>3. lane["host"] # <<>> /\ lane["host"] \in Seq(Sound) /\ SentNow \in Nat
      BY <3>1, CopyType DEF Has
    <3>4. p \in Nat /\ Head(lane["host"]) = Sent(cmd, p + 1) /\ p + 1 <= SentNow
      BY <3>2, <3>3, SegmentTail
    <3>5. cmd = "pull" => SentNow <= 2 BY <2>2 DEF SentNow, Copier
    <3>6. p <= Items + 2 /\ (cmd = "pull" => p <= 1) BY <3>4, <3>5, CopyType, ServicesAssumption
    <3> QED BY <3>4, <3>6 DEF Next1
  <2>5. Has("host") => /\ Next1("host").kind \in {"control", "files"}
                       /\ Next1("host").type \in {"Hello", "Get", "Put", "Chunk", "Done"}
    BY <2>1, <2>4, CopyFrame
  <2>6. HostControl BY <1>3, <2>3, <2>5 DEF HostOpen, HostInput, HostDial, Serves
  <2>7. /\ Take("host", <<>>) /\ Next1("host").kind = "control" /\ at["host"] = "loop"
        /\ UNCHANGED <<cmd, out, file, put, local, shell, termOut, denied, at>>
    BY <2>5, <2>6 DEF HostControl, Serves, setting, files, shells, apps
  <2>8. PICK p : /\ Taken(p) /\ p \in Nat /\ p + 1 <= SentNow
                 /\ Segment(lane'["host"], cmd', p + 1, SentNow', conn')
                 /\ Next1("host") = Sent(cmd, p + 1) /\ conn' = conn
                 /\ lane'["client"] = lane["client"] \o <<>>
                 /\ cmd = "pull" => p <= 1
                 /\ p <= Items + 2
    BY <2>1, <2>7, NoFrames, CopyTook
  <2>9. p = 0 BY <2>1, <2>7, <2>8, CopyFrame
  <2> DEFINE p2 == p + 1
  <2>10. p2 \in Nat /\ p2 <= 1 /\ p <= 1 BY <2>8, <2>9
  <2>11. Segment(lane'["host"], cmd', p2, SentNow', conn') BY <2>8
  <2> HIDE DEF p2
  <2>12. IF cmd = "pull" THEN Pulling(p2)' ELSE Pushing(p2)'
    <3>1. IF cmd = "pull" THEN Pulling(p) ELSE Pushing(p) BY <2>8 DEF Taken
    <3> QED BY <2>7, <2>8, <2>10, <3>1, NoFrames, CopySays
  <2>13. Taken(p2)' BY <2>7, <2>10, <2>11, <2>12 DEF Taken
  <2>14. Copier' BY <2>2, <2>7, <2>8 DEF Copier
  <2> QED BY <2>13, <2>14 DEF CopyInv
<1> QED BY <1>1, <1>2, <1>3

\* The host opens, writes and closes the file of a put.
LEMMA CopyWrites ==
  ASSUME TypeInv, CopyInv, HostPut \/ HostChunk \/ HostDone
  PROVE  CopyInv'
<1> SUFFICES ASSUME cmd \in Transfers, ~denied PROVE CopyInv'
  BY DEF CopyInv, HostPut, HostChunk, HostDone, setting
<1>1. Copier /\ \E p : Taken(p) BY DEF CopyInv
<1>2. PICK fs \in Seq(Sound) :
        /\ Take("host", fs) /\ at["host"] = "loop"
        /\ Next1("host").type \in {"Put", "Chunk", "Done"}
        /\ UNCHANGED <<cmd, out, local, shell, termOut, denied, at>>
        /\ Next1("host").type = "Put" => HostPut
        /\ Next1("host").type = "Chunk" => HostChunk
        /\ Next1("host").type = "Done" => HostDone
        /\ fs = <<>> \/ fs = <<Next1("host")>>
        /\ Next1("host").type # "Done" => fs = <<>>
  <2>1. CASE HostPut
    BY <2>1, NoFrames DEF HostPut, Serves, setting, shells, apps
  <2>2. CASE HostChunk
    BY <2>2, NoFrames DEF HostChunk, Serves, setting, shells, apps
  <2>3. CASE HostDone
    <3>1. <<Next1("host")>> \in Seq(Sound)
      <4>1. Has("host") BY <2>3 DEF HostDone, Serves
      <4> QED BY <4>1, CopyType, Foremost, Ones
    <3> QED BY <2>3, <3>1 DEF HostDone, Serves, setting, shells, apps
  <2> QED BY <2>1, <2>2, <2>3
<1>3. PICK p : /\ Taken(p) /\ p \in Nat /\ p + 1 <= SentNow
               /\ Segment(lane'["host"], cmd', p + 1, SentNow', conn')
               /\ Next1("host") = Sent(cmd, p + 1) /\ conn' = conn
               /\ lane'["client"] = lane["client"] \o fs
               /\ cmd = "pull" => p <= 1
               /\ p <= Items + 2
  BY <1>2, CopyTook
<1> DEFINE f == Sent(cmd, p + 1)
<1>4. /\ f.type = "Put" => p = 1 /\ cmd # "pull"
      /\ f.type = "Chunk" => p \in 2..Items + 1 /\ f.n = p - 1 /\ cmd # "pull"
      /\ f.type = "Done" => p = Items + 2 /\ p >= 2 /\ cmd # "pull"
  BY <1>3, CopyFrame
<1>5. Next1("host") = f BY <1>3
<1> HIDE DEF f
<1>6. cmd # "pull" BY <1>2, <1>4, <1>5
<1>7. Pushing(p) BY <1>3, <1>6 DEF Taken
<1>8. ~Ends(lane["client"]) /\ at["client"] # "ok" BY <1>3, <1>7, ServicesAssumption DEF Pushing
<1> DEFINE p2 == p + 1
<1>9. /\ Segment(lane'["host"], cmd', p2, SentNow', conn') /\ p2 \in Nat
      /\ p2 >= 2 /\ (f.type # "Done" => p2 <= Items + 2) /\ (f.type = "Done" => p2 = Items + 3)
  BY <1>2, <1>3, <1>4, <1>5, ServicesAssumption
<1>10. /\ file' = Upto(IF p2 - 2 <= Items THEN p2 - 2 ELSE Items)
       /\ put' = (p2 <= Items + 2)
  <2>1. CASE f.type = "Put"
    <3>1. file' = <<>> /\ put' = TRUE BY <1>2, <1>5, <2>1 DEF HostPut
    <3>2. p2 - 2 = 0 /\ p2 <= Items + 2 /\ 0 <= Items BY <1>4, <2>1, ServicesAssumption
    <3>3. Upto(0) = <<>> BY DEF Upto
    <3> HIDE DEF p2
    <3> QED BY <3>1, <3>2, <3>3
  <2>2. CASE f.type = "Chunk"
    <3>1. p \in 2..Items + 1 /\ f.n = p - 1 BY <1>4, <2>2
    <3>2. file = Upto(p - 2) /\ put = TRUE
      <4>1. p >= 2 /\ p - 2 <= Items /\ p <= Items + 2 BY <3>1, ServicesAssumption
      <4> QED BY <1>7, <4>1 DEF Pushing
    <3>3. file' = WriteChunk(file, f.n) /\ put' = put
      BY <1>2, <1>5, <2>2, <3>2 DEF HostChunk
    <3> DEFINE n == p - 2
    <3>4. n \in Nat /\ f.n = n + 1 /\ p2 - 2 = n + 1 /\ p2 - 2 <= Items /\ p2 <= Items + 2
      BY <3>1, ServicesAssumption
    <3>5. file = Upto(n) BY <3>2
    <3> HIDE DEF n, p2
    <3>6. file' = Upto(n + 1) BY <3>3, <3>4, <3>5, WrittenNext
    <3> QED BY <3>2, <3>3, <3>4, <3>6
  <2>3. CASE f.type = "Done"
    <3>1. p = Items + 2 /\ p >= 2 /\ p - 2 = Items /\ Items <= Items
      BY <1>4, <2>3, ServicesAssumption
    <3>2. file = Upto(Items) BY <1>7, <3>1 DEF Pushing
    <3>3. file' = file /\ put' = FALSE BY <1>2, <1>5, <2>3 DEF HostDone
    <3>4. (IF p2 - 2 <= Items THEN p2 - 2 ELSE Items) = Items BY <3>1, ServicesAssumption
    <3>5. (p2 <= Items + 2) = FALSE BY <3>1, ServicesAssumption
    <3> HIDE DEF p2
    <3>6. file' = Upto(IF p2 - 2 <= Items THEN p2 - 2 ELSE Items) BY <3>2, <3>3, <3>4
    <3>7. put' = (p2 <= Items + 2) BY <3>3, <3>5
    <3> QED BY <3>6, <3>7
  <2> QED BY <1>2, <1>5, <2>1, <2>2, <2>3
<1>11. Ends(lane'["client"]) => p2 = Items + 3
  <2>1. CASE f.type = "Done" BY <1>9, <2>1
  <2>2. CASE f.type # "Done"
    <3>1. fs = <<>> BY <1>2, <1>5, <2>2
    <3>2. lane'["client"] = lane["client"] BY <1>3, <3>1, CopyType, JoinsNone
    <3> QED BY <1>8, <3>2
  <2> QED BY <2>1, <2>2
<1> HIDE DEF p2
<1>12. Pushing(p2)' BY <1>2, <1>8, <1>10, <1>11 DEF Pushing
<1>13. Taken(p2)' BY <1>2, <1>6, <1>9, <1>12 DEF Taken
<1>14. Copier' BY <1>1, <1>2, <1>3 DEF Copier
<1> QED BY <1>13, <1>14 DEF CopyInv

\* The host answers a pull.
LEMMA CopyAnswers ==
  ASSUME TypeInv, CopyInv, HostRead
  PROVE  CopyInv'
<1> SUFFICES ASSUME cmd \in Transfers, ~denied PROVE CopyInv'
  BY DEF CopyInv, HostRead, setting
<1>1. Copier /\ \E p : Taken(p) BY DEF CopyInv
<1> DEFINE all == Append(Chunks(file), F("files", "Done", Len(file)))
<1>2. all \in Seq(Sound) BY CopyType, ChunksType
<1>3. <<F("files", "ListResult", 0)>> \in Seq(Sound)
  BY Words, Ones DEF Kinds, Types
<1>4. PICK fs \in Seq(Sound) :
        /\ Take("host", fs) /\ Next1("host").type \in {"Get", "List"} /\ at["host"] = "loop"
        /\ Next1("host").type = "Get" => fs = all
  BY <1>2, <1>3 DEF HostRead, Serves
<1> HIDE DEF all
<1>5. UNCHANGED <<cmd, out, file, put, local, shell, termOut, denied, at>>
  BY DEF HostRead, setting, files, shells, apps
<1>6. PICK p : /\ Taken(p) /\ p \in Nat /\ p + 1 <= SentNow
               /\ Segment(lane'["host"], cmd', p + 1, SentNow', conn')
               /\ Next1("host") = Sent(cmd, p + 1) /\ conn' = conn
               /\ lane'["client"] = lane["client"] \o fs
               /\ cmd = "pull" => p <= 1
               /\ p <= Items + 2
  BY <1>4, <1>5, CopyTook
<1>7. Next1("host").type = "Get" /\ p = 1 /\ cmd = "pull" BY <1>4, <1>6, CopyFrame
<1>8. Pulling(p) /\ Bare(lane["client"]) BY <1>6, <1>7 DEF Taken, Pulling
<1>9. lane'["client"] = lane["client"] \o all BY <1>4, <1>6, <1>7
<1> DEFINE p2 == p + 1
<1>10. Segment(lane'["host"], cmd', p2, SentNow', conn') /\ ~(p2 <= 1) BY <1>6, <1>7
<1> HIDE DEF p2
<1>11. at["client"] = "wait" => \E c : Copying(lane'["client"], c, file, local)
  <2>1. SUFFICES ASSUME at["client"] = "wait" PROVE \E c : Copying(lane'["client"], c, file, local)
    OBVIOUS
  <2>2. local = <<>> BY <1>7, <1>8, <2>1 DEF Pulling
  <2>3. Copying(lane["client"] \o all, Len(lane["client"]), file, <<>>)
    BY <1>8, CopyType, CopyingStarts DEF all
  <2> QED BY <1>9, <2>2, <2>3
<1>12. at["client"] = "ok" => local = file BY <1>8 DEF Pulling
<1>13. Pulling(p2)' BY <1>5, <1>10, <1>11, <1>12 DEF Pulling
<1>14. Taken(p2)' BY <1>4, <1>5, <1>7, <1>10, <1>13 DEF Taken
<1>15. Copier' BY <1>1, <1>5, <1>6 DEF Copier
<1> QED BY <1>14, <1>15 DEF CopyInv

\* The client asks, or sends the next chunk or the end of them.
LEMMA CopySends ==
  ASSUME TypeInv, CopyInv, ClientRequest \/ Upload
  PROVE  CopyInv'
<1> SUFFICES ASSUME cmd \in Transfers, ~denied PROVE CopyInv'
  BY DEF CopyInv, ClientRequest, Upload, setting
<1>1. Copier /\ \E p : Taken(p) BY DEF CopyInv
<1>2. PICK p : Taken(p) BY <1>1
<1>3. UNCHANGED <<cmd, file, put, shell, termOut, denied>>
  BY DEF ClientRequest, Upload, setting, files, shells, apps
<1>4. Request[cmd] = IF cmd = "pull" THEN F("files", "Get", 0) ELSE F("files", "Put", 0)
  BY DEF Request, Transfers
<1>5. PICK f \in Sound :
        /\ Send("client", <<f>>) /\ f = Sent(cmd, SentNow + 1) /\ SentNow' = SentNow + 1
        /\ at'["host"] = at["host"] /\ at'["client"] \in {"upload", "wait"}
        /\ cmd = "pull" => at'["client"] = "wait" /\ at["client"] = "request" /\ local' = <<>>
        /\ at["client"] \in {"request", "upload"}
  <2>1. CASE ClientRequest
    <3>1. at["client"] = "request" /\ Send("client", <<Request[cmd]>>) /\ out' = out
      BY <2>1 DEF ClientRequest, apps
    <3>2. /\ at'["host"] = at["host"]
          /\ at'["client"] = IF cmd = "pull" THEN "wait" ELSE "upload"
      BY <2>1, CopyType DEF ClientRequest, GoesTo, Transfers
    <3>3. SentNow = 1 /\ out["client"] = 0 BY <1>1, <3>1 DEF SentNow, Copier
    <3>4. SentNow' = 2 BY <1>3, <3>1, <3>2, <3>3 DEF SentNow
    <3>5. Sent(cmd, SentNow + 1) = Request[cmd] BY <3>3 DEF Sent
    <3>6. Request[cmd] \in Sound BY Requests, TypeParts
    <3>7. cmd = "pull" => local' = <<>> BY <2>1 DEF ClientRequest
    <3> QED BY <3>1, <3>2, <3>3, <3>4, <3>5, <3>6, <3>7
  <2>2. CASE Upload
    <3>1. at["client"] = "upload" /\ cmd # "pull" BY <1>1, <2>2 DEF Upload, Copier
    <3>2. SentNow = 2 + out["client"] BY <3>1 DEF SentNow
    <3>3. CASE out["client"] < Items
      <4>1. /\ Send("client", <<F("files", "Chunk", out["client"] + 1)>>)
            /\ out' = [out EXCEPT !["client"] = @ + 1] /\ at' = at
        BY <2>2, <3>3 DEF Upload
      <4>2. out'["client"] = out["client"] + 1 BY <4>1, CopyType
      <4>3. SentNow' = SentNow + 1 BY <1>3, <3>1, <3>2, <4>1, <4>2, CopyType DEF SentNow
      <4>4. /\ SentNow + 1 # 1 /\ SentNow + 1 # 2 /\ SentNow + 1 <= Items + 2
            /\ (SentNow + 1) - 2 = out["client"] + 1
        BY <3>2, <3>3, CopyType, ServicesAssumption
      <4>5. Sent(cmd, SentNow + 1) = F("files", "Chunk", out["client"] + 1) BY <4>4 DEF Sent
      <4>6. F("files", "Chunk", out["client"] + 1) \in Sound BY <3>3, CopyType, NumberedOut
      <4> QED BY <3>1, <4>1, <4>3, <4>5, <4>6
    <3>4. CASE ~(out["client"] < Items)
      <4>1. /\ Send("client", <<F("files", "Done", Items)>>)
            /\ at' = [at EXCEPT !["client"] = "wait"] /\ out' = out
        BY <2>2, <3>4 DEF Upload, GoesTo
      <4>2. at'["client"] = "wait" /\ at'["host"] = at["host"] BY <4>1, CopyType
      <4>3. SentNow + 1 = Items + 3 BY <3>2, <3>4, CopyType, ServicesAssumption
      <4>4. SentNow' = SentNow + 1 BY <1>3, <3>1, <4>2, <4>3 DEF SentNow
      <4>5. Items + 3 # 1 /\ Items + 3 # 2 /\ ~(Items + 3 <= Items + 2) BY ServicesAssumption
      <4>6. Sent(cmd, SentNow + 1) = F("files", "Done", Items) BY <4>3, <4>5 DEF Sent
      <4>7. F("files", "Done", Items) \in Sound
        BY FrameSound, ServicesAssumption DEF Kinds, Types
      <4> QED BY <3>1, <4>1, <4>2, <4>4, <4>6, <4>7
    <3> QED BY <3>3, <3>4
  <2> QED BY <2>1, <2>2
<1>6. /\ conn = "open" /\ conn' = conn /\ lane'["client"] = lane["client"]
      /\ lane'["host"] = lane["host"] \o <<f>>
  <2>1. "client" \in Sides /\ Peer("client") = "host" /\ <<f>> \in Seq(Sound) BY CopyType, Ones
  <2>2. /\ conn' = conn /\ lane'["client"] = lane["client"]
        /\ lane'[Peer("client")] = lane[Peer("client")] \o <<f>>
    BY <1>5, <2>1, CopyType, SendLanes
  <2>3. conn = "open" BY <1>5 DEF Send
  <2> QED BY <2>1, <2>2, <2>3
<1>7. Segment(lane'["host"], cmd', p, SentNow', conn')
  <2>1. Segment(lane["host"], cmd, p, SentNow, "open") BY <1>2, <1>6 DEF Taken
  <2>2. Segment(lane["host"] \o <<f>>, cmd, p, SentNow + 1, "open")
    BY <1>5, <2>1, CopyType, SegmentGrows
  <2> QED BY <1>3, <1>5, <1>6, <2>2
<1>8. IF cmd = "pull" THEN Pulling(p)' ELSE Pushing(p)'
  <2>1. CASE cmd = "pull"
    <3>1. at["client"] = "request" /\ at'["client"] = "wait" /\ local' = <<>> BY <1>5, <2>1
    <3>2. p <= 1
      <4>1. SentNow = 1 BY <3>1 DEF SentNow
      <4>2. Segment(lane["host"], cmd, p, 1, conn) /\ Len(lane["host"]) \in Nat
        BY <1>2, <4>1, CopyType, Elements DEF Taken
      <4> QED BY <4>2 DEF Segment
    <3>3. Bare(lane["client"]) BY <1>2, <2>1, <3>2 DEF Taken, Pulling
    <3>4. Copying(lane["client"], Len(lane["client"]), file, <<>>)
      BY <3>3, CopyType, CopyingBare
    <3> QED BY <1>3, <1>6, <2>1, <3>1, <3>3, <3>4 DEF Pulling
  <2>2. CASE cmd # "pull"
    <3>1. Pushing(p) BY <1>2, <2>2 DEF Taken
    <3>2. at'["client"] # "ok" BY <1>5
    <3> QED BY <1>3, <1>6, <2>2, <3>1, <3>2 DEF Pushing
  <2> QED BY <2>1, <2>2
<1>9. Taken(p)' BY <1>2, <1>3, <1>5, <1>7, <1>8 DEF Taken
<1>10. Copier' BY <1>1, <1>3, <1>5, <1>6 DEF Copier, Ended
<1> QED BY <1>9, <1>10, <1>3 DEF CopyInv

\* The client takes a frame: the acknowledgement, one it skips, or a chunk.
LEMMA CopyTakes ==
  ASSUME TypeInv, CopyInv, ClientAck \/ ClientSkips \/ ClientChunk
  PROVE  CopyInv'
<1> SUFFICES ASSUME cmd \in Transfers, ~denied PROVE CopyInv'
  BY DEF CopyInv, ClientAck, ClientSkips, ClientChunk, setting
<1>1. Copier /\ \E p : Taken(p) BY DEF CopyInv
<1>2. PICK p : Taken(p) BY <1>1
<1>3. /\ Take("client", <<>>) /\ UNCHANGED <<cmd, file, put, shell, termOut, out, denied>>
      /\ \/ /\ at["client"] = "ack" /\ at' = [at EXCEPT !["client"] = "request"]
         \/ at["client"] = "wait" /\ at' = at
  BY DEF ClientAck, ClientSkips, ClientChunk, Waits, GoesTo, setting, files, shells, apps
<1>4. /\ at'["host"] = at["host"] /\ at["client"] \in {"ack", "wait"}
      /\ at["client"] = "ack" => at'["client"] = "request"
      /\ at["client"] = "wait" => at'["client"] = "wait"
  BY <1>3, CopyType
<1>5. /\ conn' = conn /\ lane["client"] # <<>> /\ lane'["client"] = Tail(lane["client"])
      /\ lane'["host"] = lane["host"]
  <2>1. "client" \in Sides /\ Peer("client") = "host" BY CopyType
  <2>2. /\ conn' = conn /\ lane["client"] # <<>> /\ lane'["client"] = Tail(lane["client"])
        /\ lane'[Peer("client")] = lane[Peer("client")] \o <<>>
    BY <1>3, <2>1, CopyType, TakeLanes, NoFrames
  <2>3. lane["host"] \o <<>> = lane["host"] BY CopyType, JoinsNone
  <2> QED BY <2>1, <2>2, <2>3
<1>6. SentNow' = SentNow BY <1>3, <1>4 DEF SentNow
<1>7. Segment(lane'["host"], cmd', p, SentNow', conn') BY <1>2, <1>3, <1>5, <1>6 DEF Taken
<1>8. /\ Bare(lane["client"]) => Bare(lane'["client"])
      /\ Ends(lane'["client"]) => Ends(lane["client"])
  BY <1>5, CopyType, BareKept
<1>9. ASSUME cmd # "pull" PROVE Pushing(p)'
  <2>1. Pushing(p) BY <1>2, <1>9 DEF Taken
  <2> QED BY <1>3, <1>4, <1>8, <2>1 DEF Pushing
<1>10. ASSUME cmd = "pull" PROVE Pulling(p)'
  <2>1. Pulling(p) BY <1>2, <1>10 DEF Taken
  <2>2. CASE at["client"] = "ack" BY <1>4, <1>8, <2>1, <2>2 DEF Pulling
  <2>3. CASE at["client"] = "wait"
    <3>1. Next1("client").type = "Chunk" /\ local' = Append(local, Next1("client").n)
      BY <1>10, <2>3 DEF ClientAck, ClientSkips, ClientChunk, Copies
    <3>2. PICK c : Copying(lane["client"], c, file, local) BY <2>1, <2>3 DEF Pulling
    <3>3. Copying(lane'["client"], 0, file, local')
      <4>1. lane["client"] \in Seq(Sound) /\ file \in Seq(0..Items) /\ local \in Seq(0..Items)
        BY CopyType
      <4>2. Head(lane["client"]).type = "Chunk" BY <3>1 DEF Next1
      <4>3. Copying(Tail(lane["client"]), 0, file, Append(local, Head(lane["client"]).n))
        BY <1>5, <3>2, <4>1, <4>2, CopyingReads
      <4> QED BY <1>5, <3>1, <4>3 DEF Next1
    <3>4. ~Bare(lane["client"])
      <4>1. Head(lane["client"]) = lane["client"][1] /\ 1 \in 1..Len(lane["client"])
        BY <1>5, CopyType, Heads
      <4> QED BY <3>1, <4>1 DEF Bare, Next1
    <3>5. ~(p <= 1) BY <2>1, <3>4 DEF Pulling
    <3> QED BY <1>3, <1>4, <2>3, <3>3, <3>5 DEF Pulling
  <2> QED BY <1>4, <2>2, <2>3
<1>11. Taken(p)' BY <1>2, <1>3, <1>4, <1>7, <1>9, <1>10 DEF Taken
<1>12. Copier' BY <1>1, <1>3, <1>4, <1>5 DEF Copier, Ended
<1> QED BY <1>3, <1>11, <1>12 DEF CopyInv

\* The client has its answer, or ends without one.
LEMMA CopyEnds ==
  ASSUME TypeInv, CopyInv, cmd \in Transfers, ~denied,
         ClientAnswer \/ ClientBalks \/ ClientLost \/ ClientTimeout \/ Quit
  PROVE  CopyInv'
<1>1. Copier /\ \E p : Taken(p) BY DEF CopyInv
<1>2. PICK p : Taken(p) BY <1>1
<1>3. CASE ClientAnswer
  <2>1. /\ at["client"] = "wait" /\ lane["client"] # <<>> /\ Next1("client").type = "Done"
        /\ ClientLeaves("ok")
    BY <1>3 DEF ClientAnswer, Waits, Has, Answer, Transfers
  <2>2. IF cmd = "pull" THEN local = file ELSE Ends(lane["client"])
    <3>1. ASSUME cmd = "pull" PROVE local = file
      <4>1. PICK c : Copying(lane["client"], c, file, local)
        BY <1>2, <2>1, <3>1 DEF Taken, Pulling
      <4>2. lane["client"] \in Seq(Sound) /\ file \in Seq(0..Items) /\ local \in Seq(0..Items)
        BY CopyType
      <4>3. Head(lane["client"]).type = "Done" BY <2>1 DEF Next1
      <4> QED BY <2>1, <4>1, <4>2, <4>3, CopyingReads
    <3>2. Ends(lane["client"])
      <4>1. Head(lane["client"]) = lane["client"][1] /\ 1 \in 1..Len(lane["client"])
        BY <2>1, CopyType, Heads
      <4> QED BY <2>1, <4>1 DEF Ends, Next1
    <3> QED BY <3>1, <3>2
  <2> QED BY <2>1, <2>2, CopyGone DEF Ended
<1>4. CASE ClientBalks \/ ClientLost \/ ClientTimeout \/ Quit
  <2>1. PICK e \in {"err", "left"} : ClientLeaves(e)
    BY <1>4 DEF ClientBalks, ClientLost, ClientTimeout, Quit
  <2> QED BY <2>1, CopyGone DEF Ended
<1> QED BY <1>3, <1>4

\* The network and the host's operator.
LEMMA CopyNetwork ==
  ASSUME TypeInv, CopyInv, Cut \/ Regrant
  PROVE  CopyInv'
<1>1. CASE Regrant
  <2>1. /\ UNCHANGED <<cmd, lane, conn, file, put, local, shell, termOut, at, out>>
        /\ denied' = denied
    BY <1>1 DEF Regrant, setting, files, shells, apps
  <2> QED BY <2>1, CopyStill
<1>2. CASE Cut
  <2>1. SUFFICES ASSUME cmd \in Transfers, ~denied PROVE CopyInv'
    BY <1>2 DEF CopyInv, Cut, setting
  <2>2. Copier /\ \E p : Taken(p) BY <2>1 DEF CopyInv
  <2>3. PICK p : Taken(p) BY <2>2
  <2>4. UNCHANGED <<cmd, file, put, local, shell, termOut, at, out, denied>>
    BY <1>2 DEF Cut, setting, files, shells, apps
  <2>5. /\ lane' \in [Sides -> Seq(Sound)] /\ conn' = "closed"
        /\ \A s \in Sides : \E k \in 0..Len(lane[s]) : lane'[s] = SubSeq(lane[s], 1, k)
    BY <1>2, CopyType, CutLanes
  <2>6. PICK i \in 0..Len(lane["client"]) : lane'["client"] = SubSeq(lane["client"], 1, i)
    BY <2>5, CopyType
  <2>7. PICK j \in 0..Len(lane["host"]) : lane'["host"] = SubSeq(lane["host"], 1, j)
    BY <2>5, CopyType
  <2>8. SentNow' = SentNow BY <2>4 DEF SentNow
  <2>9. Segment(lane'["host"], cmd', p, SentNow', conn')
    <3>1. Segment(lane["host"], cmd, p, SentNow, conn) BY <2>3 DEF Taken
    <3>2. SentNow \in Nat /\ SentNow <= SentNow BY CopyType
    <3>3. Segment(SubSeq(lane["host"], 1, j), cmd, p, SentNow, "closed")
      BY <3>1, <3>2, CopyType, SegmentCut
    <3> QED BY <2>4, <2>5, <2>7, <2>8, <3>3
  <2>10. IF cmd = "pull" THEN Pulling(p)' ELSE Pushing(p)'
    <3>1. lane'["client"] \in Seq(Sound) BY <2>5, CopyType
    <3>2. IF cmd = "pull" THEN Pulling(p) ELSE Pushing(p) BY <2>3 DEF Taken
    <3> QED BY <2>4, <2>6, <3>1, <3>2, PartsCut
  <2>11. Taken(p)' BY <2>3, <2>4, <2>9, <2>10 DEF Taken
  <2>12. Copier' BY <2>2, <2>4, <2>5 DEF Copier
  <2> QED BY <2>11, <2>12 DEF CopyInv
<1> QED BY <1>1, <1>2

\* What the host has ignored stays ignored.
LEMMA DeniedStays == Next /\ denied => denied'
<1> SUFFICES ASSUME Next, denied PROVE denied' OBVIOUS
<1>1. CASE Host \/ HostFails
  BY <1>1 DEF Host, HostFails, HostAccept, HostHello, HostNews, HostIgnores, HostControl, HostPut,
       HostChunk, HostDone, HostRead, HostOpen, HostInput, HostOutput, HostDial, HostLost, HostMisreads,
       HostLeaves
<1>2. CASE ShellPrints \/ ShellExits BY <1>2 DEF ShellPrints, ShellExits
<1>3. CASE Client \/ ShellTypes \/ Quit
  BY <1>3 DEF Client, ShellTypes, Quit, ClientAck, ClientRequest, Upload, ClientAnswer,
       ClientChunk, ClientBalks, ClientSkips, ClientLost, ClientTimeout, ShellTakes,
       ClientLeaves
<1>4. CASE \E s \in Sides : PumpUp(s) \/ AppCloses(s) \/ PumpDown(s) \/ PumpLost(s)
  BY <1>4 DEF PumpUp, AppCloses, PumpDown, PumpLost, PipeEnds
<1>5. CASE Cut \/ Regrant BY <1>5 DEF Cut, Regrant
<1> QED BY <1>1, <1>2, <1>3, <1>4, <1>5 DEF Next

LEMMA CopyInvStep == TypeInv /\ CopyInv /\ [Next]_vars => CopyInv'
<1> SUFFICES ASSUME TypeInv, CopyInv, [Next]_vars PROVE CopyInv' OBVIOUS
<1>1. CASE UNCHANGED vars
  <2>1. /\ UNCHANGED <<cmd, lane, conn, file, put, local, shell, termOut, at, out>>
        /\ denied' = denied
    BY <1>1 DEF vars, setting, files, shells, apps
  <2> QED BY <2>1, CopyStill
<1>2. CASE Next /\ (cmd \notin Transfers \/ denied)
  BY <1>2, FixedCommand, DeniedStays DEF CopyInv
<1>3. CASE Next /\ cmd \in Transfers /\ ~denied
  <2>1. Copier BY <1>3 DEF CopyInv
  <2>2. ~ShellPrints /\ ~ShellExits BY <2>1 DEF Copier, ShellPrints, ShellExits
  <2>3. cmd # "shell" /\ cmd # "tunnel" BY <1>3 DEF Transfers
  <2>4. ~ShellTypes /\ ~ShellTakes BY <2>3 DEF ShellTypes, ShellTakes, InShell
  <2>5. \A s \in Sides : ~PumpUp(s) /\ ~AppCloses(s) /\ ~PumpDown(s) /\ ~PumpLost(s)
    BY <2>3 DEF PumpUp, AppCloses, PumpDown, PumpLost, Piping
  <2>6. CASE Host \/ HostFails
    BY <2>6, CopyGreets, CopyServes, CopyWrites, CopyAnswers DEF Host
  <2>7. CASE Client \/ Quit
    BY <1>3, <2>4, <2>7, CopySends, CopyTakes, CopyEnds DEF Client
  <2>8. CASE Cut \/ Regrant BY <2>8, CopyNetwork
  <2> QED BY <1>3, <2>2, <2>4, <2>5, <2>6, <2>7, <2>8 DEF Next
<1> QED BY <1>1, <1>2, <1>3

\* A copy that reports success has left the very bytes it sent, for a file of
\* any length and under every set of faults, unless the host ignored a request:
\* the host's file is what it has taken of the frames sent, the end of a put is
\* repeated only by a host that took them all, and what is on its way to a pull
\* is the rest of the host's file (handle_session, apply_host_message,
\* push_file, pull_file).
THEOREM CopyExactHolds == Spec => []CopyExact
<1>1. TypeInv /\ CopyInv => CopyExact
  <2>1. SUFFICES ASSUME CopyInv, at["client"] = "ok", ~denied, cmd \in Transfers
                 PROVE  /\ cmd \in {"push", "bw"} => file = Data
                        /\ cmd = "pull" => local = file
    BY DEF CopyExact, Transfers
  <2>2. PICK p : Taken(p) BY <2>1 DEF CopyInv
  <2>3. ASSUME cmd # "pull" PROVE file = Data
    <3>1. Pushing(p) BY <2>2, <2>3 DEF Taken
    <3>2. p = Items + 3 BY <2>1, <3>1 DEF Pushing
    <3>3. p >= 2 /\ ~(p - 2 <= Items) BY <3>2, ServicesAssumption
    <3>4. file = Upto(Items) BY <3>1, <3>3 DEF Pushing
    <3> QED BY <3>4 DEF Upto, Data
  <2>4. ASSUME cmd = "pull" PROVE local = file BY <2>1, <2>2, <2>4 DEF Taken, Pulling
  <2> QED BY <2>3, <2>4
<1> QED BY <1>1, TypeInvInit, TypeInvStep, CopyInvInit, CopyInvStep, PTL DEF Spec
=============================================================================
