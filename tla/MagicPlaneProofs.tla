-------------------------- MODULE MagicPlaneProofs --------------------------
(***************************************************************************)
(* Proofs about the magic plane for every number of devices, names and     *)
(* programs, however addresses meet and devices.json changes.              *)
(***************************************************************************)
EXTENDS MagicPlane, TLAPS

Shape ==
  /\ at \in [Apps -> {"idle", "knows", "accepted", "dials", "open"}]
  /\ DOMAIN ask = Apps /\ DOMAIN ip = Apps /\ DOMAIN to = Apps /\ DOMAIN ok = Apps

\* The task of a listener has the address of the device it was made for.
Made == \A t \in tasks : t.addr = Address[t.dev] /\ t.addr \in Addresses

\* What a program was told, and where it is led, fitted its question.
Led(a) ==
  /\ at[a] = "knows" => ip[a] \in Addresses /\ \E d \in meant[a] : Address[d] = ip[a]
  /\ at[a] \in {"accepted", "dials", "open"} =>
       \/ to[a] \in meant[a]
       \/ ip[a] # None /\ \E d \in meant[a] : Address[d] = Address[to[a]]

\* A device that was found trusted was so since the program asked.
Found(a) ==
  /\ at[a] = "dials" /\ ok[a] => to[a] \in met[a]
  /\ at[a] = "open" => to[a] \in met[a] \cup {Local}

PlaneInv == Shape /\ Made /\ \A a \in Apps : Led(a) /\ Found(a)

-----------------------------------------------------------------------------
LEMMA Cases ==
  ASSUME [Next]_vars
  PROVE  \/ Watches /\ UNCHANGED calls /\ (Changes \/ Listeners)
         \/ Watches /\ Programs
         \/ UNCHANGED vars
BY DEF Next, Changes, Listeners, RoundBegins, Spawns, BindsPort, BindFails, AcceptFails,
       PortTurns

\* What fits the question, and who is trusted, is only added to.
LEMMA Watched ==
  ASSUME Watches, NEW a \in Apps, at[a] # "idle", at'[a] # "idle"
  PROVE  met[a] \subseteq met'[a] /\ Trusted' \subseteq met'[a] /\ meant[a] \subseteq meant'[a]
BY DEF Watches

LEMMA Asked ==
  ASSUME Watches, NEW a \in Apps, at[a] = "idle", at'[a] # "idle"
  PROVE  meant'[a] = Fits(ask'[a])
BY DEF Watches, Fits, Resolved, Named, Addressed, Listed, NameMaps, Carriers, Trusted

LEMMA NamedFits ==
  ASSUME NEW m \in NameMaps, NEW n \in Names, NEW d \in Everyone, m[n] = d
  PROVE  d \in Fits(n)
<1>1. d # None BY MagicAssumption DEF Everyone
<1>2. d \in Named(n, m) BY <1>1 DEF Named
<1> QED BY <1>2 DEF Resolved, Fits

LEMMA MadeStep ==
  ASSUME Made, [Next]_vars
  PROVE  Made'
<1>1. CASE UNCHANGED tasks BY <1>1 DEF Made
<1>2. ASSUME NEW d \in Everyone, Spawns(d) PROVE Made'
  BY <1>2 DEF Spawns, Made, Addresses
<1>3. ASSUME NEW t \in tasks, BindsPort(t) \/ BindFails(t) \/ AcceptFails(t) PROVE Made'
  <2>1. CASE BindsPort(t)
    <3> DEFINE u == [t EXCEPT !.at = "listens"]
    <3>1. u.addr = t.addr /\ u.dev = t.dev
      OBVIOUS
    <3> QED BY <2>1, <3>1 DEF BindsPort, Made
  <2>2. CASE BindFails(t) BY <2>2 DEF BindFails, Made
  <2>3. CASE AcceptFails(t) BY <2>3 DEF AcceptFails, Made
  <2> QED BY <1>3, <2>1, <2>2, <2>3
<1>4. \/ UNCHANGED tasks
      \/ \E d \in Everyone : Spawns(d)
      \/ \E t \in tasks : BindsPort(t) \/ BindFails(t) \/ AcceptFails(t)
  BY DEF Next, vars, ports, Changes, Listeners, RoundBegins, PortTurns, Programs, AsksDns,
         AsksSocks, Connects, OpensOwn, OpensTunnel, PeerAnswers, Closes, Goes
<1> QED BY <1>1, <1>2, <1>3, <1>4

\* A step of another program, of a listener or of a command.
LEMMA Others ==
  ASSUME Shape, Watches, NEW a \in Apps, Led(a), Found(a),
         UNCHANGED <<at[a], ask[a], ip[a], to[a], ok[a]>>
  PROVE  Led(a)' /\ Found(a)'
<1>1. CASE at[a] = "idle" BY <1>1 DEF Led, Found
<1>2. CASE at[a] # "idle" BY <1>2, Watched DEF Led, Found
<1> QED BY <1>1, <1>2

LEMMA ProgramStep ==
  ASSUME PlaneInv, Watches, Programs
  PROVE  Shape' /\ \A a \in Apps : Led(a)' /\ Found(a)'
<1> USE DEF PlaneInv, Shape
<1>1. PICK a \in Apps :
        \/ \E n \in Names : AsksDns(a, n)
        \/ \E q \in Names \cup Addresses : AsksSocks(a, q)
        \/ Connects(a) \/ OpensOwn(a) \/ OpensTunnel(a) \/ PeerAnswers(a) \/ Closes(a)
  BY DEF Programs
<1>2. ASSUME NEW p \in {"idle", "knows", "accepted", "dials", "open"}, NEW q, NEW x, NEW d,
             NEW t, Goes(a, p, q, x, d, t)
      PROVE  /\ Shape'
             /\ \A b \in Apps \ {a} : UNCHANGED <<at[b], ask[b], ip[b], to[b], ok[b]>>
             /\ at'[a] = p /\ ask'[a] = q /\ ip'[a] = x /\ to'[a] = d /\ ok'[a] = t
             /\ UNCHANGED file
  BY <1>2 DEF Goes
<1>3. /\ Shape'
      /\ \A b \in Apps \ {a} : UNCHANGED <<at[b], ask[b], ip[b], to[b], ok[b]>>
  BY <1>1, <1>2
  DEF AsksDns, AsksSocks, Connects, OpensOwn, OpensTunnel, PeerAnswers, Closes
<1>4. \A b \in Apps \ {a} : Led(b)' /\ Found(b)' BY <1>3, Others
<1>5. Led(a)' /\ Found(a)'
  <2>1. ASSUME NEW n \in Names, AsksDns(a, n) PROVE Led(a)' /\ Found(a)'
    <3>1. PICK m \in NameMaps, d \in Everyone :
            m[n] = d /\ Goes(a, "knows", n, Address[d], None, FALSE)
      BY <2>1 DEF AsksDns
    <3>2. at'[a] = "knows" /\ ask'[a] = n /\ ip'[a] = Address[d] BY <3>1 DEF Goes
    <3>3. meant'[a] = Fits(n) BY <2>1, <3>2, Asked DEF AsksDns
    <3>4. d \in meant'[a] BY <3>1, <3>3, NamedFits
    <3> QED BY <3>2, <3>4 DEF Led, Found, Addresses
  <2>2. ASSUME NEW q \in Names \cup Addresses, AsksSocks(a, q) PROVE Led(a)' /\ Found(a)'
    <3>1. PICK m \in NameMaps : \E d \in Resolved(q, m) :
            Goes(a, "accepted", q, None, d, FALSE)
      BY <2>2 DEF AsksSocks
    <3>2. PICK d \in Resolved(q, m) : Goes(a, "accepted", q, None, d, FALSE) BY <3>1
    <3>3. at'[a] = "accepted" /\ ask'[a] = q /\ to'[a] = d BY <3>2 DEF Goes
    <3>4. meant'[a] = Fits(q) BY <2>2, <3>3, Asked DEF AsksSocks
    <3>5. d \in meant'[a] BY <3>4 DEF Fits
    <3> QED BY <3>3, <3>5 DEF Led, Found
  <2>3. CASE Connects(a)
    <3>1. PICK t \in tasks :
            t.addr = ip[a] /\ Goes(a, "accepted", ask[a], ip[a], t.dev, FALSE)
      BY <2>3 DEF Connects
    <3>2. at'[a] = "accepted" /\ ip'[a] = ip[a] /\ to'[a] = t.dev BY <3>1 DEF Goes
    <3>3. at[a] = "knows" BY <2>3 DEF Connects
    <3>4. meant[a] \subseteq meant'[a] BY <3>2, <3>3, Watched
    <3>5. ip[a] \in Addresses /\ \E d \in meant[a] : Address[d] = ip[a] BY <3>3 DEF Led
    <3>6. Address[t.dev] = ip[a] BY <3>1 DEF Made
    <3>7. ip[a] # None BY <3>5, MagicAssumption DEF Addresses, Everyone
    <3> QED BY <3>2, <3>4, <3>5, <3>6, <3>7 DEF Led, Found
  <2>4. CASE OpensOwn(a)
    <3>1. /\ at[a] = "accepted" /\ at'[a] = "open" /\ ip'[a] = ip[a] /\ to[a] = Local
          /\ to'[a] = Local
      BY <2>4 DEF OpensOwn, Goes
    <3>2. meant[a] \subseteq meant'[a] BY <3>1, Watched
    <3>3. Led(a)' BY <3>1, <3>2 DEF Led
    <3>4. Found(a)' BY <3>1 DEF Found
    <3> QED BY <3>3, <3>4
  <2>5. CASE OpensTunnel(a)
    <3>1. /\ at[a] = "accepted" /\ at'[a] = "dials" /\ ip'[a] = ip[a] /\ to'[a] = to[a]
          /\ ok'[a] = (to[a] \in Trusted) /\ UNCHANGED file
      BY <2>5 DEF OpensTunnel, Goes
    <3>2. Trusted' = Trusted BY <3>1 DEF file, Trusted
    <3>3. Trusted' \subseteq met'[a] /\ meant[a] \subseteq meant'[a] BY <3>1, Watched
    <3>4. Led(a)' BY <3>1, <3>3 DEF Led
    <3>5. Found(a)' BY <3>1, <3>2, <3>3 DEF Found
    <3> QED BY <3>4, <3>5
  <2>6. CASE PeerAnswers(a)
    <3>1. /\ at[a] = "dials" /\ ok[a] /\ at'[a] = "open" /\ ip'[a] = ip[a] /\ to'[a] = to[a]
      BY <2>6 DEF PeerAnswers, Goes
    <3>2. met[a] \subseteq met'[a] /\ meant[a] \subseteq meant'[a] BY <3>1, Watched
    <3>3. Led(a)' BY <3>1, <3>2 DEF Led
    <3>4. Found(a)' BY <3>1, <3>2 DEF Found
    <3> QED BY <3>3, <3>4
  <2>7. CASE Closes(a)
    <3>1. at'[a] = "idle" BY <2>7 DEF Closes, Goes
    <3> QED BY <3>1 DEF Led, Found
  <2> QED BY <1>1, <2>1, <2>2, <2>3, <2>4, <2>5, <2>6, <2>7
<1> QED BY <1>3, <1>4, <1>5

\* The bytes of a program reach a device that was trusted and fitted what was
\* asked for, or shares the address of one that did, since it asked: the device is
\* looked up anew for its trust (magic.rs:257), and a listener leads to one device.
THEOREM TunnelReachesHolds == Spec => []TunnelReaches
<1>1. Init => PlaneInv
  BY DEF Init, PlaneInv, Shape, Made, Led, Found
<1>2. PlaneInv /\ [Next]_vars => PlaneInv'
  <2> SUFFICES ASSUME PlaneInv, [Next]_vars PROVE PlaneInv'
    OBVIOUS
  <2>1. Made' BY MadeStep DEF PlaneInv
  <2>2. CASE Watches /\ UNCHANGED calls
    <3>1. Shape' BY <2>2 DEF calls, Shape, PlaneInv
    <3>2. \A a \in Apps : Led(a)' /\ Found(a)' BY <2>2, Others DEF calls, PlaneInv
    <3> QED BY <2>1, <3>1, <3>2 DEF PlaneInv
  <2>3. CASE Watches /\ Programs BY <2>1, <2>3, ProgramStep DEF PlaneInv
  <2>4. CASE UNCHANGED vars
    BY <2>1, <2>4 DEF vars, calls, PlaneInv, Shape, Led, Found
  <2> QED BY <2>2, <2>3, <2>4, Cases
<1>3. PlaneInv => TunnelReaches BY DEF PlaneInv, Led, Found, TunnelReaches
<1> QED BY <1>1, <1>2, <1>3, PTL DEF Spec

-----------------------------------------------------------------------------
(* Types.  A listener that fails takes its address off the list of active  *)
(* ones; the list is right only because no other listener has it.          *)

Single == \A t, u \in tasks : t.addr = u.addr => t = u

PlaneTypes == TypeOK /\ Single

LEMMA CommandType ==
  ASSUME NEW c \in Map!Commands, NEW r \in Map!Record
  PROVE  Map!Changed(c, r) \in Map!Record
<1> USE DEF Map!Changed
<1>1. CASE c \in [do : {"join", "learn", "label"}, dev : Devices, name : Names \cup {Map!Other}]
  <2>1. Map!Fresh(c.name) \in Map!Record BY <1>1 DEF Map!Fresh, Map!Record
  <2>2. [r EXCEPT !.label = c.name] \in Map!Record BY <1>1 DEF Map!Record
  <2> QED BY <1>1, <2>1, <2>2
<1>2. CASE c \in [do : {"alias", "unalias"}, dev : Devices, name : Names]
  <2>1. [r EXCEPT !.aliases = @ \cup {c.name}] \in Map!Record BY <1>2 DEF Map!Record
  <2>2. [r EXCEPT !.aliases = @ \ {c.name}] \in Map!Record BY <1>2 DEF Map!Record
  <2> QED BY <1>2, <2>1, <2>2
<1>3. CASE c \in [do : {"revoke", "remove", "touch"}, dev : Devices, name : {Map!Other}]
  <2>1. [r EXCEPT !.trust = "revoked"] \in Map!Record BY DEF Map!Record
  <2>2. Map!Absent \in Map!Record BY DEF Map!Absent, Map!Fresh, Map!Record
  <2> QED BY <1>3, <2>1, <2>2
<1> QED BY <1>1, <1>2, <1>3 DEF Map!Commands

LEMMA ChangesType ==
  ASSUME TypeOK, Changes
  PROVE  store' \in Map!Maps /\ changes' \in 0..MaxChanges
<1>1. PICK c \in Map!Commands : store' = Map!Result(c, store) BY DEF Changes
<1>2. c.dev \in Devices BY <1>1 DEF Map!Commands
<1>3. Map!Changed(c, store[c.dev]) \in Map!Record
  BY <1>2, CommandType DEF TypeOK, Map!Maps
<1>4. store' \in Map!Maps BY <1>1, <1>2, <1>3 DEF TypeOK, Map!Result, Map!Maps
<1> QED BY <1>4, MagicAssumption DEF TypeOK, Changes

FitDevices == \A q : Fits(q) \subseteq Everyone

\* Whatever a question means is a device.
LEMMA FitsType ==
  /\ Trusted \subseteq Everyone
  /\ \A m \in NameMaps : Listed(m) \subseteq Everyone
  /\ \A m \in NameMaps : \A q : Resolved(q, m) \subseteq Everyone
  /\ FitDevices
<1>1. Trusted \subseteq Everyone BY DEF Trusted, Everyone
<1>2. \A m \in NameMaps, n \in Names : m[n] \in Everyone \cup {None} BY DEF NameMaps
<1>3. \A m \in NameMaps : Listed(m) \subseteq Everyone BY <1>1, <1>2 DEF Listed
<1>4. ASSUME NEW m \in NameMaps, NEW q PROVE Resolved(q, m) \subseteq Everyone
  <2>1. Named(q, m) \subseteq Everyone BY <1>2 DEF Named
  <2>2. Addressed(q, m) \subseteq Everyone BY <1>3 DEF Addressed
  <2> QED BY <2>1, <2>2 DEF Resolved, Everyone
<1>5. FitDevices BY <1>4 DEF FitDevices, Fits
<1> QED BY <1>1, <1>3, <1>4, <1>5

LEMMA FitDevicesNext == FitDevices'
<1>1. FitDevices BY FitsType
<1> QED BY <1>1, PTL

LEMMA WatchesType ==
  ASSUME TypeOK, Watches
  PROVE  met' \in [Apps -> SUBSET Everyone] /\ meant' \in [Apps -> SUBSET Everyone]
<1>1. Trusted' \subseteq Everyone BY DEF Trusted, Everyone
<1>2. \A a \in Apps : Fits(ask'[a]) \subseteq Everyone /\ Fits(ask[a])' \subseteq Everyone
  BY FitsType, FitDevicesNext DEF FitDevices
<1> QED BY <1>1, <1>2 DEF TypeOK, Watches

\* The parts of the types that one kind of step changes.
FileTypes == store \in Map!Maps /\ changes \in 0..MaxChanges

PortTypes ==
  /\ tasks \subseteq Tasks /\ todo \subseteq Everyone /\ taken \subseteq Addresses
  /\ active = {t.addr : t \in tasks}
  /\ Single

CallTypes ==
  /\ at \in [Apps -> {"idle", "knows", "accepted", "dials", "open"}]
  /\ ask \in [Apps -> Names \cup Addresses \cup {None}]
  /\ ip \in [Apps -> Addresses \cup {None}]
  /\ to \in [Apps -> Everyone \cup {None}]
  /\ ok \in [Apps -> BOOLEAN]

HistoryTypes == met \in [Apps -> SUBSET Everyone] /\ meant \in [Apps -> SUBSET Everyone]

LEMMA TypeParts ==
  PlaneTypes <=>
    FileTypes /\ faults \in 0..MaxFaults /\ PortTypes /\ CallTypes /\ HistoryTypes
BY DEF PlaneTypes, TypeOK, FileTypes, PortTypes, CallTypes, HistoryTypes

LEMMA TypePartsNext ==
  PlaneTypes' <=>
    (FileTypes /\ faults \in 0..MaxFaults /\ PortTypes /\ CallTypes /\ HistoryTypes)'
BY DEF PlaneTypes, TypeOK, FileTypes, PortTypes, CallTypes, HistoryTypes

LEMMA PlaneTypesInit == Init => PlaneTypes
<1> SUFFICES ASSUME Init PROVE PlaneTypes OBVIOUS
<1>1. \A S \in SUBSET Devices :
        [d \in Devices |-> IF d \in S THEN Map!Fresh(Map!Other) ELSE Map!Absent] \in Map!Maps
  BY DEF Map!Fresh, Map!Absent, Map!Record, Map!Maps
<1>2. FileTypes
  <2>1. store \in Map!Maps BY <1>1 DEF Init
  <2>2. changes \in 0..MaxChanges BY MagicAssumption DEF Init
  <2> QED BY <2>1, <2>2 DEF FileTypes
<1>3. PortTypes BY DEF Init, PortTypes, Single
<1>4. CallTypes /\ HistoryTypes BY DEF Init, CallTypes, HistoryTypes
<1>5. faults \in 0..MaxFaults BY MagicAssumption DEF Init
<1> QED BY <1>2, <1>3, <1>4, <1>5, TypeParts

\* A listener that goes takes its own address along, and no other one's.
LEMMA TaskGoes ==
  ASSUME PortTypes, NEW t \in tasks, tasks' = tasks \ {t}, active' = active \ {t.addr}
  PROVE  tasks' \subseteq Tasks /\ active' = {u.addr : u \in tasks'} /\ Single'
<1>1. \A u \in tasks : u.addr = t.addr => u = t BY DEF PortTypes, Single
<1> QED BY <1>1 DEF PortTypes, Single

LEMMA ListenersTypes ==
  ASSUME PortTypes, faults \in 0..MaxFaults, Listeners
  PROVE  PortTypes' /\ faults' \in 0..MaxFaults
<1>1. CASE RoundBegins
  <2>1. todo' \subseteq Everyone BY <1>1, FitsType DEF RoundBegins
  <2> QED BY <1>1, <2>1 DEF RoundBegins, PortTypes, Single
<1>2. ASSUME NEW d \in Everyone, Spawns(d) PROVE PortTypes' /\ faults' \in 0..MaxFaults
  <2> DEFINE u == [addr |-> Address[d], dev |-> d, at |-> "binds"]
  <2>1. CASE Address[d] \in active BY <1>2, <2>1 DEF Spawns, PortTypes, Single
  <2>2. CASE Address[d] \notin active
    <3>1. u \in Tasks /\ u.addr = Address[d] BY DEF Tasks, Addresses
    <3>2. active' = active \cup {Address[d]} /\ tasks' = tasks \cup {u}
      BY <1>2, <2>2 DEF Spawns
    <3>3. \A t \in tasks : t.addr # u.addr BY <2>2, <3>1 DEF PortTypes
    <3> HIDE DEF u
    <3>4. Single' BY <3>2, <3>3 DEF PortTypes, Single
    <3>5. active' = {t.addr : t \in tasks'} BY <3>1, <3>2 DEF PortTypes
    <3> QED BY <1>2, <3>1, <3>2, <3>4, <3>5 DEF Spawns, PortTypes
  <2> QED BY <2>1, <2>2
<1>3. ASSUME NEW t \in tasks, BindsPort(t) PROVE PortTypes' /\ faults' \in 0..MaxFaults
  <2> DEFINE u == [t EXCEPT !.at = "listens"]
  <2>1. u \in Tasks /\ u.addr = t.addr BY DEF PortTypes, Tasks
  <2>2. tasks' = (tasks \ {t}) \cup {u} BY <1>3 DEF BindsPort
  <2> HIDE DEF u
  <2>3. \A v \in tasks \ {t} : v.addr # u.addr BY <2>1 DEF PortTypes, Single
  <2>4. Single' BY <2>2, <2>3 DEF PortTypes, Single
  <2>5. active' = {v.addr : v \in tasks'} BY <1>3, <2>1, <2>2 DEF BindsPort, PortTypes
  <2> QED BY <1>3, <2>1, <2>2, <2>4, <2>5 DEF BindsPort, PortTypes
<1>4. ASSUME NEW t \in tasks, BindFails(t) PROVE PortTypes' /\ faults' \in 0..MaxFaults
  BY <1>4, TaskGoes DEF BindFails, PortTypes
<1>5. ASSUME NEW t \in tasks, AcceptFails(t) PROVE PortTypes' /\ faults' \in 0..MaxFaults
  BY <1>5, TaskGoes, MagicAssumption DEF AcceptFails, PortTypes
<1>6. ASSUME NEW x \in Addresses, PortTurns(x) PROVE PortTypes' /\ faults' \in 0..MaxFaults
  BY <1>6, MagicAssumption DEF PortTurns, PortTypes, Single
<1> QED BY <1>1, <1>2, <1>3, <1>4, <1>5, <1>6 DEF Listeners

LEMMA ProgramsTypes ==
  ASSUME PortTypes, CallTypes, Programs
  PROVE  CallTypes'
<1>1. PICK a \in Apps :
        \/ \E n \in Names : AsksDns(a, n)
        \/ \E q \in Names \cup Addresses : AsksSocks(a, q)
        \/ Connects(a) \/ OpensOwn(a) \/ OpensTunnel(a) \/ PeerAnswers(a) \/ Closes(a)
  BY DEF Programs
<1>2. ASSUME NEW p \in {"idle", "knows", "accepted", "dials", "open"},
             NEW q \in Names \cup Addresses \cup {None}, NEW x \in Addresses \cup {None},
             NEW d \in Everyone \cup {None}, NEW t \in BOOLEAN, Goes(a, p, q, x, d, t)
      PROVE  CallTypes'
  BY <1>2 DEF Goes, CallTypes
<1>3. /\ ask[a] \in Names \cup Addresses \cup {None} /\ ip[a] \in Addresses \cup {None}
      /\ to[a] \in Everyone \cup {None}
  BY DEF CallTypes
<1>4. ASSUME NEW n \in Names, AsksDns(a, n) PROVE CallTypes'
  <2>1. PICK d \in Everyone : Goes(a, "knows", n, Address[d], None, FALSE) BY <1>4 DEF AsksDns
  <2>2. Address[d] \in Addresses BY DEF Addresses
  <2> QED BY <1>2, <2>1, <2>2
<1>5. ASSUME NEW q \in Names \cup Addresses, AsksSocks(a, q) PROVE CallTypes'
  <2>1. PICK m \in NameMaps : \E d \in Resolved(q, m) : Goes(a, "accepted", q, None, d, FALSE)
    BY <1>5 DEF AsksSocks
  <2>2. PICK d \in Resolved(q, m) : Goes(a, "accepted", q, None, d, FALSE) BY <2>1
  <2>3. d \in Everyone BY FitsType
  <2> QED BY <1>2, <2>2, <2>3
<1>6. CASE Connects(a)
  <2>1. PICK t \in tasks : Goes(a, "accepted", ask[a], ip[a], t.dev, FALSE)
    BY <1>6 DEF Connects
  <2>2. t.dev \in Everyone BY DEF PortTypes, Tasks
  <2> QED BY <1>2, <1>3, <2>1, <2>2
<1>7. CASE OpensOwn(a) BY <1>7, <1>2, <1>3 DEF OpensOwn, Everyone
<1>8. CASE OpensTunnel(a)
  <2> DEFINE t == to[a] \in Trusted
  <2>1. t \in BOOLEAN OBVIOUS
  <2>2. Goes(a, "dials", ask[a], ip[a], to[a], t) BY <1>8 DEF OpensTunnel
  <2> HIDE DEF t
  <2> QED BY <1>2, <1>3, <2>1, <2>2
<1>9. CASE PeerAnswers(a) BY <1>9, <1>2, <1>3 DEF PeerAnswers
<1>10. CASE Closes(a) BY <1>10, <1>2 DEF Closes
<1> QED BY <1>1, <1>4, <1>5, <1>6, <1>7, <1>8, <1>9, <1>10

LEMMA PlaneTypesStep == PlaneTypes /\ [Next]_vars => PlaneTypes'
<1> SUFFICES ASSUME PlaneTypes, [Next]_vars PROVE PlaneTypes' OBVIOUS
<1>0. TypeOK /\ FileTypes /\ faults \in 0..MaxFaults /\ PortTypes /\ CallTypes /\ HistoryTypes
  BY TypeParts DEF PlaneTypes
<1>a. UNCHANGED file => FileTypes' BY <1>0 DEF file, FileTypes
<1>b. UNCHANGED ports => PortTypes' BY <1>0 DEF ports, PortTypes, Single
<1>c. UNCHANGED calls => CallTypes' BY <1>0 DEF calls, CallTypes
<1>d. Watches => HistoryTypes' BY <1>0, WatchesType DEF HistoryTypes
<1>1. CASE Changes /\ Watches
  <2>1. FileTypes' BY <1>0, <1>1, ChangesType DEF FileTypes
  <2> QED BY <1>0, <1>1, <1>b, <1>c, <1>d, <2>1, TypePartsNext DEF Changes
<1>2. CASE Listeners /\ Watches
  <2>1. UNCHANGED <<file, calls>>
    BY <1>2 DEF Listeners, RoundBegins, Spawns, BindsPort, BindFails, AcceptFails, PortTurns
  <2>2. PortTypes' /\ faults' \in 0..MaxFaults BY <1>0, <1>2, ListenersTypes
  <2> QED BY <1>2, <1>a, <1>c, <1>d, <2>1, <2>2, TypePartsNext
<1>3. CASE Programs /\ Watches
  <2>1. UNCHANGED <<file, faults, ports>>
    BY <1>3 DEF Programs, AsksDns, AsksSocks, Connects, OpensOwn, OpensTunnel, PeerAnswers,
                Closes, Goes
  <2>2. CallTypes' BY <1>0, <1>3, ProgramsTypes
  <2> QED BY <1>0, <1>3, <1>a, <1>b, <1>d, <2>1, <2>2, TypePartsNext
<1>4. ASSUME UNCHANGED vars PROVE PlaneTypes'
  BY <1>0, <1>4, <1>a, <1>b, <1>c, TypePartsNext DEF vars, HistoryTypes
<1> QED BY <1>1, <1>2, <1>3, <1>4 DEF Next

\* For every number of devices and programs the plane keeps its types, and its
\* list of active addresses is that of its listeners, however they fail.
THEOREM PlaneTypeCorrect == Spec => []TypeOK
<1>1. Init => PlaneTypes BY PlaneTypesInit
<1>2. PlaneTypes /\ [Next]_vars => PlaneTypes' BY PlaneTypesStep
<1>3. PlaneTypes => TypeOK BY DEF PlaneTypes
<1> QED BY <1>1, <1>2, <1>3, PTL DEF Spec
=============================================================================
