---------------------------- MODULE MagicPlane ----------------------------
(***************************************************************************)
(* The names and ports an agent offers to the programs of its machine: DNS *)
(* answers with mesh addresses, listeners on those addresses that tunnel   *)
(* to the devices, and a SOCKS proxy.  All of them read devices.json again  *)
(* and again while commands change it.  Its probes are "touch" commands of *)
(* DeviceStore.                                                            *)
(***************************************************************************)
EXTENDS Naturals

CONSTANTS Devices, Names, Apps,
          Local,       \* this device
          MyName,      \* its label
          Address,     \* the mesh address of each device
          MaxChanges,  \* bound: commands that change devices.json
          MaxFaults    \* bound: ports taken or given back by others, listeners that fail

None == "none"

ASSUME MagicAssumption ==
  /\ MyName \in Names
  /\ Local \notin Devices /\ None \notin Devices \cup {Local}
  /\ DOMAIN Address = Devices \cup {Local}
  /\ \A d \in Devices \cup {Local} : Address[d] # None
  /\ MaxChanges \in Nat /\ MaxFaults \in Nat

VARIABLES store,    \* devices.json
          changes,  \* commands left
          faults,   \* faults left
          active,   \* addresses that have a listener, or will have
          todo,     \* devices the round has still to look at
          tasks,    \* the tasks of the listeners
          taken,    \* addresses whose port another program holds
          at,       \* point of each program
          ask,      \* the name or address it asked for
          ip,       \* the address it was told, if by DNS
          to,       \* the device its connection goes to
          ok,       \* whether devices.json trusted that device when it was read
          met,      \* history: devices trusted at a moment since it asked
          meant     \* history: devices its question fitted at such a moment

Map == INSTANCE DeviceMap WITH map <- store, Groups <- {}

file == <<store, changes>>
ports == <<active, todo, tasks, taken>>
calls == <<at, ask, ip, to, ok>>
vars == <<file, faults, ports, calls, met, meant>>

Everyone == Devices \cup {Local}
Addresses == {Address[d] : d \in Everyone}
Tasks == [addr : Addresses, dev : Everyone, at : {"binds", "listens"}]

TypeOK ==
  /\ store \in Map!Maps
  /\ changes \in 0..MaxChanges /\ faults \in 0..MaxFaults
  /\ tasks \subseteq Tasks /\ todo \subseteq Everyone /\ taken \subseteq Addresses
  /\ active = {t.addr : t \in tasks}
  /\ at \in [Apps -> {"idle", "knows", "accepted", "dials", "open"}]
  /\ ask \in [Apps -> Names \cup Addresses \cup {None}]
  /\ ip \in [Apps -> Addresses \cup {None}]
  /\ to \in [Apps -> Everyone \cup {None}]
  /\ ok \in [Apps -> BOOLEAN]
  /\ met \in [Apps -> SUBSET Everyone] /\ meant \in [Apps -> SUBSET Everyone]

Init ==
  /\ \E S \in SUBSET Devices :
       store = [d \in Devices |-> IF d \in S THEN Map!Fresh(Map!Other) ELSE Map!Absent]
  /\ changes = MaxChanges /\ faults = MaxFaults
  /\ active = {} /\ todo = {} /\ tasks = {} /\ taken \in {{}, Addresses}
  /\ at = [a \in Apps |-> "idle"] /\ ask = [a \in Apps |-> None]
  /\ ip = [a \in Apps |-> None] /\ to = [a \in Apps |-> None]
  /\ ok = [a \in Apps |-> FALSE]
  /\ met = [a \in Apps |-> {}] /\ meant = [a \in Apps |-> {}]

-----------------------------------------------------------------------------
Trusted == {d \in Devices : store[d].trust = "trusted"}

\* The names of trusted devices, over the own one.  Of devices of one name the
\* last in the list gets it, and that order is left open.
Carriers(n) == {d \in Trusted : store[d].label = n \/ n \in store[d].aliases}
NameMaps ==
  {m \in [Names -> Everyone \cup {None}] :
     \A n \in Names :
       IF Carriers(n) # {} THEN m[n] \in Carriers(n)
       ELSE m[n] = IF n = MyName THEN Local ELSE None}

\* The devices that got a name; other labels are all different.
Listed(m) ==
  ({d \in Trusted : store[d].label = Map!Other} \cup {m[n] : n \in Names}) \ {None}

\* SOCKS: a name, then an address, then any record that has the name alone.
Named(q, m) == {m[n] : n \in {n \in Names : n = q}} \ {None}
Addressed(q, m) == {d \in Listed(m) : Address[d] = q}
Resolved(q, m) ==
  IF Named(q, m) # {} THEN Named(q, m)
  ELSE IF Addressed(q, m) # {} THEN Addressed(q, m)
  ELSE {d \in Devices : Map!Resolves(q, d, store)}

-----------------------------------------------------------------------------
\* Commands and gossip; what they do to a file that others hold is DeviceStore's.
Changes ==
  /\ changes > 0
  /\ \E c \in Map!Commands :
       c.do # "touch" /\ Map!Permitted(c, store) /\ store' = Map!Result(c, store)
  /\ changes' = changes - 1
  /\ UNCHANGED <<faults, ports, calls>>

-----------------------------------------------------------------------------
(* Listeners.                                                              *)

RoundBegins ==
  /\ todo = {} /\ \E m \in NameMaps : todo' = Listed(m)
  /\ UNCHANGED <<file, faults, active, tasks, taken, calls>>

Spawns(d) ==
  /\ d \in todo /\ todo' = todo \ {d}
  /\ IF Address[d] \in active THEN UNCHANGED <<active, tasks>>
     ELSE /\ active' = active \cup {Address[d]}
          /\ tasks' = tasks \cup {[addr |-> Address[d], dev |-> d, at |-> "binds"]}
  /\ UNCHANGED <<file, faults, taken, calls>>

Listening(x) == \E t \in tasks : t.addr = x /\ t.at = "listens"

BindsPort(t) ==
  /\ t.at = "binds" /\ t.addr \notin taken /\ ~Listening(t.addr)
  /\ tasks' = (tasks \ {t}) \cup {[t EXCEPT !.at = "listens"]}
  /\ UNCHANGED <<file, faults, active, todo, taken, calls>>

\* The bug of an address that stays on the list.
BindFails_Forgets(t) ==
  /\ t.at = "binds" /\ (t.addr \in taken \/ Listening(t.addr))
  /\ tasks' = tasks \ {t}
  /\ UNCHANGED <<file, faults, active, todo, taken, calls>>

BindFails(t) ==
  /\ t.at = "binds" /\ (t.addr \in taken \/ Listening(t.addr))
  /\ tasks' = tasks \ {t} /\ active' = active \ {t.addr}
  /\ UNCHANGED <<file, faults, todo, taken, calls>>

AcceptFails(t) ==
  /\ faults > 0 /\ faults' = faults - 1
  /\ t.at = "listens"
  /\ tasks' = tasks \ {t} /\ active' = active \ {t.addr}
  /\ UNCHANGED <<file, todo, taken, calls>>

PortTurns(x) ==
  /\ faults > 0 /\ faults' = faults - 1
  /\ ~Listening(x)
  /\ taken' = (IF x \in taken THEN taken \ {x} ELSE taken \cup {x})
  /\ UNCHANGED <<file, active, todo, tasks, calls>>

-----------------------------------------------------------------------------
(* Programs.                                                               *)

Goes(a, p, q, x, d, t) ==
  /\ at' = [at EXCEPT ![a] = p] /\ ask' = [ask EXCEPT ![a] = q]
  /\ ip' = [ip EXCEPT ![a] = x] /\ to' = [to EXCEPT ![a] = d]
  /\ ok' = [ok EXCEPT ![a] = t]
  /\ UNCHANGED <<file, faults, ports>>

AsksDns(a, n) ==
  /\ at[a] = "idle"
  /\ \E m \in NameMaps, d \in Everyone :
       m[n] = d /\ Goes(a, "knows", n, Address[d], None, FALSE)

AsksSocks(a, q) ==
  /\ at[a] = "idle"
  /\ \E m \in NameMaps : \E d \in Resolved(q, m) :
       Goes(a, "accepted", q, None, d, FALSE)

\* A listener goes on for the device it was made for.
Connects(a) ==
  /\ at[a] = "knows"
  /\ \E t \in tasks :
       t.at = "listens" /\ t.addr = ip[a] /\ Goes(a, "accepted", ask[a], ip[a], t.dev, FALSE)

OpensOwn(a) ==
  /\ at[a] = "accepted" /\ to[a] = Local
  /\ Goes(a, "open", ask[a], ip[a], Local, TRUE)

\* The bug of leaving the question of trust to the map of names.
OpensTunnel_TrustsMap(a) ==
  /\ at[a] = "accepted" /\ to[a] # Local
  /\ Goes(a, "dials", ask[a], ip[a], to[a], TRUE)

\* devices.json is read, and then the device is called.
OpensTunnel(a) ==
  /\ at[a] = "accepted" /\ to[a] # Local
  /\ Goes(a, "dials", ask[a], ip[a], to[a], to[a] \in Trusted)

PeerAnswers(a) ==
  /\ at[a] = "dials" /\ ok[a]
  /\ Goes(a, "open", ask[a], ip[a], to[a], TRUE)

Closes(a) == at[a] # "idle" /\ Goes(a, "idle", None, None, None, FALSE)

-----------------------------------------------------------------------------
\* The devices that a question may mean now.
Fits(q) == UNION {Resolved(q, m) : m \in NameMaps}

Watches ==
  /\ met' = [a \in Apps |->
       IF at'[a] = "idle" THEN {}
       ELSE Trusted' \cup (IF at[a] = "idle" THEN {} ELSE met[a])]
  /\ meant' = [a \in Apps |->
       IF at'[a] = "idle" THEN {}
       ELSE IF at[a] = "idle" THEN Fits(ask'[a]) ELSE meant[a] \cup Fits(ask[a])']

Task(d) == \E t \in tasks : t.dev = d /\ (BindsPort(t) \/ BindFails(t))

Listeners ==
  \/ RoundBegins
  \/ \E d \in Everyone : Spawns(d)
  \/ \E t \in tasks : BindsPort(t) \/ BindFails(t) \/ AcceptFails(t)
  \/ \E x \in Addresses : PortTurns(x)

Programs ==
  \E a \in Apps :
    \/ \E n \in Names : AsksDns(a, n)
    \/ \E q \in Names \cup Addresses : AsksSocks(a, q)
    \/ Connects(a) \/ OpensOwn(a) \/ OpensTunnel(a) \/ PeerAnswers(a) \/ Closes(a)

Next == (Changes \/ Listeners \/ Programs) /\ Watches

\* The agent's timers fire, and the tasks of the runtime go on.
Fairness ==
  /\ WF_vars(RoundBegins /\ Watches)
  /\ \A d \in Everyone :
       WF_vars(Spawns(d) /\ Watches) /\ WF_vars(Task(d) /\ Watches)

Spec == Init /\ [][Next]_vars /\ Fairness

-----------------------------------------------------------------------------
(* Properties.                                                             *)

\* A program's bytes go to a device that fitted what it asked for, or that has
\* the address of one that did, and that was trusted, at moments since it asked.
TunnelReaches ==
  \A a \in Apps : at[a] = "open" =>
    /\ to[a] \in met[a] \cup {Local}
    /\ \/ to[a] \in meant[a]
       \/ ip[a] # None /\ \E d \in meant[a] : Address[d] = Address[to[a]]

\* Whatever failed before, a device that stays trusted, and has a name that no
\* other device has, has a listener of its own in the end, unless another program
\* keeps the port, or a listener of another device with the same address does.
Forwarded ==
  \A d \in Devices :
    LET Own == store[d].label = Map!Other \/ \E n \in Names : Carriers(n) = {d}
        Held == \E t \in tasks : t.addr = Address[d] /\ t.dev # d
    IN  <>[](d \in Trusted /\ Own /\ ~Held)
          => <>[](Address[d] \in taken \/ \E t \in tasks : t.dev = d /\ t.at = "listens")
=============================================================================
