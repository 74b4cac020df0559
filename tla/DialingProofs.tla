--------------------------- MODULE DialingProofs ---------------------------
(***************************************************************************)
(* Proofs about dialling for every number of agents, commands, paths and   *)
(* identities.                                                             *)
(***************************************************************************)
EXTENDS Dialing, Integers, TLAPS

\* A listener has the path of its agent.
Behind ==
  \A p \in Paths : file[p] \in Agents => agent[file[p]] = "listens" /\ Socket[file[p]] = p

\* Who has met nobody is alone on its path, and finds it free.
Apart ==
  \A a \in Agents \ met :
    agent[a] # "off" => \A b \in Agents \ {a} : Socket[b] = Socket[a] => agent[b] = "off"
Finds ==
  \A a \in Agents \ met : agent[a] = "clear" => file[Socket[a]] = NoFile
Alone == Apart /\ Finds

\* An agent that has been ready all along is still to be tried, or being asked.
Ahead(c, a) == \E n \in 1 .. Len(left[c]) : left[c][n] = Socket[a]

Searching ==
  \A c \in Commands : \A a \in steady[c] :
    /\ a \in Ready(c)
    /\ at[c] = "tries" => Ahead(c, a)
    /\ at[c] = "asks" => via[c] = a \/ Ahead(c, a)

\* Who dials itself has its own endpoint.
Own == \A c \in Commands : at[c] = "binds" => via[c] = Itself

-----------------------------------------------------------------------------
(* Steps by name.                                                          *)

AgentSteps(a) == Starts(a) \/ Clears(a) \/ Listens(a) \/ ProxyEnds(a) \/ Dies(a)

CommandSteps(c) ==
  \/ Begins(c) \/ Refused(c) \/ Asks(c)
  \/ \E a \in Agents : AgentDials(a, c) \/ AgentFails(a, c)
  \/ AgentGone(c) \/ Binds(c) \/ Dials(c) \/ Greets(c) \/ Ends(c)

LEMMA Cases ==
  ASSUME [Next]_vars
  PROVE  \/ Watches /\ \E a \in Agents : AgentSteps(a)
         \/ Watches /\ \E c \in Commands : CommandSteps(c)
         \/ Watches /\ PeerTurns
         \/ UNCHANGED vars
BY DEF Next, AgentSteps, CommandSteps

\* The agents that have been ready all along are ready; a command under way only
\* loses some of them.
LEMMA Watched ==
  ASSUME Watches, NEW c \in Commands
  PROVE  /\ steady'[c] \subseteq Ready(c)'
         /\ ~(at[c] = "idle" /\ at'[c] = "tries") => steady'[c] \subseteq steady[c]
BY DEF Watches

LEMMA Tails ==
  ASSUME NEW S, NEW q \in Seq(S), q # <<>>
  PROVE  /\ Head(q) \in S /\ Head(q) = q[1]
         /\ Tail(q) \in Seq(S)
         /\ \A n \in 1 .. Len(q) :
              n = 1 \/ (n - 1 \in 1 .. Len(Tail(q)) /\ Tail(q)[n - 1] = q[n])
OBVIOUS

-----------------------------------------------------------------------------
(* Type correctness.                                                       *)

LEMMA CandidatesType ==
  ASSUME NEW c \in Commands
  PROVE  Candidates(c) \in Seq(Paths)
<1>1. Socket[c] \in Paths /\ Others[c] \in Seq(Paths) BY DialingAssumption
<1> QED BY <1>1 DEF Candidates

LEMMA InitType == Init => TypeOK
BY DEF Init, TypeOK, Nobody, NoFile, Stale

LEMMA AgentType ==
  ASSUME TypeOK, NEW a \in Agents, AgentSteps(a), Watches
  PROVE  TypeOK'
<1> USE DEF TypeOK
<1>1. Socket[a] \in Paths BY DialingAssumption
<1>2. steady' \in [Commands -> SUBSET Agents] BY DEF Watches, Ready
<1>3. UNCHANGED <<at, left, via, up>>
  BY DEF AgentSteps, Starts, Clears, Listens, ProxyEnds, Dies, calls
<1>4. \E p \in {"off", "bound", "clear", "listens", "mute", "dead"} :
         agent' = [agent EXCEPT ![a] = p]
  BY DEF AgentSteps, Starts, Clears, Listens, ProxyEnds, Dies
<1>5. agent' \in [Agents -> {"off", "bound", "clear", "listens", "mute", "dead"}]
  BY <1>4
<1>6. file' \in {file, [file EXCEPT ![Socket[a]] = NoFile], [file EXCEPT ![Socket[a]] = a],
                  Abandoned(a)}
  BY DEF AgentSteps, Starts, Clears, Listens, ProxyEnds, Dies
<1>7. file' \in [Paths -> Agents \cup {NoFile, Stale}] BY <1>1, <1>6 DEF Abandoned
<1>8. met' \subseteq Agents
  BY DEF AgentSteps, Starts, Clears, Listens, ProxyEnds, Dies, Rivals
<1> QED BY <1>2, <1>3, <1>5, <1>7, <1>8

LEMMA CommandType ==
  ASSUME TypeOK, NEW c \in Commands, CommandSteps(c), Watches
  PROVE  TypeOK'
<1> USE DEF TypeOK
<1>1. steady' \in [Commands -> SUBSET Agents] BY DEF Watches, Ready
<1>2. /\ Candidates(c) \in Seq(Paths) /\ <<>> \in Seq(Paths)
      /\ left[c] # <<>> => Tail(left[c]) \in Seq(Paths)
  BY CandidatesType, Tails
<1>3. Nobody \notin Agents /\ Itself # Nobody
  BY DialingAssumption DEF Nobody, Itself
<1>4. ASSUME NEW to \in {"idle", "tries", "asks", "relayed", "binds", "open"},
             NEW rest \in Seq(Paths), NEW who \in Agents \cup {Nobody, Itself},
             (who = Nobody) <=> to \in {"idle", "tries"},
             Moves(c, to, rest, who)
      PROVE  TypeOK'
  BY <1>1, <1>4 DEF Moves, procs
<1>5. CASE Begins(c) BY <1>2, <1>3, <1>4, <1>5 DEF Begins
<1>6. CASE Refused(c) BY <1>2, <1>3, <1>4, <1>6 DEF Refused
<1>7. CASE Asks(c) BY <1>2, <1>3, <1>4, <1>7 DEF Asks
<1>8. CASE \E a \in Agents : AgentDials(a, c)
  BY <1>2, <1>3, <1>4, <1>8 DEF AgentDials
<1>9. CASE \E a \in Agents : AgentFails(a, c)
  BY <1>2, <1>3, <1>4, <1>9 DEF AgentFails
<1>10. CASE AgentGone(c) BY <1>2, <1>3, <1>4, <1>10 DEF AgentGone
<1>11. CASE Binds(c) BY <1>2, <1>3, <1>4, <1>11 DEF Binds
<1>12. CASE Dials(c) BY <1>2, <1>3, <1>4, <1>12 DEF Dials
<1>13. CASE Greets(c) BY <1>2, <1>3, <1>4, <1>13 DEF Greets, Serving
<1>14. CASE Ends(c) BY <1>2, <1>3, <1>4, <1>14 DEF Ends
<1> QED
  BY <1>5, <1>6, <1>7, <1>8, <1>9, <1>10, <1>11, <1>12, <1>13, <1>14 DEF CommandSteps

LEMMA NextType ==
  ASSUME TypeOK, [Next]_vars
  PROVE  TypeOK'
<1>1. CASE Watches /\ PeerTurns
  <2>1. steady' \in [Commands -> SUBSET Agents] BY <1>1 DEF Watches, Ready, TypeOK
  <2> QED BY <1>1, <2>1 DEF PeerTurns, procs, calls, TypeOK
<1>2. CASE UNCHANGED vars BY <1>2 DEF vars, procs, calls, TypeOK
<1> QED BY <1>1, <1>2, Cases, AgentType, CommandType

\* Every file, every list of sockets and every dialler is of its kind at every
\* step of dialling (local_dial.rs).
THEOREM DialingTypeCorrect == Spec => []TypeOK
BY InitType, NextType, PTL DEF Spec

-----------------------------------------------------------------------------
(* Identities.                                                             *)

\* A command that gets its session through an agent greets as that agent's
\* identity: the peer compares it with the endpoint that called (session.rs:102),
\* so an agent of another data directory behind the socket gets nobody a session.
THEOREM IdentityKeptHolds == Spec => []IdentityKept
<1>1. Init => IdentityKept BY DEF Init, IdentityKept
<1>2. ASSUME TypeOK, IdentityKept, [Next]_vars
      PROVE  IdentityKept'
  <2>1. CASE \E a \in Agents : AgentSteps(a)
    BY <1>2, <2>1
    DEF AgentSteps, Starts, Clears, Listens, ProxyEnds, Dies, calls, IdentityKept
  <2>2. CASE \E c \in Commands : CommandSteps(c)
    <3> PICK c \in Commands : CommandSteps(c) BY <2>2
    <3>0. Itself \notin Agents BY DialingAssumption
    <3>1. ASSUME NEW to, NEW rest, NEW who, Moves(c, to, rest, who),
                 to = "open" /\ who \in Agents => Of[who] = Of[c]
          PROVE  IdentityKept'
      BY <1>2, <3>1 DEF Moves, IdentityKept, TypeOK
    <3>2. CASE Begins(c) BY <3>1, <3>2 DEF Begins
    <3>3. CASE Refused(c) BY <3>1, <3>3 DEF Refused
    <3>4. CASE Asks(c) BY <3>1, <3>4 DEF Asks
    <3>5. CASE \E a \in Agents : AgentDials(a, c) BY <3>1, <3>5 DEF AgentDials
    <3>6. CASE \E a \in Agents : AgentFails(a, c) BY <3>1, <3>6 DEF AgentFails
    <3>7. CASE AgentGone(c) BY <3>1, <3>7 DEF AgentGone
    <3>8. CASE Binds(c) BY <3>1, <3>8 DEF Binds
    <3>9. CASE Dials(c) BY <3>0, <3>1, <3>9 DEF Dials
    <3>10. CASE Greets(c) BY <3>1, <3>10 DEF Greets, Serving
    <3>11. CASE Ends(c) BY <3>1, <3>11 DEF Ends
    <3> QED
      BY <3>2, <3>3, <3>4, <3>5, <3>6, <3>7, <3>8, <3>9, <3>10, <3>11 DEF CommandSteps
  <2>3. CASE PeerTurns BY <1>2, <2>3 DEF PeerTurns, calls, IdentityKept
  <2>4. CASE UNCHANGED vars BY <1>2, <2>4 DEF vars, calls, IdentityKept
  <2> QED BY <1>2, <2>1, <2>2, <2>3, <2>4, Cases
<1> QED BY <1>1, <1>2, DialingTypeCorrect, PTL DEF Spec

-----------------------------------------------------------------------------
(* Sockets.                                                                *)

Sockets == Behind /\ Alone /\ Reachable

LEMMA AgentSockets ==
  ASSUME TypeOK, Sockets, NEW a \in Agents, AgentSteps(a)
  PROVE  Sockets'
<1> USE DEF TypeOK
<1>0. /\ Socket \in [Agents \cup Commands -> Paths]
      /\ NoFile \notin Agents /\ Stale \notin Agents /\ Stale # NoFile
  BY DialingAssumption DEF NoFile, Stale
<1>1. CASE Starts(a)
  <2>1. /\ agent[a] = "off" /\ agent' = [agent EXCEPT ![a] = "bound"] /\ file' = file
        /\ met \subseteq met'
        /\ \A b \in Agents \ {a} :
             Socket[b] = Socket[a] /\ agent[b] # "off" => a \in met' /\ b \in met'
    BY <1>1 DEF Starts, Rivals
  <2>2. Behind' BY <1>0, <2>1 DEF Sockets, Behind
  <2>3. Alone'
    <3>1. Apart' BY <1>0, <2>1 DEF Sockets, Alone, Apart
    <3>2. Finds' BY <1>0, <2>1 DEF Sockets, Alone, Apart, Finds
    <3> QED BY <3>1, <3>2 DEF Alone
  <2>4. Reachable' BY <1>0, <2>1 DEF Sockets, Reachable
  <2> QED BY <2>2, <2>3, <2>4 DEF Sockets
<1>2. CASE Clears(a)
  <2>1. /\ agent[a] = "bound" /\ agent' = [agent EXCEPT ![a] = "clear"] /\ met' = met
        /\ file' = [file EXCEPT ![Socket[a]] = NoFile]
    BY <1>2 DEF Clears
  <2>2. Behind' BY <1>0, <2>1 DEF Sockets, Behind
  <2>3. Alone'
    <3>1. Apart' BY <1>0, <2>1 DEF Sockets, Alone, Apart
    <3>2. Finds' BY <1>0, <2>1 DEF Sockets, Alone, Apart, Finds
    <3> QED BY <3>1, <3>2 DEF Alone
  <2>4. Reachable'
    <3>1. \A b \in Agents \ met : b # a /\ Socket[b] = Socket[a] => agent[b] = "off"
      BY <2>1 DEF Sockets, Alone, Apart
    <3> QED BY <1>0, <2>1, <3>1 DEF Sockets, Reachable
  <2> QED BY <2>2, <2>3, <2>4 DEF Sockets
<1>3. CASE Listens(a)
  <2>0. CASE file[Socket[a]] = NoFile
    <3>1. /\ agent[a] = "clear" /\ agent' = [agent EXCEPT ![a] = "listens"] /\ met' = met
          /\ file' = [file EXCEPT ![Socket[a]] = a]
      BY <1>3, <2>0 DEF Listens
    <3>2. Behind' BY <1>0, <3>1 DEF Sockets, Behind
    <3>3. Alone'
      <4>1. Apart' BY <1>0, <3>1 DEF Sockets, Alone, Apart
      <4>2. Finds' BY <1>0, <3>1 DEF Sockets, Alone, Apart, Finds
      <4> QED BY <4>1, <4>2 DEF Alone
    <3>4. Reachable'
      <4>1. \A b \in Agents \ met : b # a /\ Socket[b] = Socket[a] => agent[b] = "off"
        BY <3>1 DEF Sockets, Alone, Apart
      <4> QED BY <1>0, <3>1, <4>1 DEF Sockets, Reachable
    <3> QED BY <3>2, <3>3, <3>4 DEF Sockets
  <2>1. CASE file[Socket[a]] # NoFile
    <3>1. /\ agent[a] = "clear" /\ agent' = [agent EXCEPT ![a] = "mute"] /\ met' = met
          /\ file' = file
      BY <1>3, <2>1 DEF Listens
    <3>2. Behind' BY <1>0, <3>1 DEF Sockets, Behind
    <3>3. Alone'
      <4>1. Apart' BY <1>0, <3>1 DEF Sockets, Alone, Apart
      <4>2. Finds' BY <1>0, <3>1 DEF Sockets, Alone, Apart, Finds
      <4> QED BY <4>1, <4>2 DEF Alone
    <3>4. Reachable'
      <4>1. a \in met BY <2>1, <3>1 DEF Sockets, Alone, Finds
      <4> QED BY <1>0, <3>1, <4>1 DEF Sockets, Reachable
    <3> QED BY <3>2, <3>3, <3>4 DEF Sockets
  <2> QED BY <2>0, <2>1
<1>4. CASE ProxyEnds(a)
  <2>1. /\ agent[a] = "listens" /\ agent' = [agent EXCEPT ![a] = "dead"] /\ met' = met
        /\ file' = [p \in Paths |-> IF file[p] = a THEN Stale ELSE file[p]]
    BY <1>4 DEF ProxyEnds, Abandoned
  <2>2. Behind' BY <1>0, <2>1 DEF Sockets, Behind
  <2>3. Alone'
    <3>1. Apart' BY <1>0, <2>1 DEF Sockets, Alone, Apart
    <3>2. Finds' BY <1>0, <2>1 DEF Sockets, Alone, Apart, Finds
    <3> QED BY <3>1, <3>2 DEF Alone
  <2>4. Reachable' BY <1>0, <2>1 DEF Sockets, Reachable
  <2> QED BY <2>2, <2>3, <2>4 DEF Sockets
<1>5. CASE Dies(a)
  <2>1. /\ agent' = [agent EXCEPT ![a] = "off"] /\ met' = met \ {a}
        /\ file' = [p \in Paths |-> IF file[p] = a THEN Stale ELSE file[p]]
    BY <1>5 DEF Dies, Abandoned
  <2>2. Behind' BY <1>0, <2>1 DEF Sockets, Behind
  <2>3. Alone'
    <3>1. Apart' BY <1>0, <2>1 DEF Sockets, Alone, Apart
    <3>2. Finds' BY <1>0, <2>1 DEF Sockets, Alone, Apart, Finds
    <3> QED BY <3>1, <3>2 DEF Alone
  <2>4. Reachable' BY <1>0, <2>1 DEF Sockets, Reachable
  <2> QED BY <2>2, <2>3, <2>4 DEF Sockets
<1> QED BY <1>1, <1>2, <1>3, <1>4, <1>5 DEF AgentSteps

LEMMA SocketsStep ==
  ASSUME TypeOK, Sockets, [Next]_vars
  PROVE  Sockets'
<1>1. ASSUME UNCHANGED <<procs, met>> PROVE Sockets'
  BY <1>1 DEF procs, Sockets, Behind, Alone, Apart, Finds, Reachable
<1>2. CASE \E c \in Commands : CommandSteps(c)
  <2>1. UNCHANGED <<procs, met>>
    BY <1>2
    DEF CommandSteps, Begins, Refused, Asks, AgentDials, AgentFails, AgentGone, Binds,
        Dials, Greets, Ends, Moves
  <2> QED BY <1>1, <2>1
<1>3. CASE PeerTurns BY <1>1, <1>3 DEF PeerTurns
<1>4. CASE UNCHANGED vars BY <1>1, <1>4 DEF vars
<1> QED BY <1>2, <1>3, <1>4, Cases, AgentSockets

\* An agent alone on its path is found behind it, whatever sockets dead agents
\* have left there (local_dial.rs:34-47).
THEOREM ReachableHolds == Spec => []Reachable
<1>1. Init => Sockets
  <2>1. NoFile \notin Agents /\ Stale \notin Agents BY DialingAssumption
  <2> QED BY <2>1 DEF Init, Sockets, Behind, Alone, Apart, Finds, Reachable
<1> QED BY <1>1, SocketsStep, DialingTypeCorrect, PTL DEF Spec, Sockets

-----------------------------------------------------------------------------
(* The search.                                                             *)

\* A step that leaves this command where it is, or a silent one.
LEMMA SearchKeeps ==
  ASSUME TypeOK, Searching, Watches, NEW c \in Commands,
         UNCHANGED <<at[c], left[c], via[c]>>
  PROVE  \A a \in steady'[c] :
           /\ a \in Ready(c)'
           /\ at'[c] = "tries" => Ahead(c, a)'
           /\ at'[c] = "asks" => via'[c] = a \/ Ahead(c, a)'
BY Watched DEF Searching, Ahead

\* What is ahead and is not the first stays ahead.
LEMMA AheadOfTail ==
  ASSUME TypeOK, NEW c \in Commands, NEW a, Ahead(c, a), left[c] # <<>>,
         left'[c] = Tail(left[c]), Socket[a] # Head(left[c])
  PROVE  Ahead(c, a)'
<1>1. left[c] \in Seq(Paths) BY DEF TypeOK
<1> QED BY <1>1, Tails DEF Ahead

LEMMA CommandSearch ==
  ASSUME TypeOK, Searching, Watches, NEW c \in Commands, CommandSteps(c),
         NEW a \in steady'[c]
  PROVE  /\ a \in Ready(c)'
         /\ at'[c] = "tries" => Ahead(c, a)'
         /\ at'[c] = "asks" => via'[c] = a \/ Ahead(c, a)'
<1>1. a \in Ready(c)' BY Watched
<1>2. /\ a \in Agents /\ agent'[a] = "listens" /\ file'[Socket[a]] = a /\ Reaches(a)'
      /\ \E n \in DOMAIN Candidates(c) : Candidates(c)[n] = Socket[a]
  BY <1>1 DEF Ready, Candidates
<1>3. a # Nobody /\ a # NoFile /\ a # Stale BY <1>2, DialingAssumption DEF Nobody, NoFile, Stale
<1>4. CASE Begins(c)
  <2>1. at'[c] = "tries" /\ left'[c] = Candidates(c)
    BY <1>4 DEF Begins, Moves, TypeOK
  <2>2. Candidates(c) \in Seq(Paths) BY CandidatesType
  <2>3. \E n \in 1 .. Len(left'[c]) : left'[c][n] = Socket[a] BY <1>2, <2>1, <2>2
  <2> QED BY <1>1, <2>1, <2>3 DEF Ahead
<1>5. CASE ~Begins(c)
  <2>0. ~(at[c] = "idle" /\ at'[c] = "tries")
    BY <1>5
    DEF CommandSteps, Refused, Asks, AgentDials, AgentFails, AgentGone, Binds, Dials, Greets,
        Ends, Moves, TypeOK
  <2>1. a \in steady[c] BY <2>0, Watched
  <2>2. /\ at[c] = "tries" => Ahead(c, a)
        /\ at[c] = "asks" => via[c] = a \/ Ahead(c, a)
    BY <2>1 DEF Searching
  <2>3. CASE Refused(c)
    <3>1. /\ at[c] = "tries" /\ left[c] # <<>> /\ file[Head(left[c])] \in {NoFile, Stale}
          /\ at'[c] = "tries" /\ left'[c] = Tail(left[c]) /\ file' = file
      BY <2>3 DEF Refused, Moves, procs, TypeOK
    <3>2. Socket[a] # Head(left[c]) BY <1>2, <1>3, <3>1
    <3> QED BY <1>1, <2>2, <3>1, <3>2, AheadOfTail
  <2>4. CASE Asks(c)
    <3>1. /\ at[c] = "tries" /\ left[c] # <<>> /\ at'[c] = "asks" /\ file' = file
          /\ left'[c] = Tail(left[c]) /\ via'[c] = file[Head(left[c])]
      BY <2>4 DEF Asks, Moves, procs, TypeOK
    <3>2. CASE Socket[a] = Head(left[c]) BY <1>1, <1>2, <3>1, <3>2
    <3>3. CASE Socket[a] # Head(left[c]) BY <1>1, <2>2, <3>1, <3>3, AheadOfTail
    <3> QED BY <3>2, <3>3
  <2>5. CASE \E b \in Agents : AgentFails(b, c)
    <3> PICK b \in Agents : AgentFails(b, c) BY <2>5
    <3>1. /\ at[c] = "asks" /\ via[c] = b /\ ~Reaches(b) /\ at'[c] = "tries"
          /\ left'[c] = left[c] /\ agent' = agent /\ up' = up
          /\ via' = [via EXCEPT ![c] = Nobody]
      BY DEF AgentFails, Serving, Moves, procs, TypeOK
    <3>2. b # Itself /\ Nobody # Itself BY DialingAssumption DEF Itself, Nobody
    <3>3. \A i : Bound(i)' = Bound(i) BY <3>1, <3>2 DEF Bound, TypeOK
    <3>4. Reaches(b)' <=> Reaches(b) BY <3>1, <3>3 DEF Reaches
    <3>5. a # b BY <1>2, <3>1, <3>4
    <3> QED BY <1>1, <2>2, <3>1, <3>5 DEF Ahead
  <2>6. CASE AgentGone(c)
    <3>1. /\ at[c] = "asks" /\ via[c] # a /\ at'[c] = "tries" /\ left'[c] = left[c]
      BY <1>2, <2>6 DEF AgentGone, Serving, Moves, procs, TypeOK
    <3> QED BY <1>1, <2>2, <3>1 DEF Ahead
  <2>7. CASE at'[c] \notin {"tries", "asks"} BY <1>1, <2>7
  <2>8. \/ Refused(c) \/ Asks(c) \/ AgentGone(c) \/ \E b \in Agents : AgentFails(b, c)
        \/ at'[c] \notin {"tries", "asks"}
    BY <1>5 DEF CommandSteps, AgentDials, Binds, Dials, Greets, Ends, Moves, TypeOK
  <2> QED BY <2>3, <2>4, <2>5, <2>6, <2>7, <2>8
<1> QED BY <1>4, <1>5

LEMMA SearchStep ==
  ASSUME TypeOK, Searching, [Next]_vars
  PROVE  Searching'
<1>1. CASE UNCHANGED vars
  BY <1>1 DEF vars, procs, calls, Searching, Ahead, Ready, Candidates, Reaches, Bound
<1>2. CASE Watches /\ \E a \in Agents : AgentSteps(a)
  <2>1. UNCHANGED calls
    BY <1>2 DEF AgentSteps, Starts, Clears, Listens, ProxyEnds, Dies
  <2> QED BY <1>2, <2>1, SearchKeeps DEF calls, Searching
<1>3. CASE Watches /\ PeerTurns BY <1>3, SearchKeeps DEF PeerTurns, calls, Searching
<1>4. CASE Watches /\ \E d \in Commands : CommandSteps(d)
  <2> PICK d \in Commands : CommandSteps(d) BY <1>4
  <2>1. \A c \in Commands \ {d} : UNCHANGED <<at[c], left[c], via[c]>>
    BY DEF CommandSteps, Begins, Refused, Asks, AgentDials, AgentFails, AgentGone, Binds,
           Dials, Greets, Ends, Moves, TypeOK
  <2> QED BY <1>4, <2>1, SearchKeeps, CommandSearch DEF Searching
<1> QED BY <1>1, <1>2, <1>3, <1>4, Cases

LEMMA OwnStep ==
  ASSUME TypeOK, Own, [Next]_vars
  PROVE  Own'
<1>1. ASSUME UNCHANGED calls PROVE Own' BY <1>1 DEF calls, Own
<1>2. CASE \E c \in Commands : CommandSteps(c)
  <2> PICK c \in Commands : CommandSteps(c) BY <1>2
  <2>1. /\ \A d \in Commands \ {c} : UNCHANGED <<at[d], via[d]>>
        /\ at'[c] = "binds" => via'[c] = Itself
    BY DEF CommandSteps, Begins, Refused, Asks, AgentDials, AgentFails, AgentGone, Binds,
           Dials, Greets, Ends, Moves, TypeOK
  <2> QED BY <2>1 DEF Own
<1> QED
  BY <1>1, <1>2, Cases
  DEF AgentSteps, Starts, Clears, Listens, ProxyEnds, Dies, PeerTurns, vars

\* A command that gives up the agents and binds a second endpoint of its identity
\* (local_dial.rs:275) has found each of them gone, or unable to reach the peer,
\* for a moment at least.
THEOREM NoNeedlessBindHolds == Spec => NoNeedlessBind
<1>1. Init => Searching /\ Own BY DEF Init, Searching, Own
<1>2. ASSUME TypeOK, Searching, Own, [Next]_vars
      PROVE  \A c \in Commands : via[c] # Itself /\ via'[c] = Itself => steady[c] = {}
  <2> SUFFICES ASSUME NEW c \in Commands, via[c] # Itself, via'[c] = Itself
               PROVE  steady[c] = {}
    OBVIOUS
  <2>1. Itself \notin Agents /\ Itself # Nobody BY DialingAssumption DEF Itself, Nobody
  <2>2. \E d \in Commands : CommandSteps(d)
    BY <1>2, Cases
    DEF AgentSteps, Starts, Clears, Listens, ProxyEnds, Dies, PeerTurns, vars, calls
  <2> PICK d \in Commands : CommandSteps(d) BY <2>2
  <2>3. d = c
    BY <1>2
    DEF CommandSteps, Begins, Refused, Asks, AgentDials, AgentFails, AgentGone, Binds,
        Dials, Greets, Ends, Moves, TypeOK
  <2>4. at[c] # "binds" BY <1>2 DEF Own
  <2>5. Binds(c)
    BY <1>2, <2>1, <2>3, <2>4
    DEF CommandSteps, Begins, Refused, Asks, AgentDials, AgentFails, AgentGone, Dials,
        Greets, Ends, Moves, TypeOK
  <2>6. at[c] = "tries" /\ left[c] = <<>> BY <2>5 DEF Binds
  <2> QED BY <1>2, <2>6 DEF Searching, Ahead
<1>3. TypeOK /\ Searching /\ Own /\ [Next]_vars => Searching' /\ Own'
  BY SearchStep, OwnStep
<1> QED BY <1>1, <1>2, <1>3, DialingTypeCorrect, PTL DEF Spec, NoNeedlessBind
=============================================================================
