------------------------------ MODULE Dialing ------------------------------
(***************************************************************************)
(* How a command reaches a peer.  Each agent owns an endpoint and a Unix   *)
(* socket; a command asks the agents behind the sockets it knows, one by   *)
(* one, to dial for it, and binds an endpoint of its own if none does.     *)
(* Agents start, die and start again at any time, and those of several     *)
(* users or data directories may be configured with one socket path.       *)
(***************************************************************************)
EXTENDS Sequences

CONSTANTS Agents, Commands, Paths, Identities,
          Of,         \* the identity of each agent and command
          Socket,     \* the path each agent and command has in its configuration
          Others      \* the paths each command tries besides its own, in order

NoFile == "nothing"
Stale == "stale"   \* the socket of a listener that is gone
Nobody == "nobody"
Itself == "itself"

ASSUME DialingAssumption ==
  /\ Agents \cap Commands = {}
  /\ (Agents \cup Commands) \cap {NoFile, Stale, Nobody, Itself} = {}
  /\ Of \in [Agents \cup Commands -> Identities]
  /\ Socket \in [Agents \cup Commands -> Paths]
  /\ Others \in [Commands -> Seq(Paths)]

VARIABLES agent,   \* how far each agent has come
          file,    \* the listener behind each path
          at,      \* point of each command
          left,    \* the sockets it has still to try
          via,     \* who dials for it
          up,      \* whether the peer answers
          steady,  \* history: the agents that could have served it all along
          met      \* history: agents that have lived with another one of their path

procs == <<agent, file>>
calls == <<at, left, via>>
vars == <<procs, calls, up, steady, met>>

TypeOK ==
  /\ agent \in [Agents -> {"off", "bound", "clear", "listens", "mute", "dead"}]
  /\ file \in [Paths -> Agents \cup {NoFile, Stale}]
  /\ at \in [Commands -> {"idle", "tries", "asks", "relayed", "binds", "open"}]
  /\ left \in [Commands -> Seq(Paths)]
  /\ via \in [Commands -> Agents \cup {Nobody, Itself}]
  /\ \A c \in Commands : (via[c] = Nobody) <=> at[c] \in {"idle", "tries"}
  /\ up \in BOOLEAN
  /\ steady \in [Commands -> SUBSET Agents]
  /\ met \subseteq Agents

Init ==
  /\ agent = [a \in Agents |-> "off"]
  /\ file \in [Paths -> {NoFile, Stale}]
  /\ at = [c \in Commands |-> "idle"]
  /\ left = [c \in Commands |-> <<>>]
  /\ via = [c \in Commands |-> Nobody]
  /\ up \in BOOLEAN
  /\ steady = [c \in Commands |-> {}]
  /\ met = {}

-----------------------------------------------------------------------------
\* The configured path first; the others, found in the command's environment,
\* are sorted.
Candidates(c) == <<Socket[c]>> \o Others[c]

\* Whoever holds an endpoint of an identity.  The network knows one of them.
Bound(i) == {a \in Agents : Of[a] = i /\ agent[a] # "off"}
              \cup {c \in Commands : Of[c] = i /\ via[c] = Itself}
Reaches(x) == up /\ Bound(Of[x]) \subseteq {x}

-----------------------------------------------------------------------------
(* Agents.                                                                 *)

Rivals(a) == {b \in Agents \ {a} : Socket[b] = Socket[a] /\ agent[b] # "off"}

\* mymesh serve binds its endpoint; the socket is made by a task of its own.
Starts(a) ==
  /\ agent[a] = "off"
  /\ agent' = [agent EXCEPT ![a] = "bound"]
  /\ met' = IF Rivals(a) = {} THEN met ELSE met \cup Rivals(a) \cup {a}
  /\ UNCHANGED <<file, calls, up>>

\* The bug of a socket file that is left where it is.
Clears_Keeps(a) ==
  /\ agent[a] = "bound"
  /\ agent' = [agent EXCEPT ![a] = "clear"]
  /\ UNCHANGED <<file, calls, up, met>>

Clears(a) ==
  /\ agent[a] = "bound"
  /\ agent' = [agent EXCEPT ![a] = "clear"]
  /\ file' = [file EXCEPT ![Socket[a]] = NoFile]
  /\ UNCHANGED <<calls, up, met>>

\* A path that is in use again is an error: the agent goes on without a socket.
Listens(a) ==
  /\ agent[a] = "clear"
  /\ IF file[Socket[a]] = NoFile
     THEN /\ agent' = [agent EXCEPT ![a] = "listens"]
          /\ file' = [file EXCEPT ![Socket[a]] = a]
     ELSE agent' = [agent EXCEPT ![a] = "mute"] /\ UNCHANGED file
  /\ UNCHANGED <<calls, up, met>>

\* Its socket, if it still has a path, is left behind.
Abandoned(a) == [p \in Paths |-> IF file[p] = a THEN Stale ELSE file[p]]

\* An error of accept ends the task that serves the socket, not the agent.
ProxyEnds(a) ==
  /\ agent[a] = "listens"
  /\ agent' = [agent EXCEPT ![a] = "dead"]
  /\ file' = Abandoned(a)
  /\ UNCHANGED <<calls, up, met>>

Dies(a) ==
  /\ agent[a] # "off"
  /\ agent' = [agent EXCEPT ![a] = "off"]
  /\ file' = Abandoned(a)
  /\ met' = met \ {a}
  /\ UNCHANGED <<calls, up>>

\* What an agent has accepted is served whatever becomes of its socket, until
\* the process ends.
Serving(a, c) == via[c] = a /\ a \in Agents /\ agent[a] # "off"

-----------------------------------------------------------------------------
(* Commands.                                                               *)

Moves(c, to, rest, who) ==
  /\ at' = [at EXCEPT ![c] = to]
  /\ left' = [left EXCEPT ![c] = rest]
  /\ via' = [via EXCEPT ![c] = who]
  /\ UNCHANGED <<procs, up, met>>

Begins(c) == at[c] = "idle" /\ Moves(c, "tries", Candidates(c), Nobody)

\* The bug of taking a dead socket for an agent that cannot dial.
Refused_GivesUp(c) ==
  /\ at[c] = "tries" /\ left[c] # <<>> /\ file[Head(left[c])] \in {NoFile, Stale}
  /\ Moves(c, "tries", IF file[Head(left[c])] = Stale THEN <<>> ELSE Tail(left[c]), Nobody)

\* No file, or nobody behind it.  Sockets of other users, which refuse too, are
\* left out.
Refused(c) ==
  /\ at[c] = "tries" /\ left[c] # <<>> /\ file[Head(left[c])] \in {NoFile, Stale}
  /\ Moves(c, "tries", Tail(left[c]), Nobody)

Asks(c) ==
  /\ at[c] = "tries" /\ left[c] # <<>> /\ file[Head(left[c])] \in Agents
  /\ Moves(c, "asks", Tail(left[c]), file[Head(left[c])])

AgentDials(a, c) ==
  /\ at[c] = "asks" /\ Serving(a, c) /\ up
  /\ Moves(c, "relayed", left[c], a)

\* The peer does not answer, or answers another endpoint of this identity.
AgentFails(a, c) ==
  /\ at[c] = "asks" /\ Serving(a, c) /\ ~Reaches(a)
  /\ Moves(c, "tries", left[c], Nobody)

AgentGone(c) ==
  /\ at[c] = "asks" /\ ~\E a \in Agents : Serving(a, c)
  /\ Moves(c, "tries", left[c], Nobody)

Binds(c) ==
  /\ at[c] = "tries" /\ left[c] = <<>>
  /\ Moves(c, "binds", <<>>, Itself)

Dials(c) == at[c] = "binds" /\ up /\ Moves(c, "open", <<>>, Itself)

\* The bug of a peer that believes the name in the greeting.
Greets_Believed(c) ==
  /\ at[c] = "relayed" /\ up
  /\ \E a \in Agents : Serving(a, c)
  /\ Moves(c, "open", <<>>, via[c])

\* The peer compares the name with the endpoint that called.
Greets(c) ==
  /\ at[c] = "relayed" /\ up
  /\ \E a \in Agents : Serving(a, c) /\ Of[a] = Of[c]
  /\ Moves(c, "open", <<>>, via[c])

\* The bug of an agent that is still named when the command is over.
Ends_KeepsVia(c) ==
  /\ at[c] \in {"relayed", "binds", "open"}
  /\ Moves(c, "idle", <<>>, via[c])

\* Done, refused or cut off: an endpoint of the command's own is shut down.
Ends(c) ==
  /\ at[c] \in {"relayed", "binds", "open"}
  /\ Moves(c, "idle", <<>>, Nobody)

PeerTurns == up' = ~up /\ UNCHANGED <<procs, calls, met>>

-----------------------------------------------------------------------------
\* Agents of the command's identity that listen on a path it knows and would
\* reach the peer.
Ready(c) ==
  {a \in Agents : /\ Of[a] = Of[c] /\ agent[a] = "listens" /\ file[Socket[a]] = a
                  /\ \E n \in DOMAIN Candidates(c) : Candidates(c)[n] = Socket[a]
                  /\ Reaches(a)}

\* A command starts anew with those ready then, and loses who is not ready for
\* a moment.
Watches ==
  steady' = [c \in Commands |->
    IF at[c] = "idle" /\ at'[c] = "tries" THEN Ready(c)'
    ELSE IF at'[c] = "idle" \/ via'[c] = Itself THEN {}
    ELSE steady[c] \cap Ready(c)']

Next ==
  /\ \/ \E a \in Agents : Starts(a) \/ Clears(a) \/ Listens(a) \/ ProxyEnds(a) \/ Dies(a)
     \/ \E c \in Commands :
          \/ Begins(c) \/ Refused(c) \/ Asks(c)
          \/ \E a \in Agents : AgentDials(a, c) \/ AgentFails(a, c)
          \/ AgentGone(c) \/ Binds(c) \/ Dials(c) \/ Greets(c) \/ Ends(c)
     \/ PeerTurns
  /\ Watches

Spec == Init /\ [][Next]_vars

-----------------------------------------------------------------------------
(* Properties.                                                             *)

\* A session is open under the command's own identity, although the agent
\* behind a socket may be any other one by the time the command connects.
IdentityKept ==
  \A c \in Commands : at[c] = "open" /\ via[c] \in Agents => Of[via[c]] = Of[c]

\* A command binds a second endpoint of its identity only if, for some moment of
\* its search, no agent of that identity was there to dial for it.
NoNeedlessBind ==
  [][\A c \in Commands : via[c] # Itself /\ via'[c] = Itself => steady[c] = {}]_vars

\* An agent whose path no other agent was using is found behind it, whatever
\* sockets dead agents have left.
Reachable ==
  \A a \in Agents \ met :
    agent[a] \in {"listens", "mute"} => agent[a] = "listens" /\ file[Socket[a]] = a
=============================================================================
