------------------------------ MODULE Services ------------------------------
(***************************************************************************)
(* One command of the CLI and the agent of the device it talks to, from    *)
(* the Hello on: file copies, lists, probes, a shell or a TCP tunnel over  *)
(* one connection.  The connection has a lane in each direction and is     *)
(* closed by whoever lets go of it first; what is then on its way may be   *)
(* lost from the end.                                                      *)
(***************************************************************************)
EXTENDS Naturals, Sequences, SequencesExt

CONSTANTS Commands,  \* commands that may be run
          Items,     \* bound: chunks of a file, or lines an application writes
          FaultSets  \* the sets of faults a behaviour may be subject to

Copies == {"push", "pull"}                 \* wait without a deadline
Probes == {"bw", "list", "ping", "metrics"} \* have a deadline
Faults == {"slow", "cut", "quit", "io", "deny", "nomesh", "torn"}
Ended == {"ok", "err", "left"}             \* left: ended without the other's word

ASSUME ServicesAssumption ==
  /\ Commands \subseteq Copies \cup Probes \cup {"shell", "tunnel"}
  /\ Items \in Nat
  /\ FaultSets \subseteq SUBSET Faults

Sides == {"client", "host"}
Peer(s) == IF s = "client" THEN "host" ELSE "client"

VARIABLES cmd,      \* the command
          faults,
          news,     \* gossip the host sends before it serves
          trusted,  \* the host's record of the client, which allows every service
          conn,     \* open or closed
          lane,     \* frames on their way to a side
          at,       \* point of each side's code
          file,     \* the host's file
          local,    \* the client's
          put,      \* the host has an active put
          shell,    \* the shell process
          term,     \* the session holds a terminal
          termOut,  \* from the reader of the terminal to the session
          torn,     \* sides that have dropped a frame half read
          out, got, \* items written by a side's application, and delivered to it
          denied    \* history: the host has ignored a request

setting == <<cmd, faults>>
files == <<file, local, put>>
shells == <<shell, term, termOut, torn>>
apps == <<out, got>>
vars == <<setting, news, trusted, conn, lane, at, files, shells, apps, denied>>

Data == [i \in 1..Items |-> i]
OldFile == [i \in 1..Items + 1 |-> 0]

Kinds == {"control", "files", "terminal", "tcp"}
Types == {"Hello", "HelloAck", "Snapshot", "KickAnnounce", "Ping", "Pong",
          "MetricsRequest", "Metrics", "Put", "Chunk", "Done", "Get", "List",
          "ListResult", "Open", "Input", "Output", "Exit", "Dial", "DialOk",
          "DialErr", "Data", "Close"}
Frame == [kind : Kinds, type : Types, n : 0..Items + 1]
F(k, t, n) == [kind |-> k, type |-> t, n |-> n]

Snapshot == F("control", "Snapshot", 0)
KickAnnounce == F("control", "KickAnnounce", 0)

TypeOK ==
  /\ cmd \in Commands /\ faults \in FaultSets /\ denied \in BOOLEAN
  /\ news \in Seq({Snapshot, KickAnnounce})
  /\ trusted \in BOOLEAN
  /\ conn \in {"open", "closed"}
  /\ lane \in [Sides -> Seq(Frame)]
  /\ at \in [Sides -> {"accept", "hello", "news", "loop", "pipe", "ack", "request",
                       "upload", "wait"} \cup Ended]
  /\ file \in Seq(0..Items) /\ local \in Seq(0..Items) /\ put \in BOOLEAN
  /\ shell \in {"none", "alive", "dead"} /\ term \in BOOLEAN
  /\ termOut \in Seq(Frame) /\ torn \subseteq Sides
  /\ out \in [Sides -> 0..Items] /\ got \in [Sides -> Seq(1..Items)]

\* The agent accepts, the client has sent its Hello.  It will be sent the roster,
\* unless mesh.json cannot be loaded, and a kick that is pending.
Init ==
  /\ cmd \in Commands /\ faults \in FaultSets
  /\ news \in IF "nomesh" \in faults THEN {<<>>, <<KickAnnounce>>}
              ELSE {<<Snapshot>>, <<Snapshot, KickAnnounce>>}
  /\ trusted \in BOOLEAN
  /\ conn = "open"
  /\ lane = [s \in Sides |-> IF s = "host" THEN <<F("control", "Hello", 0)>> ELSE <<>>]
  /\ at = [s \in Sides |-> IF s = "host" THEN "accept" ELSE "ack"]
  /\ file = OldFile /\ local = OldFile /\ put = FALSE
  /\ shell = "none" /\ term = FALSE /\ termOut = <<>> /\ torn = {}
  /\ out = [s \in Sides |-> 0] /\ got = [s \in Sides |-> <<>>]
  /\ denied = FALSE

Active(s) == at[s] \notin Ended
GoesTo(s, p) == at' = [at EXCEPT ![s] = p]

-----------------------------------------------------------------------------
(* The connection.                                                         *)

\* s sends fs; a send on a closed connection is an error (see Loses).
Send(s, fs) ==
  /\ conn = "open" \/ fs = <<>>
  /\ lane' = [lane EXCEPT ![Peer(s)] = @ \o fs]
  /\ UNCHANGED conn

Next1(s) == Head(lane[s])
Has(s) == Active(s) /\ lane[s] # <<>> /\ s \notin torn

\* A select! that turns to something else drops a read_frame that has begun: what
\* it has read of the frame is lost, and the next read starts inside of it.
TurnsAway(s) ==
  \/ UNCHANGED torn
  \/ "torn" \in faults /\ lane[s] # <<>> /\ torn' = torn \cup {s}

\* The rest is taken for no frame, which is an error (a payload's variant number is no
\* legal length); that of an Exit is too short for a header, and the reader waits.
Misreads(s) ==
  /\ Active(s) /\ s \in torn
  /\ conn = "open" => Next1(s).type # "Exit"

\* s reads its next frame and answers with fs.
Take(s, fs) ==
  /\ Has(s) /\ (conn = "open" \/ fs = <<>>)
  /\ lane' = [lane EXCEPT ![s] = Tail(@), ![Peer(s)] = @ \o fs]
  /\ UNCHANGED conn

\* s lets go of the connection after sending fs: what it sent last may be lost.
Leave(s, p, fs) ==
  /\ GoesTo(s, p)
  /\ conn' = "closed"
  /\ \E k \in 0..Len(lane[Peer(s)] \o fs) :
       lane' = [lane EXCEPT ![s] = <<>>,
                            ![Peer(s)] = IF conn = "open" THEN SubSeq(@ \o fs, 1, k) ELSE @]
\* The session ends; its terminal is dropped with it.
HostLeaves(fs) ==
  /\ Leave("host", "err", fs)
  /\ term' = FALSE /\ termOut' = <<>>
  /\ UNCHANGED <<shell, torn, setting, news, trusted, files, apps, denied>>

ClientLeaves(p) ==
  /\ Leave("client", p, <<>>)
  /\ UNCHANGED <<setting, news, trusted, files, shells, apps, denied>>

-----------------------------------------------------------------------------
(* The agent's session.                                                    *)

HostAccept ==
  /\ at["host"] = "accept"
  /\ IF trusted
     THEN /\ GoesTo("host", "hello")
          /\ UNCHANGED <<setting, news, trusted, conn, lane, files, shells, apps, denied>>
     ELSE HostLeaves(<<>>)

HostHello ==
  /\ at["host"] = "hello" /\ Has("host") /\ Next1("host").type = "Hello"
  /\ Take("host", <<F("control", "HelloAck", 0)>>)
  /\ GoesTo("host", "news")
  /\ UNCHANGED <<setting, news, trusted, files, shells, apps, denied>>

\* The roster and pending kicks, before any request is read.
HostNews ==
  /\ at["host"] = "news"
  /\ IF news = <<>> \/ conn = "closed"
     THEN GoesTo("host", "loop") /\ UNCHANGED <<lane, conn, news>>
     ELSE Send("host", <<Head(news)>>) /\ news' = Tail(news) /\ UNCHANGED at
  /\ UNCHANGED <<setting, trusted, files, shells, apps, denied>>

Serves(kind) == at["host"] = "loop" /\ Has("host") /\ Next1("host").kind = kind

\* A frame of a device no longer trusted is dropped without an answer.
HostIgnores ==
  /\ Serves("files") \/ Serves("terminal") \/ Serves("tcp")
  /\ ~trusted
  /\ Take("host", <<>>)
  /\ denied' = TRUE
  /\ UNCHANGED <<setting, news, trusted, at, files, shells, apps>>

HostControl ==
  /\ Serves("control")
  /\ LET t == Next1("host").type
     IN  Take("host", CASE t = "Ping" -> <<F("control", "Pong", 0)>>
                        [] t = "MetricsRequest" -> <<F("control", "Metrics", 0)>>
                        [] OTHER -> <<>>)
  /\ UNCHANGED <<setting, news, trusted, at, files, shells, apps, denied>>

\* seek to the chunk's offset and write: a gap is filled with zeros.
WriteChunk(f, n) ==
  [i \in 1..(IF n > Len(f) THEN n ELSE Len(f)) |->
     IF i = n THEN n ELSE IF i <= Len(f) THEN f[i] ELSE 0]

\* The bug of opening the file of a put without truncating it.
HostPut_Keeps ==
  /\ Serves("files") /\ trusted /\ Next1("host").type = "Put"
  /\ Take("host", <<>>)
  /\ put' = TRUE /\ UNCHANGED file
  /\ UNCHANGED <<setting, news, trusted, at, local, shells, apps, denied>>

\* resume_from is not passed on: a put always starts with an empty file.
HostPut ==
  /\ Serves("files") /\ trusted /\ Next1("host").type = "Put"
  /\ Take("host", <<>>)
  /\ file' = <<>> /\ put' = TRUE
  /\ UNCHANGED <<setting, news, trusted, at, local, shells, apps, denied>>

HostChunk ==
  /\ Serves("files") /\ trusted /\ Next1("host").type = "Chunk"
  /\ Take("host", <<>>)
  /\ file' = IF put THEN WriteChunk(file, Next1("host").n) ELSE file
  /\ UNCHANGED <<setting, news, trusted, at, local, put, shells, apps, denied>>

\* The sender's own account of the put comes back to it.
HostDone ==
  /\ Serves("files") /\ trusted /\ Next1("host").type = "Done"
  /\ Take("host", <<Next1("host")>>)
  /\ put' = FALSE
  /\ UNCHANGED <<setting, news, trusted, at, file, local, shells, apps, denied>>

Chunks(f) == [i \in 1..Len(f) |-> F("files", "Chunk", f[i])]

HostRead ==
  /\ Serves("files") /\ trusted
  /\ \/ /\ Next1("host").type = "Get"
        /\ Take("host", Append(Chunks(file), F("files", "Done", Len(file))))
     \/ /\ Next1("host").type = "List"
        /\ Take("host", <<F("files", "ListResult", 0)>>)
  /\ UNCHANGED <<setting, news, trusted, at, files, shells, apps, denied>>

\* A shell behind a pseudo-terminal, and a queue for what it will print.
Spawn == shell' = "alive" /\ term' = TRUE /\ termOut' = <<>>

HostOpen ==
  /\ Serves("terminal") /\ trusted /\ Next1("host").type = "Open"
  /\ Take("host", <<>>)
  /\ Spawn
  /\ UNCHANGED <<torn, setting, news, trusted, at, files, apps, denied>>

HostInput ==
  /\ Serves("terminal") /\ trusted /\ Next1("host").type = "Input"
  /\ Take("host", <<>>)
  /\ got' = IF term /\ shell = "alive"
            THEN [got EXCEPT !["host"] = Append(@, Next1("host").n)] ELSE got
  /\ UNCHANGED <<setting, news, trusted, at, files, shells, out, denied>>

\* The bug of dropping the reader's queue when the shell has exited.
HostOutput_ExitFirst ==
  /\ at["host"] = "loop" /\ termOut # <<>> /\ conn = "open"
  /\ LET exits == Last(termOut).type = "Exit"
         m == IF exits THEN Last(termOut) ELSE Head(termOut)
     IN  /\ lane' = [lane EXCEPT !["client"] = Append(@, m)]
         /\ termOut' = IF exits THEN <<>> ELSE Tail(termOut)
         /\ term' = ~exits
  /\ TurnsAway("host")
  /\ UNCHANGED <<shell, setting, news, trusted, conn, at, files, apps, denied>>

HostOutput ==
  /\ at["host"] = "loop" /\ termOut # <<>> /\ conn = "open"
  /\ lane' = [lane EXCEPT !["client"] = Append(@, Head(termOut))]
  /\ termOut' = Tail(termOut)
  /\ term' = (Head(termOut).type # "Exit")
  /\ TurnsAway("host")
  /\ UNCHANGED <<shell, setting, news, trusted, conn, at, files, apps, denied>>

\* A tunnel takes the connection over; the port may refuse.
HostDial ==
  /\ Serves("tcp") /\ trusted /\ Next1("host").type = "Dial"
  /\ \/ /\ Take("host", <<F("tcp", "DialOk", 0)>>)
        /\ GoesTo("host", "pipe")
        /\ UNCHANGED <<setting, news, trusted, files, shells, apps, denied>>
     \/ "io" \in faults /\ HostLeaves(<<F("tcp", "DialErr", 0)>>)

\* Any file, terminal or pseudo-terminal error ends the session unanswered.
HostFails ==
  /\ \/ "io" \in faults /\ trusted /\ (Serves("files") \/ Serves("terminal"))
     \/ Serves("terminal") /\ Next1("host").type = "Input" /\ term /\ shell = "dead"
  /\ HostLeaves(<<>>)

\* A read finds the connection closed, or a send does.
HostLost ==
  /\ at["host"] \in {"hello", "loop"} /\ conn = "closed"
  /\ \/ at["host"] = "hello" \/ termOut # <<>> \/ lane["host"] = <<>>
     \/ /\ lane["host"] # <<>>
        /\ Next1("host").type \in {"Ping", "MetricsRequest", "Done", "Get", "List", "Dial"}
  /\ HostLeaves(<<>>)

HostMisreads == Misreads("host") /\ HostLeaves(<<>>)

Host == \/ HostAccept \/ HostHello \/ HostNews \/ HostIgnores \/ HostControl
        \/ HostPut \/ HostChunk \/ HostDone \/ HostRead \/ HostOpen
        \/ HostInput \/ HostOutput \/ HostDial \/ HostLost
        \/ HostMisreads

-----------------------------------------------------------------------------
(* The pseudo-terminal's reader thread and the shell behind it.            *)

\* With nobody left to read it, output makes the reader kill the shell.
ShellPrints ==
  /\ shell = "alive" /\ out["host"] < Items
  /\ IF term
     THEN /\ out' = [out EXCEPT !["host"] = @ + 1]
          /\ termOut' = Append(termOut, F("terminal", "Output", out["host"] + 1))
          /\ UNCHANGED shell
     ELSE shell' = "dead" /\ UNCHANGED <<out, termOut>>
  /\ UNCHANGED <<setting, news, trusted, conn, lane, at, files, term, torn, got, denied>>

ShellExits ==
  /\ shell = "alive"
  /\ shell' = "dead"
  /\ termOut' = IF term THEN Append(termOut, F("terminal", "Exit", 0)) ELSE termOut
  /\ UNCHANGED <<setting, news, trusted, conn, lane, at, files, term, torn, apps, denied>>

-----------------------------------------------------------------------------
(* The command.                                                            *)

Request == [push    |-> F("files", "Put", 0),  bw      |-> F("files", "Put", 0),
            pull    |-> F("files", "Get", 0),  list    |-> F("files", "List", 0),
            ping    |-> F("control", "Ping", 0),
            metrics |-> F("control", "MetricsRequest", 0),
            shell   |-> F("terminal", "Open", 0), tunnel |-> F("tcp", "Dial", 0)]
Answer == [push |-> "Done", bw |-> "Done", pull |-> "Done", list |-> "ListResult",
           ping |-> "Pong", metrics |-> "Metrics", tunnel |-> "DialOk", shell |-> "Exit"]

ClientAck ==
  /\ at["client"] = "ack" /\ Has("client") /\ Next1("client").type = "HelloAck"
  /\ Take("client", <<>>)
  /\ GoesTo("client", "request")
  /\ UNCHANGED <<setting, news, trusted, files, shells, apps, denied>>

\* A pull creates its local file as soon as it has asked.
ClientRequest ==
  /\ at["client"] = "request"
  /\ Send("client", <<Request[cmd]>>)
  /\ GoesTo("client", CASE cmd \in {"push", "bw"} -> "upload"
                        [] cmd = "shell" -> "pipe"
                        [] OTHER -> "wait")
  /\ local' = IF cmd = "pull" THEN <<>> ELSE local
  /\ UNCHANGED <<setting, news, trusted, file, put, shells, apps, denied>>

\* The bug of sending one chunk more than the file has.
Upload_OneMore ==
  /\ at["client"] = "upload"
  /\ IF out["client"] <= Items
     THEN /\ Send("client", <<F("files", "Chunk", out["client"] + 1)>>)
          /\ out' = [out EXCEPT !["client"] = @ + 1] /\ UNCHANGED at
     ELSE /\ Send("client", <<F("files", "Done", Items)>>)
          /\ GoesTo("client", "wait") /\ UNCHANGED out
  /\ UNCHANGED <<setting, news, trusted, files, shells, got, denied>>

Upload ==
  /\ at["client"] = "upload"
  /\ IF out["client"] < Items
     THEN /\ Send("client", <<F("files", "Chunk", out["client"] + 1)>>)
          /\ out' = [out EXCEPT !["client"] = @ + 1] /\ UNCHANGED at
     ELSE /\ Send("client", <<F("files", "Done", Items)>>)
          /\ GoesTo("client", "wait") /\ UNCHANGED out
  /\ UNCHANGED <<setting, news, trusted, files, shells, got, denied>>

Waits == at["client"] = "wait" /\ Has("client")

ClientAnswer ==
  /\ Waits /\ Next1("client").type = Answer[cmd]
  /\ \/ cmd # "tunnel" /\ ClientLeaves("ok")
     \/ /\ cmd = "tunnel"
        /\ Take("client", <<>>) /\ GoesTo("client", "pipe")
        /\ UNCHANGED <<setting, news, trusted, files, shells, apps, denied>>

ClientChunk ==
  /\ Waits /\ cmd = "pull" /\ Next1("client").type = "Chunk"
  /\ Take("client", <<>>)
  /\ local' = Append(local, Next1("client").n)
  /\ UNCHANGED <<setting, news, trusted, at, file, put, shells, apps, denied>>

\* A copy decodes every frame as one of files, whatever its channel.
ClientBalks ==
  /\ Waits
  /\ \/ cmd \in Copies /\ Next1("client").kind # "files"
     \/ cmd = "tunnel" /\ Next1("client").type \in {"DialErr", "Close"}
  /\ ClientLeaves("err")

ClientSkips ==
  /\ Waits /\ cmd \notin Copies
  /\ Next1("client").kind # Request[cmd].kind \/ Next1("client").type \in {"Snapshot", "KickAnnounce"}
  /\ Take("client", <<>>)
  /\ UNCHANGED <<setting, news, trusted, at, files, shells, apps, denied>>

ClientLost ==
  /\ conn = "closed"
  /\ \/ at["client"] \in {"request", "upload"}
     \/ at["client"] \in {"ack", "wait"} /\ lane["client"] = <<>>
  /\ ClientLeaves("err")

\* The bug of a deadline for the pings only.
ClientTimeout_Pings ==
  /\ cmd = "ping" /\ at["client"] = "wait"
  /\ \/ "slow" \in faults
     \/ at["host"] = "loop" /\ lane["host"] = <<>> /\ lane["client"] = <<>>
  /\ ClientLeaves("err")

\* A probe's deadline, when the answer is slow or none will come.
ClientTimeout ==
  /\ cmd \in Probes /\ at["client"] = "wait"
  /\ \/ "slow" \in faults
     \/ at["host"] = "loop" /\ lane["host"] = <<>> /\ lane["client"] = <<>>
  /\ ClientLeaves("err")

InShell == cmd = "shell" /\ at["client"] = "pipe"

ShellTypes ==
  /\ InShell /\ out["client"] < Items
  /\ Send("client", <<F("terminal", "Input", out["client"] + 1)>>)
  /\ out' = [out EXCEPT !["client"] = @ + 1]
  /\ TurnsAway("client")
  /\ UNCHANGED <<setting, news, trusted, at, files, shell, term, termOut, got, denied>>

\* Frames of other channels are skipped; a lost connection ends it as well.
ShellTakes ==
  /\ InShell
  /\ \/ /\ Has("client") /\ Next1("client").type # "Exit"
        /\ Take("client", <<>>)
        /\ got' = IF Next1("client").type = "Output"
                  THEN [got EXCEPT !["client"] = Append(@, Next1("client").n)] ELSE got
        /\ UNCHANGED <<setting, news, trusted, at, files, shells, out, denied>>
     \/ Has("client") /\ Next1("client").type = "Exit" /\ ClientLeaves("ok")
     \/ Misreads("client") /\ ClientLeaves("left")
     \/ conn = "closed" /\ lane["client"] = <<>> /\ ClientLeaves("left")

\* The user interrupts the command; at a shell, the input ends.
Quit ==
  /\ "quit" \in faults /\ Active("client")
  /\ ClientLeaves("left")

Client == \/ ClientAck \/ ClientRequest \/ Upload \/ ClientAnswer \/ ClientChunk
          \/ ClientBalks \/ ClientSkips \/ ClientLost \/ ClientTimeout \/ ShellTakes

-----------------------------------------------------------------------------
(* A tunnel's two ends run the same code; its first direction to end ends  *)
(* both, and the connection.                                               *)

Piping(s) == cmd = "tunnel" /\ at[s] = "pipe"
PipeEnds(s, fs) ==
  /\ Leave(s, "left", fs)
  /\ UNCHANGED <<setting, news, trusted, files, shells, apps, denied>>

PumpUp(s) ==
  /\ Piping(s) /\ out[s] < Items
  /\ Send(s, <<F("tcp", "Data", out[s] + 1)>>)
  /\ out' = [out EXCEPT ![s] = @ + 1]
  /\ UNCHANGED <<setting, news, trusted, at, files, shells, got, denied>>

AppCloses(s) == Piping(s) /\ PipeEnds(s, <<F("tcp", "Close", 0)>>)

PumpDown(s) ==
  /\ Piping(s) /\ Has(s)
  /\ \/ /\ Next1(s).type # "Close"
        /\ Take(s, <<>>)
        /\ got' = IF Next1(s).type = "Data"
                  THEN [got EXCEPT ![s] = Append(@, Next1(s).n)] ELSE got
        /\ UNCHANGED <<setting, news, trusted, at, files, shells, out, denied>>
     \/ Next1(s).type = "Close" /\ PipeEnds(s, <<>>)

\* The bug of reading on after a read has failed.
PumpLost_Retries(s) ==
  /\ Piping(s) /\ conn = "closed" /\ lane[s] = <<>>
  /\ UNCHANGED vars

PumpLost(s) == Piping(s) /\ conn = "closed" /\ lane[s] = <<>> /\ PipeEnds(s, <<>>)

-----------------------------------------------------------------------------
(* The network and the host's operator.                                    *)

Cut ==
  /\ "cut" \in faults /\ conn = "open"
  /\ conn' = "closed"
  /\ \E i \in 0..Len(lane["client"]), j \in 0..Len(lane["host"]) :
       lane' = [client |-> SubSeq(lane["client"], 1, i), host |-> SubSeq(lane["host"], 1, j)]
  /\ UNCHANGED <<setting, news, trusted, at, files, shells, apps, denied>>

\* A revoke or a kick, or a join that trusts the device again.
Regrant ==
  /\ "deny" \in faults /\ Active("host")
  /\ trusted' = ~trusted
  /\ UNCHANGED <<setting, news, conn, lane, at, files, shells, apps, denied>>

Next == \/ Host \/ HostFails \/ ShellPrints \/ ShellExits
        \/ Client \/ ShellTypes \/ Quit
        \/ \E s \in Sides : PumpUp(s) \/ AppCloses(s) \/ PumpDown(s) \/ PumpLost(s)
        \/ Cut \/ Regrant

Fairness ==
  /\ WF_vars(Host) /\ WF_vars(Client)
  /\ \A s \in Sides : WF_vars(PumpDown(s) \/ PumpLost(s))

Spec == Init /\ [][Next]_vars /\ Fairness

-----------------------------------------------------------------------------
(* Properties.                                                             *)

\* A copy or bandwidth probe that reports success has left the very bytes it
\* sent, in place of a longer old file, whatever failed on the way, unless the
\* host ignored part of it (handle_session, apply_host_message, push_file,
\* pull_file).
CopyExact ==
  (at["client"] = "ok" /\ ~denied) =>
    /\ cmd \in {"push", "bw"} => file = Data
    /\ cmd = "pull" => local = file

\* The client of a shell that sees it exit has seen all it wrote: the reader's
\* queue, the session and the connection keep their order (TerminalHost::spawn,
\* handle_session, cmd_shell).
ShellOutputWhole ==
  (cmd = "shell" /\ at["client"] = "ok") => got["client"] = [i \in 1..out["host"] |-> i]

\* A probe always ends; a copy ends, and a tunnel starts or fails, unless the
\* host ignores a request it does not allow, for which they wait for ever
\* (probe.rs, push_file, pull_file, client_bridge).
CommandEnds ==
  /\ (cmd \in Probes) ~> ~Active("client")
  /\ (cmd \in Copies) ~> (~Active("client") \/ denied)
  /\ (cmd = "tunnel") ~> (~Active("client") \/ at["client"] = "pipe" \/ denied)

\* Neither side stays behind: when the command has ended the host's session ends,
\* and the other way round for whoever reads the connection (handle_session,
\* pipe_conn_stream, relay_frames).
BothEnd == \A s \in Sides : ~Active(s) ~> ~Active(Peer(s))

\* What probe.rs says of the gossip that may come first: it is not taken for a
\* message of files, so a copy fails only for a fault or for want of permission.
GossipNotDecoded ==
  (cmd \in Copies /\ at["client"] = "err") => (faults # {} \/ ~trusted)
=============================================================================
