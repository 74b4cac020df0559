# Formal models of MyMesh

MyMesh links a person's machines into a mesh: a device joins after a code
ceremony or an operator's approval, every member keeps a roster of the devices
it trusts, and any two members open sessions to each other (shell, files,
tunnels) over a direct transport. This directory models the parts of it where
processes, machines and failures meet, checks the models with TLC on small
instances and proves theorems about them for every instance with TLAPS.

| Module | What it is |
| --- | --- |
| `JoinContract` | what letting a device in promises, in three variables |
| `JoinGate` | how the agent, the CLI, the carrier and the joiner do it, one file or frame at a time; implements `JoinContract` |
| `JoinGateProofs` | theorems about `JoinGate` |
| `MeshRoster` | gossip, kicks, pending kicks and leave messages between the members' agents |
| `MeshRosterProofs` | theorems about `MeshRoster` |
| `Mailbox` | the box of one pairing code, on the HTTP server or in files |
| `PairContract` | what linking by a code promises |
| `PairCeremony` | the host's and the guests' commands over a `Mailbox`; implements `PairContract` |
| `PairCeremonyProofs` | theorems about `PairCeremony` |
| `Services` | a command and the agent it talks to: copies, lists, probes, shell, tunnel |
| `ServicesProofs` | theorems about `Services` |
| `Carrier` | the carrier servers: bootstrap tokens and arm windows, requests of phones, the posted URI |
| `CarrierProofs` | theorems about `Carrier` |
| `DeviceMap` | `devices.json` as an abstract map: what each command does to it |
| `DeviceStore` | `devices.json` as a file read, copied and renamed by several holders; implements `DeviceMap` as long as they do not overlap |
| `DeviceStoreProofs` | theorems about `DeviceStore` |
| `Dialing` | how a command finds an agent to dial for it, or binds an endpoint |
| `DialingProofs` | theorems about `Dialing` |
| `MagicPlane` | DNS, SOCKS and listeners of the magic mesh over a `DeviceMap` |
| `MagicPlaneProofs` | theorems about `MagicPlane` |
| `MeshIp` | the mesh address of a device |
| `MC...` | small instances, one module per component; one `.cfg` per run |

Check a run with `tlc -config JoinRetry.cfg MCJoinGate`, a proof with
`tlapm JoinGateProofs.tla`. `PROJECT.json` lists runs, mutants, theorems, the
source lines of every definition, and the hazards at their lines.

## 1. Inventory

Sources are under `src/crates/`. "Shared" state is in files of the data
directory that several processes read and write without locks.

**Join gate** (`mymesh-core/join.rs`, `mymesh-session/join.rs`, the decide
handler of `mymesh-session/carrier.rs`, `arm`/`requests`/`link` in
`mymesh-cli/main.rs`). State: `arm.json` (armed, deadline), `pending/<id>.json`,
`decisions/<id>.json`, `devices.json`; a task per join connection. Operations:
arm, disarm, ask, approve or deny (CLI or carrier), take the decision, store,
accept, share the roster. Hard: four kinds of process meet only in files; a task
polls, and its steps fall between others'; joiners retry; any send may fail.
Correct if nobody is trusted without an approval given while it was asking, if
neither side trusts alone, if requests stay visible and every joiner is
answered, and if one arming admits no more than was meant.

**Mesh roster** (`mymesh-session/mesh_sync.rs`, `agent.rs`,
`mymesh-core/mesh.rs`, `device.rs`, `kick`/`unlink` in `main.rs`). State per
device: `devices.json` (trusted or revoked records), `mesh.json` (mesh id),
`mesh.dirty`, `pending-kicks.json`, `leave-outbox.json`. Operations: push after
a change, validate every minute (announce and pull), deliver pending kicks,
flush the outbox; handlers for announcements, kicks, notices, leave messages;
the commands kick and unlink. Hard: everything is best effort, peers are
offline, messages are built from older states than those they meet, the agent
keeps no lock over its store, the CLI is one more writer. Correct if rosters
converge, kicks arrive and stay, others are not harmed, and trust does not reach
strangers.

**Agent loop** (`agent.rs`). One `select!` of accept and a one-second timer;
accepted connections run as tasks, rounds run inside the loop. Hard: while a
round dials, nothing is accepted; handshakes of dialers have no timeout; an
error on reading a file in the accept branch ends the agent.

**Session and services** (`session.rs`, `agent.rs`, `mymesh-files`,
`mymesh-terminal`, `tcp_tunnel.rs`, and `cp`, `ls`, `shell`, `expose`, `probe.rs` in
`mymesh-cli`). Hello and HelloAck, then one kind of traffic. State: the frames on
the connection, the point of either side, an open put, a shell and its queue.
Hard: gossip comes first, permission is asked for each frame and a refusal is
silent, either side may go at any frame, the output of a shell takes another way
than its end. Correct if what is reported as done was done, and nobody waits for
ever or stays behind.

**Carrier server** (`carrier.rs`, `carrier` in `magic_cmd.rs` and the TUI): HTTP on
the local network for the phone app. State: a token in each server's memory, in
`pair-bootstrap.json` and in the QR on a screen; `carrier-pending.txt`. Hard:
several servers in several processes, the arm window looked at twice, failed
saves. Correct if a token is good for its own window, and for all of it.

**Pairing ceremony** (`pair.rs`, `mymesh-crypto/pairing.rs`): SPAKE2 over a
rendezvous, identity offer and accept, each side stores the other. Hard: the
last message may be lost after one side stored.

**Rendezvous mailboxes** (`rendezvous.rs`, `mailbox_fs.rs`, `mailbox_http.rs`):
two lanes per code. Hard: file rewritten while appended to, waiters whose
request timed out, expiry.

**Device store** (`mymesh-core/device.rs`). State: `devices.json`, its temporary
file, and the copy in the memory of each command, task and agent that has it
open. Operations: open, upsert, revoke, remove, label, aliases, groups, search.
Hard: no lock, one temporary name for all, copies held across dials. Correct if
alone a holder loses nothing, and if names lead to one device.

**Dialling** (`local_dial.rs`, `iroh_transport.rs`, `mesh_conn.rs`). State: the
agents' endpoints and sockets. Operations: serve the socket, try the sockets one
by one, relay, bind. Hard: stale sockets, agents of other data directories, the
endpoint of an identity that exists once. Correct if a session has the identity
of its command, an agent is found if it is there, and a second endpoint is not
bound without need.

**Magic mesh** (`magic.rs`, `mesh_ip.rs`). State: the listeners and their
addresses, the ports. Operations: rounds that spawn listeners, DNS and SOCKS
answers, tunnels. Hard: every step reads `devices.json` anew, addresses of
devices may be equal, ports are taken. Correct if bytes reach the device that was
asked for while it is trusted, and if listeners come back.

**In-memory transport** (`fabric.rs`): for tests and demos.

**Everything else**: configuration, paths, metrics, word ids, TUI, installer,
firewall, probe, desktop stub. Little or no protocol state.

How they interact: the CLI and the carrier act on the agent only through files;
agents act on each other through frames over sessions; a join turns a pending
request into records on both sides and hands over the roster, after which gossip
takes it to the other members; kick and unlink take records away again. Whatever
trusts or names a device reads `devices.json`; whatever talks to one dials
through `Dialing` and speaks as in `Services`.
`PROJECT.json` lists each part with its status.

## 2. Models and their correspondence to the code

### JoinGate

Each file is a variable (`armed`, `pending`, `decision`, `trusted`), each join
connection a *session* whose host task is at a point `pc[s]` and whose joiner is
at `guest[s]`; `mail[s]` holds the frames on their way. A step is what one
process does between two points where another can run: `take_decision` is
`ReadDecision` and `RemoveTaken`, `pair_decide` is `PairCheck`, `PairWrite` and
`PairDrop`. The poll of the task (session/join.rs:291-311) has exactly the
outcomes `Poll`, `LastLook`, `TimeOut` and `PollFails`. `send_frame(..).await?`
is `SendThen`, which fails only if the joiner has left or the fault `break` is
on. `Disarm` stands for the command and for the deadline: the code only asks
`is_effectively_armed`. `window` counts armings, `spentIn` remembers the window
`is_effectively_armed`. `window` counts armings, `spentIn` remembers the window
a task stored its device in, `ticket` the sessions open at an accept, and `crossed`
those that met another one, or a late carrier request, in the files of their device
(`Sharing`): these four are history, read by no guard but the bound on armings.
`Dispatch` is the accept branch of Agent::run; a device of which the host holds a
pending kick (`Kicked`) may be handled as a kicked one instead, armed or not.

Abstracted: labels, capabilities and signatures (a request is valid, or refused
by `RefuseRequest`); the roster in the snapshot (a matter of `MeshRoster`).
`CliDecide` also stands for the key of the TUI that accepts the first pending
request, which writes the same file.

`JoinContract` has three steps: an accept gives a *ticket* to the open sessions
of one device, a session with a ticket makes its device trusted, a trusted
device may store the host. `JoinGate` implements it with the identity mapping on
`ticket`, `trusted`, `linked`; every other step stutters.

### MeshRoster

Per device: `store`, `meshId`, `kicks`, `outbox` are its files, `dirty` the
mesh.dirty mark its agent has not seen, `noticed` whether mesh.json records a
kick, `agent` the point of the round its loop is in, `cli` the point of a kick
command, and `net` is the set of messages sent and not handled. A round is

    StartPush, PushTo*  |  StartValidate, (PullFrom [ApplyPull])*
      then (StartKicks, (TrustForNotice SendNotice [EndNotice])*)
      then (StartLeaves, LeaveTo*)   then EndRound

as in `push_mesh_to_all` and `validate_mesh`, both followed by
`flush_pending_kicks` and `flush_leave_outbox`. What was read before a dial
(the announcement of a push, the list of peers, the undelivered kicks, the
records of the kick command) is carried in `agent` or `cli`, so that it can be
stale when used. The acceptor's side of a message is one step (`HandleRoster`,
`HandleKick`, `HandleNotice`, `HandleLeave`, the branches of `handle_control`): those
handlers do not wait between their reads and writes. A dial succeeds only if both sides trust each other and
the peer has no notice to deliver first (`Handshake`); it may fail otherwise
than that only with the fault `offline`, which also stands for a peer whose
loop is busy. Mesh ids are numbers, in the order of their strings; a kicked
device draws one of `FreshIds`.

A frame in `net` is on a connection and in a session task that both end with the
agent. `Crash(n)`, at any point of n's round, therefore loses every message that was
on its way to n, and any of those n had sent; what is on disk stays, the round and
the dirty mark are gone. A sender has marked its kick delivered by then and does not
learn of it. `missed` is history: the devices a notice to which was lost, by a
restart or on the network (`Lose`), or refused because it came from a device its
target did not trust.

Left out on purpose: frames an acceptor sends back, since no dialer reads them
but the pull of a validate round (kick acks among them); forced kicks and their
expiry after a day; joins (`JoinGate`). `apply_membership` is a single step
although it writes mesh.json and then devices.json.

### Mailbox and PairCeremony

`Mailbox` has the two lanes of one code. Over HTTP a step is what the server
does under its lock: a post is `Queue`, or `HandOver` to the oldest waiter; a
poll is `GetQueued` or leaves a waiter (`GetWaits`); `PollExpires` is the
timeout of get_msg, after which the waiter is still in the lane but its receiver
is gone (`None`). Over files, a poll is `Read`, which remembers the file in
`view[p]`, and later `Rewrite`. `inbox[p]` is what recv is about to return.

`PairCeremony` runs one host command and the guest commands that use its code;
`pc` is the point of run_host_pair_code or run_guest_pair each is at, `failed`
those that returned an error, `peer` whose SPAKE2 message went into a key. A key
is the pair of messages it was made from, so two commands have the same key only
if each took the other's; binders are compared by it, signatures of honest
commands are good. The host verifies and stores in one step, the guest stores
after its answer was sent. `backend` and `faults` are drawn in `Init`: the
configuration names the mailbox (`pick_mailbox`), and a behaviour either has
faults or none. Without the fault `slow`, polls and deadlines end only when
nothing else can happen, which is how "both sides are in time" is said.

`PairContract` has four steps: the host agrees with one guest, that guest
confirms, each side stores the other. `peer[Host]` is the partner, and the
guests past the check of the offer are those that confirmed.

Left out: codes themselves (a wrong code names another box), Reject, which no
command sends, and `LocalRendezvous`, which behaves as the HTTP lane without
polls.

### Services

`cmd` is the command, `lane[s]` the frames on their way to a side, `conn` whether
the connection is open, and `at[s]` the point of each side's code. The agent's
side goes through `HostAccept`, `HostHello` and `HostNews` (the roster, and a kick
it has not delivered, sent before it serves) into the loop of handle_session, one
action per message: `HostPut`, `HostChunk`, `HostDone`, `HostRead`, `HostOpen`,
`HostInput`, `HostOutput`, `HostDial`. `HostIgnores` is the frame of a kind the
peer has no permission for. The commands differ in what they do with a frame they
do not expect: a copy decodes it (`ClientBalks`), a probe passes over it
(`ClientSkips`). Only probes have a deadline (`ClientTimeout`).
Whoever lets go of the connection closes it, and of what it sent last any end may
be lost (`Leave`, `Cut`). A file is its chunks, and a put that has written none
has left the old file. Both ends of a tunnel run the same pumps.

`news` holds what the host sends first: the roster, always, unless mesh.json cannot be
loaded (`nomesh`), and a kick that is pending. A copy that succeeds is thus one from a
host without a roster to send.

`read_frame` reads a header and then the rest. Where it is a branch of a select! that
turns to something else (the session's loop when the shell prints, agent.rs:287; the
shell command when its user types, main.rs:1098, and the TUI's, term_pane.rs:301), a
read that has begun is dropped with what it has read (`TurnsAway`, with the fault
`torn`), and the side is in `torn` from then on: its next read starts inside of the
frame. A read takes the header first, so what is left is most often a payload. That of
an Output or an Input starts with its variant's number, in four bytes of which the
first is 3 or 2: as a length this is above MAX_FRAME_BYTES, and the read is an error,
which ends the session or the command (`Misreads`, `HostMisreads`). The rest of an Exit
is shorter than a header and leaves its reader waiting until the connection closes.
Where the dropped read stopped inside of the header or far inside of a long payload,
the bytes that follow are any; that they happen to make a header of a known kind and a
legal length is left out.

### Carrier

A server is a call of start_carrier: `at` is the point of its life, `mem` its
token, `call` who holds its lock and how far ensure_bootstrap_locked or
require_bootstrap is, `shown` the token in the QR it prints; `file` is
`pair-bootstrap.json`. Windows are counted, and `minted[t]` is the window of a
token: the code compares the deadlines of windows, which are different instants.
A token is read as saved from `file` only if its window is the open one (`Keep`),
is minted otherwise (`Mint`), and its saving may fail (`Persist`). A request reads
the window, compares the token, and reads the window again (`Auth`, `Match`,
`Recheck`), and the operator arms and disarms between. `post` is
`carrier-pending.txt` with whoever polls it. `seen` and `mixed` are history.

### DeviceMap and DeviceStore

`DeviceMap` is what the commands promise: `Permitted(c, m)` says which are
accepted, `Result(c, m)` what becomes of the map, and `Resolves` is the search by
label or alias. `DeviceStore` takes the file apart: `inode` has the
contents, `path` and `tmp` what `devices.json` and `devices.json.tmp` name, and a
holder `Open`s (reads), changes its copy, `Create`s the temporary file (which
empties the one another holder may be writing), writes and renames. After the
rename a holder still has its copy and may change it again. `shared` is history:
two holders had the store open at once.

### Dialing

`agent[a]` is how far `mymesh serve` has come, `file[p]` whose listener a socket
path leads to (`Stale` if nobody's). A command has the paths of its candidates in
`left`, asks the agent behind the first (`Asks`), which dials under its own
identity (`AgentDials`), and greets with the command's own: the peer compares the
two (`Greets`, session.rs:102). `Reaches` says that the network knows one
endpoint of an identity: with two, a dial may fail. `steady` and `met` are
history.

### MagicPlane and MeshIp

The map of names is built anew at each question from `devices.json` (`NameMaps`,
where the last of two devices of one name wins, in an order left open). `tasks` are
the listeners, `active` the addresses that have one, `todo` the rest of a round of
run_auto_forwards. A program asks by DNS and connects to the address later, or
asks by SOCKS; open_tunnel then looks at the device's trust again. `store` changes
by the commands of `DeviceMap`. `MeshIp` computes the address, and the instance
has two devices whose ids really give the same one.

## 3. Properties and runs

Every property of a passing run has a mutant in `PROJECT.json`: a plausible bug
(a dropped guard, a swapped order, a mark set too early), defined beside the
definition it replaces, under which the run fails.

| Run | Instance | Shows |
| --- | --- | --- |
| `join_races` | 1 device with 2 sessions, 1 carrier request, 2 armings, all faults (2 million states) | `TypeOK`, `OnlyApproved`, `LinkedBothSides`, `WindowSpent`, `RequestShown`, `OneSidedByRepeat`, and that the gate implements `JoinContract` |
| `join_retry` | 1 device with 2 sessions, 2 armings, all faults, fair | `Answered`, `AcceptCompletes` |
| `roster_converges` | 3 devices of a star with 3 mesh ids, offline peers, fair | `GossipConverges` |
| `roster_outsider` | 2 members and a device one of them unlinked, a kick and an unlink, 2 messages in flight, all faults (640 thousand states) | `Vouched`, `DeliveredWasSent` |
| `kick` | full mesh of 3, one kick, all faults, fair | `TypeOK`, `KickSparesOthers`, `KickDelivered` |
| `pair_code` | a host, 2 guest commands of 2 devices, both mailboxes, all faults or none, fair | `TypeOK`, `MutualKey`, the contract, `PairEnds`, `PairCompletes` |
| `services` | each command, 2 chunks or lines, no fault or any single one, each with and without a roster to send, fair | `TypeOK`, `CopyExact`, `ShellOutputWhole`, `CommandEnds`, `BothEnd` |
| `carrier` | 2 servers, 1 request, 2 windows, failed saves, crashes | `TypeOK`, `ServedInWindow`, `ShownAccepted`, `RestartKeepsQr` |
| `device_store` | 2 holders, 2 devices, 1 name, 3 changes, 4 inodes, crashes, full disks | `TypeOK`, `AliasFound`, `TornOnlyByOverlap`, `ImplementsMap` |
| `dialing` | 3 agents of 2 identities on 2 paths, 2 commands | `TypeOK`, `IdentityKept`, `Reachable`, `NoNeedlessBind` |
| `magic` | 2 devices of one address and this one, 1 name, 2 changes, 1 fault, fair | `TypeOK`, `TunnelReaches`, `Forwarded` |

One run ends in a violation. `cp_reads_gossip`: probe.rs says that gossip may come
before the answer and passes over it, but `mymesh cp` takes it for a message of
files, so a copy from an agent that has a roster to share fails with nothing wrong
(`findings` in `PROJECT.json` quotes both).

More disagreements between the code and its texts were met and have no run. Some are
stated by a definition whose comment says that it does not hold:

| Definition | Text | What happens |
| --- | --- | --- |
| `JoinGate!ArmingTurnsOff` | JOIN.md:23, arming turns off after an accept | the connection breaks while the accept is sent: device stored, host still armed |
| `MeshRoster!LeaveTold` | JOIN.md:130, all known peers are told | the outbox is emptied without a message, the peers being untrusted by then |
| `MeshRoster!UnlinkHolds` | ARCHITECTURE.md:44, a code is needed after unlink | another member's roster makes the record trusted again |
| `PairCeremony!PostedArrives` | M1-M3.md:31, GET is a long poll for the next message | a guest later than the host's first poll of 5 s posts to the waiter that poll left behind; its message is gone and both commands time out |

Others are visible in a model only as steps it takes:

- With two sessions of one device (a repeated command) the first session's task may
  take the accept when nobody waits for it any more, and the second is told no,
  although JOIN.md:24 says both machines store a record: the host trusts the device,
  and the device has not stored the host. `OneSidedByRepeat` says that this is the
  only way to it.
- When two joins of one device overlap, the timeout of the first removes the pending
  file of the second, which waits unseen; so does a carrier request that decided the
  first and is late to drop the file (`RequestShown` leaves out just these, `crossed`).
- A kick notice whose dial fails leaves the target trusted on the member that tried,
  although agent.rs:817 says the trust is for the handshake only.
- mesh.rs:96 calls the mark of a kick "Target has received KickNotice"; it is set when
  the notice was sent. A connection that breaks, or a restart of the target, loses it,
  and nobody tries again: `MeshRoster!DeliveredReceived` does not hold.
- A merge that comes late brings a kicked device back on a member that dropped it, or
  fills the cleared roster of a kicked device again.
- Two carrier requests that both passed the pending check overwrite each other's
  decision.
- What the host appends to a file mailbox while the guest is between its read and its
  rewrite disappears, even without a fault.
- local_dial.rs:3-6 wants one endpoint of an identity, but a command binds a second one
  whenever the agent's dial fails, so also when the peer is off.
- An agent of another identity that starts later on the same socket path takes it from
  the first, whose commands then fail: they dial as that agent and greet as themselves.
- mesh_ip.rs:5 calls the address unique; two devices may share one, and then the
  listener of the first stays and leads to it even after it is unlinked (the tunnel is
  refused), while the other has none, which `Forwarded` has to except (`Held`). A device whose only name another one got has
  none either.

**Bounds and why they are enough.** Files are named by device, so two sessions meet only
if they are of one device, and two are what it takes for a stale decision, a stolen
decision, a repeated join and an overlap. What several devices share is arm.json; that
the properties hold for any number of devices is proved. One carrier request at a time
meets the operator's command, which writes the same files. `MaxArms` 2 gives an arming
after the one that was spent.
Three devices give a kicker, a target and a bystander, or two leaves of a star
that must learn of each other through the third. `MaxFlight` (messages in
flight, through the guard `Room`) is 1 in the other runs and 2 in
`roster_outsider`, where a stale message may overtake another. `Timers` in `kick` leaves
the validate timer to the kicker, whose rounds the delivery depends on. `Orders` are the commands given, each at most once.

`pair_code` needs two guests, so that one can take what was meant for the other;
`MaxWaiters` 2 is a stale waiter before a live one. No other counter is
unbounded: each command sends at most two messages.

In `services`, two `Items` are a first and a last chunk or line, and the old file is
longer than the new one by a chunk, so that a part of it left behind shows. One fault
kind at a time, but as often as it likes. In `carrier`, two servers are one that is
shown and one that interferes or comes after; a second window is what a token may
outlive. In `device_store`, two holders overlap in every order, and three changes
are one of each and one more on a copy that is old; four inodes are as many as two names
and two open files can keep. `Dialing` has no counter: two agents of one
identity and one of another that shares a path, and two commands that take each
other's endpoint, give every rivalry. In `magic`, `MaxChanges` 2 lets a name move from
one device to another between a question and its use; one fault is a port taken or
given back, or a listener that ends.

**Deadlock.** Checked in all runs but four. An operator can always act on the join
gate, an agent with a validate timer always has a next round, the ceremony may
stop only when all its commands have ended (`Ended`), and agents, commands and rounds
of `dialing` and `magic` always can go on. `services` and `cp_reads_gossip` stop when
the command has ended, `carrier` when requests, windows and servers are used up,
`device_store` when `MaxChanges` and crashes are.

**Fairness.** `JoinGate!Fairness` is weak fairness of `Dispatch`, `Task`,
`TimeOut` and `Guest`: the runtime polls every ready task, the poll loop has a
deadline, and a joiner that runs reads its connection. Nothing is assumed of
operators, phones, new joiners or of errors. In `MeshRoster`, `RoundsTurn` and
`SessionsHandle` are weak fairness of each agent's round and of its sessions'
handlers, since the loop never stops and its timer recurs, and each message has a
session task of its own. `PullsSucceed` and `NoticesSucceed` are strong
fairness of the *successful* dial: a peer that could be reached again and again
is reached in the end, the least that convergence between machines that are off
at times can ask. `RoundsGoOn` is strong fairness of rounds, needed only because
the bound `Room` disables them now and then. `RestartsEnd` says that agents are
not restarted for ever: one killed in each round never gets to a dial.
`GossipSpec` takes `RoundsTurn`, `SessionsHandle` and `PullsSucceed`, `KickSpec`
`RoundsGoOn`, `SessionsHandle`, `NoticesSucceed` and `RestartsEnd`.

`PairCeremony!Fairness` is weak fairness of what a started command does next and
of the end of a poll (the server's timeout), and strong fairness of `Deadline`,
which recv looks at between polls: time goes on, so a recv that polls for ever
finds it passed. Starting a command is not fair.

`Services!Fairness` is weak fairness of the session's loop, of the command, and of the
receiving pump of either end of a tunnel: tasks the runtime polls. Nothing is assumed of
the shell, the user, the applications at a tunnel or the network. `MagicPlane!Fairness`
is weak fairness of the rounds, of what a round does with each device, and of the
listeners' tasks; ports and programs are free. `Carrier`, `DeviceStore` and `Dialing`
state no liveness: their servers and commands may be killed at any step.

## 4. Proofs

All theorems hold for every set of devices, sessions, requests, messages in
flight, commands and faults, servers, windows, agents and programs, from the
assumptions named in the modules
(`JoinGateAssumption`: each session has one device at its end;
`MeshRosterAssumption`: the shape of the initial rosters, and that `Circle` is
closed under the links of joining; `PairAssumption`, `NoneAssumption`: the host
command is not a guest command, and `None` is neither a command nor a message;
`ServicesAssumption`: the commands and faults are those of the module, and the
length of a file is a number; `CarrierAssumption`, `StoreAssumption`: bounds are
numbers and marks are not requests or files; `DialingAssumption`, `MagicAssumption`:
kinds of constants are disjoint, each agent and command has a path and an identity, each device an
address, which others may have too). No theorem has a condition besides these.

| Theorem | States | Along |
| --- | --- | --- |
| `JoinGateProofs!TypeCorrect` | `[]TypeOK` | inductive as it stands |
| `OnlyApprovedHolds` | `[]OnlyApproved` | `Approval`: every accept that lies in a decision file covers all open sessions of its device. A later session is safe because it removes old decisions before it can take one, and a decision written afterwards gives it a ticket. |
| `LinkedBothSidesHolds` | `[]LinkedBothSides` | `Storage`: a task at or past `stored`, and every accept or snapshot in the mail, belongs to a trusted device |
| `WindowSpentHolds` | `[]WindowSpent` | `Windows`: no window used so far is later than the current one |
| `ImplementsContractHolds` | `Spec => ImplementsContract` | `TypeOK`, `Approval` and `Storage` make each step a contract step or a stutter |
| `RequestShownHolds` | `[]RequestShown` | `Shown`: of the tasks that share the files of a device all but one have crossed; the pending file of one that has not is there until its device is decided, and a carrier request that has yet to drop it has decided it |
| `OneSidedByRepeatHolds` | `[]OneSidedByRepeat` | `Refusals`: a denial is in the mail, or was read, only of a task that has ended without storing its device; `Backed`: every trusted device was stored for some session of it, hence another one; `Answers`: whose command got further than being dialled has stored the host, so that session's was gone |
| `MeshRosterProofs!TypeCorrect` | `[]TypeOK` | with `Shape`: what an agent carries at each point of a round is a message of the right kind, and a running command has a target |
| `VouchedHolds` | `[]Vouched` | `RosterInv`: besides the stores, every pending kick, every roster and kick in flight, every snapshot or announcement an agent carries, and the records a kick command will write back name only devices in their holder's circle. A message is merged only when its sender is trusted, hence in the receiver's circle, and circles are closed. |
| `KickSparesOthersHolds` | `[]KickSparesOthers` | `Ordered`: every pending kick, notice, kick message and goodbye, wherever it is kept or on its way, goes back to a command that was given, and only who had its notice says goodbye. With it `Sparing`: a device keeps the trust it began with in one no command is about, in its file and in the copy a running kick will write back, unless it had its own notice |
| `DeliveredWasSentHolds` | `[]DeliveredWasSent` | `Delivery`: not only the pending kicks on disk but those a kick command carries, and the notice an agent is about to book, are marked only for targets a notice went out to (`Reached`). A target once reached stays so: a notice leaves the network only in being had, lost or refused |
| `PairCeremonyProofs!TypeCorrect` | `[]TypeOK` | with `PairInv` |
| `MutualKeyHolds` | `[]MutualKey` | `PairInv`: every message queued, read or about to be returned is truthful (`Honest`): an offer carries the host's key and an answer that of a guest past its check; waiters wait in the lane they read (`WaitersOK`); the keys held at each point are those of the ceremony (`Keys`). Each mailbox action is shown to invent and redirect no message (`NothingNew`), whatever it loses or repeats. |
| `ImplementsContractHolds` | `Spec => ImplementsContract` | `PairInv` makes each step a contract step or a stutter |
| `ServicesProofs!ServicesTypeCorrect` | `[]TypeOK` | `TypeInv`: frames on their way carry numbers of the file or the shell, and what the host has written is no longer than that |
| `ShellOutputWholeHolds` | `[]ShellOutputWhole` | `ShellInv`: `Flow`, what is still to reach the client, in the reader's queue and on the connection, is a `Stream`: a few frames that are not the shell's, then its lines from the one after the last shown on, each once, then its exit; a loss takes away only from its end. `Asks`: at most one Open is ever on its way, so there is one shell; `Sitting`, `Told`: where the two sides are meanwhile |
| `CopyExactHolds` | `[]CopyExact` | `CopyInv`: there is a number p such that the host took the first p frames the client sent and the rest of them is, in order, on its way (`Segment`); the host's file is the chunks among those p (`Pushing`), and for a pull the client's file and what is on its way make up the host's (`Pulling`). Done is only ever repeated by a host that took all of it |
| `CarrierProofs!CarrierTypeCorrect` | `[]TypeOK` | part of `CarrierInv` |
| `ServedInWindowHolds` | `[]ServedInWindow` | `Locks`: one caller at a time has a server's token; `MemOfWin`, `Held`: the token that is compared is of the window that was read; `Seen`, `Current`: that window was open while the request was under way |
| `ShownAcceptedHolds` | `[]ShownAccepted` | `Screen`: a server replaces the token it shows only after reading another window, and a window that is over is never open again (`Closed`) |
| `RestartKeepsQrHolds` | `[]RestartKeepsQr` | `RestartInv`: the open window is the last one (`Newest`), a server holds no token before it has looked for one (`Unminted`), and every token belongs to a window (`Issued`). Until servers meet or a save fails, a token that is shown is the saved one as long as another can still be saved for its window (`Showing`); so is one about to be shown (`Ready`); and a caller about to remove or replace the saved token takes none of an open window (`Holding`) |
| `DeviceStoreProofs!StoreTypeCorrect` | `[]TypeOK` | with `Files`: who writes which file |
| `AliasFoundHolds` | `[]AliasFound` | `Uniques`: aliases are unique in every file and every copy, not only in the published one; each command keeps them so |
| `TornOnlyByOverlapHolds` | `[]TornOnlyByOverlap` | `Alone`: a holder by itself writes an empty file and renames only a whole one |
| `ImplementsMapHolds` | `Spec => ImplementsMap` | `Latest`: the copy of a holder by itself is the published map, with one command applied |
| `DialingProofs!DialingTypeCorrect` | `[]TypeOK` | inductive |
| `IdentityKeptHolds` | `[]IdentityKept` | inductive with `TypeOK`: whatever happens to the agents, the peer's comparison decides |
| `ReachableHolds` | `[]Reachable` | `Behind`: a listener has the path of its agent; `Alone`: who has met nobody has no rival, and finds its path free between removing the old socket and listening |
| `NoNeedlessBindHolds` | `Spec => NoNeedlessBind` | `Searching`: an agent that was ready all along is still ahead in the list, or is the one being asked, and the dial of one that is ready does not fail; `Own`: who dials itself has bound |
| `MagicPlaneProofs!TunnelReachesHolds` | `[]TunnelReaches` | `Made`: a listener has the address of its device; `Led`: where a program is led fitted its question; `Found`: a device that is dialled was trusted when looked up |
| `PlaneTypeCorrect` | `[]TypeOK` | `Single`: no two listeners have one address, so one that fails takes only its own off the list of active addresses |

`Vouched` alone is not inductive: a roster in flight could name anyone. The
strengthenings say what each copy of a trust relation outside devices.json may
contain. In the same way `AliasFound` has to be known of every copy of the map, and
`ShownAccepted` of every point a server's lock is held at.

Only model-checked: liveness (`Answered`, `AcceptCompletes`, `GossipConverges`,
`KickDelivered`, `PairEnds`, `PairCompletes`, `CommandEnds`, `BothEnd`, `Forwarded`),
which TLAPS does not handle under fairness, and the one property that fails,
`GossipNotDecoded`. Every other property of a run is a theorem.

## 5. What is not modelled, and what may come next

- The agent's loop as such: that it accepts nothing while it dials is visible only as
  failed dials, that a steady stream of connections may keep its timer from firing, and
  that a torn arm.json ends it, are not. A model would need the frames of both agents'
  handshakes as steps of their loops. Nor is the loss of a connection that was half
  accepted when the select took another branch, other than as an offline peer.
- Forced kicks and the day after which a pending kick ends: no model has a clock.
- That a kick stays (late merges undo it), that rosters converge although agents are
  restarted (`roster_converges` has them run on), and that a tunnel delivers what was on
  its way when it ends: the first does not hold, the second was not tried, the third is
  not promised.
- Cryptography, taken as unforgeable; versions, nonces and labels of the handshake; word
  ids and codes; the bytes and length bounds of frames; the path sandbox.
- Sockets of other users, which refuse everyone; prefixes as names; the order of the list
  that name_map runs through, which is left open.
- Screens, panes and key bindings of the TUI, installer, firewall, metrics: no state that
  others depend on. The keys that act (accept, kick, unlink, arm, carrier) do what the
  commands do, which are modelled.

Next: the agent's loop, with the frames of both agents' handshakes.
