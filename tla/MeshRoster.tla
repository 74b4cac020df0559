----------------------------- MODULE MeshRoster -----------------------------
(***************************************************************************)
(* How the members of a mesh keep their rosters (devices.json) together:   *)
(* gossip between agents, the operator's kick, pending kicks and leave     *)
(* acknowledgements.                                                       *)
(*                                                                         *)
(* On every device runs an agent whose loop either accepts a connection or *)
(* is in a round: pushing the roster after a change, or validating it      *)
(* every 60 s.  Sessions that were accepted run beside it, and so does the *)
(* CLI's kick, a process of its own.  A message is in flight from its send *)
(* until the acceptor's session handles it.  Frames an acceptor sends back *)
(* are read by no dialer but the pull of a validate round, so the others   *)
(* (kick announcements, notices and acks sent that way) are left out.      *)
(***************************************************************************)
EXTENDS Naturals, FiniteSets

CONSTANTS Devices,
          None,       \* no device, no message
          InitStore,  \* the records every device starts with
          InitId,     \* and its mesh id
          FreshIds,   \* ids MeshState::new_mesh may draw after a kick
          Circle,     \* who is reachable over the links made by joining
          Orders,     \* the operators' commands, each given at most once
          Timers,     \* bound: devices whose validate timer fires
          MaxFlight,  \* bound on the messages in flight
          Faults      \* faults that may happen, see FaultKinds

FaultKinds ==
  { "offline",  \* a dial fails that the peer would accept: it is down, or
                \* its loop, busy with a round of its own, does not accept
    "loss",     \* a frame or a reply never arrives
    "crash",    \* an agent stops and is started again
    "quit" }    \* the operator interrupts a kick

TrustState == {"none", "trusted", "revoked"}

Stores == [Devices -> TrustState]

Order == [cmd : {"kick", "unlink"}, by : Devices, target : Devices]

ASSUME MeshRosterAssumption ==
  /\ None \notin Devices
  /\ InitStore \in [Devices -> Stores]
  /\ Circle \in [Devices -> SUBSET Devices]
  /\ \A d \in Devices : d \in Circle[d] /\ InitStore[d][d] = "none"
  /\ \A d, e \in Devices :
       InitStore[d][e] = "trusted" \/ e \in Circle[d] => Circle[e] \subseteq Circle[d]
  /\ InitId \in [Devices -> Nat]
  /\ FreshIds \subseteq Nat
  /\ Orders \subseteq {o \in Order : o.by # o.target}
  /\ Timers \subseteq Devices
  /\ MaxFlight \in Nat
  /\ Faults \subseteq FaultKinds

VARIABLES store,    \* devices.json of every device
          meshId,   \* mesh.json: the mesh id (ordered as its string is)
          noticed,  \* devices whose mesh.json has a last_kick_notice
          dirty,    \* devices whose agent has not seen the last mesh.dirty
          kicks,    \* pending-kicks.json, keyed by target
          outbox,   \* leave-outbox.json: peers to tell of leaving
          agent,    \* the round an agent is in
          cli,      \* the kick command in progress on a device
          net,      \* messages in flight
          orders,   \* commands not given yet
          missed    \* history: devices a notice to which was lost or refused

disk == <<store, meshId, noticed, kicks, outbox>>
vars == <<disk, dirty, agent, cli, net, orders, missed>>

PendingKick == [target : Devices, by : Devices, expected : SUBSET Devices,
                acks : SUBSET Devices, delivered : BOOLEAN]

Pending(target, by, expected, acks, delivered) ==
  [target |-> target, by |-> by, expected |-> expected, acks |-> acks,
   delivered |-> delivered]

RosterMessage ==
  [kind : {"roster"}, from : Devices, to : Devices, id : Nat, members : SUBSET Devices]

KickMessage ==
  [kind : {"kick"}, from : Devices, to : Devices, target : Devices,
   expected : SUBSET Devices]

NoticeMessage == [kind : {"notice"}, from : Devices, to : Devices, by : Devices]

LeaveMessage == [kind : {"leave"}, from : Devices, to : Devices]

Message == RosterMessage \cup KickMessage \cup NoticeMessage \cup LeaveMessage

AgentState ==
  [at : {"idle", "push", "validate", "pull", "kicks", "dial", "sent", "leaves"},
   round : {"none", "push", "validate"},
   left : SUBSET Devices,           \* peers still to be dialled
   todo : SUBSET PendingKick,       \* kicks still to be delivered
   keep : SUBSET Devices,           \* peers that stay in the outbox
   msg : Message \cup {None}]       \* what is being sent or has been received

\* The points of a round, each with what the agent keeps there.
Phase(at, round, left, todo, keep, msg) ==
  [at |-> at, round |-> round, left |-> left, todo |-> todo, keep |-> keep, msg |-> msg]

Idle == Phase("idle", "none", {}, {}, {}, None)
Pushing(left, m) == Phase("push", "push", left, {}, {}, m)
Validating(left) == Phase("validate", "validate", left, {}, {}, None)
Pulling(left, m) == Phase("pull", "validate", left, {}, {}, m)
Kicking(round, todo) == Phase("kicks", round, {}, todo, {}, None)
Dialling(round, todo, m) == Phase("dial", round, {}, todo, {}, m)
Sent(round, todo, m) == Phase("sent", round, {}, todo, {}, m)
Leaving(round, left, keep) == Phase("leaves", round, left, {}, keep, None)

CliState ==
  [at : {"idle", "notify", "announce"}, target : Devices \cup {None},
   left : SUBSET Devices, expected : SUBSET Devices,
   store : Stores,                  \* devices.json as read at the start
   kicks : SUBSET PendingKick]      \* pending-kicks.json as read and extended

NoStore == [d \in Devices |-> "none"]

Command(at, target, left, expected, st, ks) ==
  [at |-> at, target |-> target, left |-> left, expected |-> expected,
   store |-> st, kicks |-> ks]

NoKick == Command("idle", None, {}, {}, NoStore, {})

TypeOK ==
  /\ store \in [Devices -> Stores]
  /\ meshId \in [Devices -> Nat]
  /\ noticed \subseteq Devices
  /\ dirty \subseteq Devices
  /\ kicks \in [Devices -> SUBSET PendingKick]
  /\ outbox \in [Devices -> SUBSET Devices]
  /\ agent \in [Devices -> AgentState]
  /\ cli \in [Devices -> CliState]
  /\ net \subseteq Message
  /\ orders \subseteq Orders
  /\ missed \subseteq Devices

Init ==
  /\ store = InitStore
  /\ meshId = InitId
  /\ noticed = {} /\ dirty = {} /\ net = {} /\ missed = {}
  /\ kicks = [d \in Devices |-> {}]
  /\ outbox = [d \in Devices |-> {}]
  /\ agent = [d \in Devices |-> Idle]
  /\ cli = [d \in Devices |-> NoKick]
  /\ orders = Orders

-----------------------------------------------------------------------------
(* Records, rosters and sessions.                                          *)

\* Mutant: any record counts, a revoked one too.
IsTrusted_AnyRecord(n, d) == store[n][d] # "none"

IsTrusted(n, d) == store[n][d] = "trusted"

TrustedOf(n) == {d \in Devices : IsTrusted(n, d)}

Upsert(ks, k) == {x \in ks : x.target # k.target} \cup {k}

MarkDelivered(ks, t) ==
  {IF x.target = t THEN Pending(t, x.by, x.expected, x.acks, TRUE) ELSE x : x \in ks}

AddAcks(ks, t, who) ==
  {IF x.target = t THEN Pending(t, x.by, x.expected, x.acks \cup who, x.delivered)
   ELSE x : x \in ks}

GcCompleted(ks) == {x \in ks : ~(x.delivered /\ x.expected \subseteq x.acks)}

RosterMsg(n, p, id, members) ==
  [kind |-> "roster", from |-> n, to |-> p, id |-> id, members |-> members]

\* build_announce and build_snapshot: the device itself and whom it trusts.
Roster(n, p) == RosterMsg(n, p, meshId[n], TrustedOf(n) \cup {n})

NoticeMsg(n, p, by) == [kind |-> "notice", from |-> n, to |-> p, by |-> by]

\* p would answer n with the notice of a kick, where n expects a HelloAck.
NoticeFirst(p, n) == \E k \in kicks[p] : k.target = n /\ ~k.delivered

\* Each side trusts the other, and the peer has no kick to deliver.
Handshake(n, p) == IsTrusted(n, p) /\ IsTrusted(p, n) /\ ~NoticeFirst(p, n)

DialMayFail(n, p) == "offline" \in Faults \/ ~Handshake(n, p)

Send(m) == net' = net \cup {m}

\* Whom the notices among some messages are for.
Notices(ms) == {m.to : m \in {x \in ms : x.kind = "notice"}}

\* Messages that were sent but will not be handled.
Drop(cut) == net' = net \ cut /\ missed' = missed \cup Notices(cut)

\* The bound on messages in flight: nobody dials while it is reached.
Room == Cardinality(net) < MaxFlight

\* Mutant: the other mesh id is not adopted.
ApplyMembership_KeepsId(n, m) ==
  LET named == m.members \ {n}
  IN  /\ store' = [store EXCEPT ![n] =
                     [d \in Devices |-> IF d \in named THEN "trusted" ELSE @[d]]]
      /\ dirty' = IF named \subseteq TrustedOf(n) THEN dirty ELSE dirty \cup {n}
      /\ UNCHANGED meshId

\* apply_membership: everyone named becomes trusted, whatever the record said.
ApplyMembership(n, m) ==
  LET named == m.members \ {n}
  IN  /\ store' = [store EXCEPT ![n] =
                     [d \in Devices |-> IF d \in named THEN "trusted" ELSE @[d]]]
      /\ meshId' = [meshId EXCEPT ![n] = IF m.id < @ THEN m.id ELSE @]
      /\ dirty' = IF named \subseteq TrustedOf(n) THEN dirty ELSE dirty \cup {n}

\* Mutant: the key goes away with the record.
Remove_DropsKey(n, d) ==
  store' = [store EXCEPT ![n] = [e \in Devices \ {d} |-> store[n][e]]]

\* apply_kick_target, DeviceStore::remove
Remove(n, d) == store' = [store EXCEPT ![n][d] = "none"]

\* apply_kick_notice_local: n forgets whom it trusts and starts a mesh of its own.
ApplyKickNotice(n) ==
  /\ store' = [store EXCEPT ![n] =
                 [d \in Devices |-> IF @[d] = "trusted" THEN "none" ELSE @[d]]]
  /\ \E id \in FreshIds : meshId' = [meshId EXCEPT ![n] = id]
  /\ noticed' = noticed \cup {n}

-----------------------------------------------------------------------------
(* The agent's rounds.                                                     *)

StartPush(n) ==
  /\ agent[n].at = "idle" /\ n \in dirty
  /\ dirty' = dirty \ {n}
  /\ agent' = [agent EXCEPT ![n] = Pushing(TrustedOf(n), Roster(n, n))]
  /\ UNCHANGED <<disk, cli, net, orders, missed>>

StartValidate(n) ==
  /\ n \in Timers
  /\ agent[n].at = "idle"
  /\ agent' = [agent EXCEPT ![n] = Validating(TrustedOf(n))]
  /\ UNCHANGED <<disk, dirty, cli, net, orders, missed>>

\* dial_send of the announcement that was built when the round started.
PushTo(n, p) ==
  LET m == agent[n].msg
  IN  /\ Room /\ agent[n].at = "push" /\ p \in agent[n].left
      /\ agent' = [agent EXCEPT ![n] = Pushing(agent[n].left \ {p}, m)]
      /\ \/ Handshake(n, p) /\ Send(RosterMsg(n, p, m.id, m.members))
         \/ DialMayFail(n, p) /\ UNCHANGED net
      /\ UNCHANGED <<disk, dirty, cli, orders, missed>>

\* dial_request_membership: announce, and wait for the peer's snapshot.
PullFrom(n, p) ==
  LET left == agent[n].left \ {p}
  IN  /\ Room /\ agent[n].at = "validate" /\ p \in agent[n].left
      /\ \/ /\ Handshake(n, p) /\ Send(Roster(n, p))
            /\ agent' = [agent EXCEPT ![n] = Pulling(left, Roster(p, n))]
         \/ /\ DialMayFail(n, p) /\ UNCHANGED net
            /\ agent' = [agent EXCEPT ![n] = Validating(left)]
      /\ UNCHANGED <<disk, dirty, cli, orders, missed>>

\* The snapshot that came is merged without another look at the trust.
ApplyPull(n) ==
  /\ agent[n].at = "pull"
  /\ ApplyMembership(n, agent[n].msg)
  /\ agent' = [agent EXCEPT ![n] = Validating(agent[n].left)]
  /\ UNCHANGED <<noticed, kicks, outbox, cli, net, orders, missed>>

\* Three seconds pass without the snapshot, or the peer is restarted.
LosePull(n) ==
  /\ Faults \cap {"loss", "crash"} # {}
  /\ agent[n].at = "pull"
  /\ agent' = [agent EXCEPT ![n] = Validating(agent[n].left)]
  /\ UNCHANGED <<disk, dirty, cli, net, orders, missed>>

\* Mutant: targets are looked for among the trusted devices.
Undelivered_Trusted(n) == {k \in kicks[n] : ~k.delivered /\ k.target \in TrustedOf(n)}

Undelivered(n) == {k \in kicks[n] : ~k.delivered}

Dialled(n) == agent[n].at \in {"push", "validate"} /\ agent[n].left = {}

\* Both rounds go on with flush_pending_kicks, if there is something to do ...
StartKicks(n) ==
  /\ Dialled(n) /\ Undelivered(n) # {}
  /\ agent' = [agent EXCEPT ![n] = Kicking(agent[n].round, Undelivered(n))]
  /\ UNCHANGED <<disk, dirty, cli, net, orders, missed>>

\* dial_kick_notice trusts an unknown target for the time of the handshake.
TrustForNotice(n, k) ==
  LET t == k.target
  IN  /\ agent[n].at = "kicks" /\ k \in agent[n].todo
      /\ store' = IF store[n][t] = "none" /\ \E x \in kicks[n] : x.target = t
                  THEN [store EXCEPT ![n][t] = "trusted"]
                  ELSE store
      /\ agent' = [agent EXCEPT ![n] =
                     Dialling(agent[n].round, agent[n].todo \ {k}, NoticeMsg(n, t, k.by))]
      /\ UNCHANGED <<meshId, noticed, kicks, outbox, dirty, cli, net, orders, missed>>

SendNotice(n) ==
  LET a == agent[n]
  IN  /\ Room /\ a.at = "dial"
      /\ \/ /\ Handshake(n, a.msg.to) /\ Send(a.msg)
            /\ agent' = [agent EXCEPT ![n] = Sent(a.round, a.todo, a.msg)]
         \/ /\ DialMayFail(n, a.msg.to) /\ UNCHANGED net
            /\ agent' = [agent EXCEPT ![n] = Kicking(a.round, a.todo)]
      /\ UNCHANGED <<disk, dirty, cli, orders, missed>>

\* The target is removed again and the kick marked delivered.
EndNotice(n) ==
  /\ agent[n].at = "sent"
  /\ Remove(n, agent[n].msg.to)
  /\ kicks' = [kicks EXCEPT ![n] = MarkDelivered(@, agent[n].msg.to)]
  /\ agent' = [agent EXCEPT ![n] = Kicking(agent[n].round, agent[n].todo)]
  /\ UNCHANGED <<meshId, noticed, outbox, dirty, cli, net, orders, missed>>

KicksTried(n) ==
  \/ agent[n].at = "kicks" /\ agent[n].todo = {}
  \/ Dialled(n) /\ Undelivered(n) = {}

\* ... and with flush_leave_outbox.
StartLeaves(n) ==
  /\ KicksTried(n) /\ outbox[n] # {}
  /\ agent' = [agent EXCEPT ![n] = Leaving(agent[n].round, outbox[n], {})]
  /\ UNCHANGED <<disk, dirty, cli, net, orders, missed>>

\* dial_send returns Ok without sending when the peer is not trusted.
LeaveTo(n, p) ==
  LET a == agent[n]
      left == a.left \ {p}
  IN  /\ Room /\ a.at = "leaves" /\ p \in a.left
      /\ \/ /\ ~IsTrusted(n, p) /\ UNCHANGED net
            /\ agent' = [agent EXCEPT ![n] = Leaving(a.round, left, a.keep)]
         \/ /\ Handshake(n, p) /\ Send([kind |-> "leave", from |-> n, to |-> p])
            /\ agent' = [agent EXCEPT ![n] = Leaving(a.round, left, a.keep)]
         \/ /\ IsTrusted(n, p) /\ DialMayFail(n, p) /\ UNCHANGED net
            /\ agent' = [agent EXCEPT ![n] = Leaving(a.round, left, a.keep \cup {p})]
      /\ UNCHANGED <<disk, dirty, cli, orders, missed>>

\* The outbox, if there was one, is replaced by what could not be sent, and
\* a validate round drops completed kicks.
EndRound(n) ==
  /\ \/ /\ KicksTried(n) /\ outbox[n] = {}
        /\ UNCHANGED outbox
     \/ /\ agent[n].at = "leaves" /\ agent[n].left = {}
        /\ outbox' = [outbox EXCEPT ![n] = agent[n].keep]
  /\ kicks' = IF agent[n].round = "validate"
              THEN [kicks EXCEPT ![n] = GcCompleted(@)]
              ELSE kicks
  /\ agent' = [agent EXCEPT ![n] = Idle]
  /\ UNCHANGED <<store, meshId, noticed, dirty, cli, net, orders, missed>>

\* The agent stops with its sessions and connections, whatever it is at.  What
\* it was sent and has not handled is lost, what it has sent may be, and the
\* next one takes the dirty marker as already seen.
Crash(n) ==
  /\ "crash" \in Faults
  /\ agent' = [agent EXCEPT ![n] = Idle]
  /\ dirty' = dirty \ {n}
  /\ \E cut \in SUBSET {m \in net : m.to = n \/ m.from = n} :
       {m \in net : m.to = n} \subseteq cut /\ Drop(cut)
  /\ UNCHANGED <<disk, cli, orders>>

-----------------------------------------------------------------------------
(* Messages handled by the acceptor's session.                             *)

HandleRoster(m) ==
  /\ m.kind = "roster"
  /\ \/ IsTrusted(m.to, m.from) /\ ApplyMembership(m.to, m)
     \/ ~IsTrusted(m.to, m.from) /\ UNCHANGED <<store, meshId, dirty>>
  /\ net' = net \ {m}
  /\ UNCHANGED <<noticed, kicks, outbox, agent, cli, orders, missed>>

\* Mutant: a member takes another one's kick for its own.
HandleKick_ClearsRoster(m) ==
  /\ m.kind = "kick"
  /\ IsTrusted(m.to, m.from)
  /\ store' = [store EXCEPT ![m.to] = NoStore]
  /\ net' = net \ {m}
  /\ UNCHANGED <<kicks, meshId, noticed, outbox, dirty, agent, cli, orders, missed>>

\* The list of expected members always holds the receiver and never the
\* target, so the handler's branches for those cases are not taken.
HandleKick(m) ==
  /\ m.kind = "kick"
  /\ \/ /\ IsTrusted(m.to, m.from)
        /\ kicks' = [kicks EXCEPT ![m.to] =
                       Upsert(@, Pending(m.target, m.from, m.expected, {}, FALSE))]
        /\ Remove(m.to, m.target)
     \/ ~IsTrusted(m.to, m.from) /\ UNCHANGED <<store, kicks>>
  /\ net' = net \ {m}
  /\ UNCHANGED <<meshId, noticed, outbox, dirty, agent, cli, orders, missed>>

\* The dialer hangs up after one frame, so the acks sent here may fail, and the
\* outbox is then not written.
HandleNotice(m) ==
  /\ m.kind = "notice"
  /\ \/ /\ IsTrusted(m.to, m.by)
        /\ ApplyKickNotice(m.to)
        /\ \/ outbox' = [outbox EXCEPT ![m.to] = TrustedOf(m.to)]
           \/ UNCHANGED outbox
        /\ net' = net \ {m} /\ UNCHANGED missed
     \/ /\ ~IsTrusted(m.to, m.by) /\ Drop({m})
        /\ UNCHANGED <<store, meshId, noticed, outbox>>
  /\ UNCHANGED <<kicks, dirty, agent, cli, orders>>

HandleLeave(m) ==
  /\ m.kind = "leave"
  /\ Remove(m.to, m.from)
  /\ kicks' = [kicks EXCEPT ![m.to] =
                 GcCompleted(AddAcks(MarkDelivered(@, m.from), m.from, {m.from}))]
  /\ net' = net \ {m}
  /\ UNCHANGED <<meshId, noticed, outbox, dirty, agent, cli, orders, missed>>

Handle(m) == HandleRoster(m) \/ HandleKick(m) \/ HandleNotice(m) \/ HandleLeave(m)

Lose(m) ==
  /\ "loss" \in Faults
  /\ Drop({m})
  /\ UNCHANGED <<disk, dirty, agent, cli, orders>>

-----------------------------------------------------------------------------
(* The operators' commands.                                                *)

Unlink(o) ==
  /\ o.cmd = "unlink"
  /\ store[o.by][o.target] # "none"
  /\ store' = [store EXCEPT ![o.by][o.target] = "revoked"]
  /\ orders' = orders \ {o}
  /\ UNCHANGED <<meshId, noticed, kicks, outbox, dirty, agent, cli, net, missed>>

\* cmd_kick reads both stores, and writes the pending kick.
StartKick(o) ==
  LET others == TrustedOf(o.by) \ {o.target}
      all == Upsert(kicks[o.by], Pending(o.target, o.by, others, {}, FALSE))
  IN  /\ o.cmd = "kick" /\ cli[o.by].at = "idle"
      /\ IsTrusted(o.by, o.target)
      /\ kicks' = [kicks EXCEPT ![o.by] = all]
      /\ cli' = [cli EXCEPT ![o.by] =
                   Command("notify", o.target, others, others, store[o.by], all)]
      /\ orders' = orders \ {o}
      /\ UNCHANGED <<store, meshId, noticed, outbox, dirty, agent, net, missed>>

Announcing(c, ks) == Command("announce", c.target, c.left, c.expected, c.store, ks)

\* Mutant: the kick counts as delivered when the target was offline, too.
Notify_MarksOnError(n) ==
  LET c == cli[n]
      all == MarkDelivered(c.kicks, c.target)
  IN  /\ Room /\ c.at = "notify"
      /\ \/ Handshake(n, c.target) /\ Send(NoticeMsg(n, c.target, n))
         \/ DialMayFail(n, c.target) /\ UNCHANGED net
      /\ kicks' = [kicks EXCEPT ![n] = all]
      /\ cli' = [cli EXCEPT ![n] = Announcing(c, all)]
      /\ UNCHANGED <<store, meshId, noticed, outbox, dirty, agent, orders, missed>>

\* The notice goes to the target; once sent the kick counts as delivered.
Notify(n) ==
  LET c == cli[n]
      all == MarkDelivered(c.kicks, c.target)
  IN  /\ Room /\ c.at = "notify"
      /\ \/ /\ Handshake(n, c.target) /\ Send(NoticeMsg(n, c.target, n))
            /\ kicks' = [kicks EXCEPT ![n] = all]
            /\ cli' = [cli EXCEPT ![n] = Announcing(c, all)]
         \/ /\ DialMayFail(n, c.target)
            /\ cli' = [cli EXCEPT ![n] = Announcing(c, c.kicks)]
            /\ UNCHANGED <<kicks, net>>
      /\ UNCHANGED <<store, meshId, noticed, outbox, dirty, agent, orders, missed>>

Announce(n, p) ==
  LET c == cli[n]
  IN  /\ Room /\ c.at = "announce" /\ p \in c.left
      /\ cli' = [cli EXCEPT ![n] = Command("announce", c.target, c.left \ {p},
                                          c.expected, c.store, c.kicks)]
      /\ \/ /\ Handshake(n, p)
            /\ Send([kind |-> "kick", from |-> n, to |-> p, target |-> c.target,
                     expected |-> c.expected])
         \/ DialMayFail(n, p) /\ UNCHANGED net
      /\ UNCHANGED <<disk, dirty, agent, orders, missed>>

\* The target is removed from the records that were read at the start, and
\* those are written back.
EndKick(n) ==
  /\ cli[n].at = "announce" /\ cli[n].left = {}
  /\ store' = [store EXCEPT ![n] = [d \in Devices |->
                  IF d = cli[n].target THEN "none" ELSE cli[n].store[d]]]
  /\ dirty' = dirty \cup {n}
  /\ cli' = [cli EXCEPT ![n] = NoKick]
  /\ UNCHANGED <<meshId, noticed, kicks, outbox, agent, net, orders, missed>>

QuitKick(n) ==
  /\ "quit" \in Faults
  /\ cli[n].at # "idle"
  /\ cli' = [cli EXCEPT ![n] = NoKick]
  /\ UNCHANGED <<disk, dirty, agent, net, orders, missed>>

-----------------------------------------------------------------------------
Round(n) ==
  \/ StartPush(n) \/ StartValidate(n)
  \/ \E p \in Devices : PushTo(n, p) \/ PullFrom(n, p) \/ LeaveTo(n, p)
  \/ ApplyPull(n) \/ StartKicks(n)
  \/ \E k \in agent[n].todo : TrustForNotice(n, k)
  \/ SendNotice(n) \/ EndNotice(n) \/ StartLeaves(n) \/ EndRound(n)

Kick(n) == Notify(n) \/ (\E p \in Devices : Announce(n, p)) \/ EndKick(n)

Next ==
  \/ \E n \in Devices :
       Round(n) \/ LosePull(n) \/ Crash(n) \/ Kick(n) \/ QuitKick(n)
  \/ \E m \in net : Handle(m) \/ Lose(m)
  \/ \E o \in orders : Unlink(o) \/ StartKick(o)

\* An agent's loop keeps turning.
RoundsTurn == \A n \in Devices : WF_vars(Round(n))

\* Each message has a session of its own: a notice does not wait for ever behind
\* other messages, nor they behind it.
SessionsHandle ==
  \A n \in Devices :
    /\ WF_vars(\E m \in net : m.to = n /\ m.kind = "notice" /\ Handle(m))
    /\ WF_vars(\E m \in net : m.to = n /\ m.kind # "notice" /\ Handle(m))

\* The network and the peers are up often enough: a dial that could succeed
\* again and again does in the end.
PullsSucceed ==
  \A n \in Devices : \A p \in Devices \ {n} :
    SF_vars(PullFrom(n, p) /\ agent'[n].at = "pull")

NoticesSucceed ==
  \A n \in Devices : SF_vars(SendNotice(n) /\ agent'[n].at = "sent")

\* A round never waits but for Room, which bounds the model and not the code;
\* strong fairness keeps the messages of others from holding it up for ever.
RoundsGoOn == \A n \in Devices : SF_vars(Round(n))

\* The agents are not restarted for ever.  The end of a round, a message that
\* changes nothing and one that is lost may look like a restart.
RestartsEnd ==
  <>[][\A n \in Devices : Crash(n) =>
         EndRound(n) \/ \E m \in net : Handle(m) \/ Lose(m)]_vars

Spec == Init /\ [][Next]_vars
GossipSpec == Spec /\ RoundsTurn /\ SessionsHandle /\ PullsSucceed
KickSpec == Spec /\ RoundsGoOn /\ SessionsHandle /\ NoticesSucceed /\ RestartsEnd

-----------------------------------------------------------------------------
(* Properties.                                                             *)

\* Trust only spreads along trust: however gossip, kicks, retries and failures
\* interleave, a device never trusts one that was not reachable from it over
\* links made by joining, even one that has it in its own roster.
Vouched == \A n \in Devices : TrustedOf(n) \subseteq Circle[n]

\* The devices some command has been given about.
Targets == {o.target : o \in Orders \ orders}

\* A kick touches nobody else: two devices that trusted each other from the
\* start, and that no command was about, still do.
KickSparesOthers ==
  \A n, d \in Devices \ Targets :
    InitStore[n][d] = "trusted" => IsTrusted(n, d)

\* A pending kick is marked delivered, and so never tried again, only when a
\* notice has gone out: its target has had it, is about to, or the notice was
\* lost or refused.  It never counts as delivered because the target was offline.
DeliveredWasSent ==
  \A n \in Devices : \A k \in kicks[n] :
    k.delivered => k.target \in noticed \cup missed \cup Notices(net)

\* core/mesh.rs:96, "Target has received KickNotice", of the same mark.  It does
\* not hold: the mark is written when the notice was sent, and a restart of the
\* target, or a connection that breaks, may still lose it.
DeliveredReceived ==
  \A n \in Devices : \A k \in kicks[n] :
    k.delivered => k.target \in noticed \cup Notices(net)

\* docs/JOIN.md:130, the kicked device tells all known peers that it left: a
\* peer leaves its outbox only in being told.  It does not hold.
LeaveTold ==
  [][\A n, p \in Devices :
       agent[n].at = "leaves" /\ p \in agent[n].left \ agent'[n].left
         => \/ p \in agent'[n].keep
            \/ \E m \in net' : m.kind = "leave" /\ m.from = n /\ m.to = p]_vars

\* docs/ARCHITECTURE.md:44, after an unlink a code is required again: no
\* device that was unlinked is trusted without a join.  It does not hold.
UnlinkHolds ==
  [][\A n, d \in Devices : store[n][d] = "revoked" => store'[n][d] # "trusted"]_vars

\* Where nobody is kicked or unlinked, gossip brings every member to know
\* every other one, under one mesh id, and keeps it so.
Agreed ==
  /\ \A n \in Devices : TrustedOf(n) = Circle[n] \ {n}
  /\ \A n, d \in Devices : d \in Circle[n] => meshId[n] = meshId[d]

GossipConverges == <>[]Agreed

\* A recorded kick is not forgotten: however often its target cannot be dialled,
\* agents are restarted or the command that recorded it is interrupted, the
\* target has the notice in the end, unless one that went out was lost.
KickDelivered ==
  \A o \in {c \in Orders : c.cmd = "kick"} :
    (\E k \in kicks[o.by] : k.target = o.target) ~> o.target \in noticed \cup missed
=============================================================================
