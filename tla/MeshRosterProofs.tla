-------------------------- MODULE MeshRosterProofs --------------------------
(***************************************************************************)
(* Proofs about the mesh roster, for every set of devices, every roster to *)
(* start from, every set of commands and every set of faults.              *)
(***************************************************************************)
EXTENDS MeshRoster, TLAPS

\* What an agent and a kick command hold at each point.
FitsPoint(a) ==
  /\ a.at \in {"push", "pull"} => a.msg \in RosterMessage
  /\ a.at \in {"dial", "sent"} => a.msg \in NoticeMessage

Shape ==
  /\ \A n \in Devices : FitsPoint(agent[n])
  /\ \A n \in Devices : cli[n].at # "idle" => cli[n].target \in Devices

\* Nobody holds, sends or is sent a device that is not in its own circle.
KicksVouched == \A n \in Devices : \A k \in kicks[n] : k.target \in Circle[n]

Says(m) ==
  /\ m.kind = "roster" => m.members \subseteq Circle[m.from]
  /\ m.kind = "kick" => m.target \in Circle[m.from]

NetVouched == \A m \in net : Says(m)

Carries(a, n) == a.at \in {"push", "pull"} => a.msg.members \subseteq Circle[n]

AgentsVouched == \A n \in Devices : Carries(agent[n], n)

Holds(c, n) ==
  /\ \A d \in Devices : c.store[d] = "trusted" => d \in Circle[n]
  /\ \A k \in c.kicks : k.target \in Circle[n]
  /\ c.at # "idle" => c.target \in Circle[n]

CliVouched == \A n \in Devices : Holds(cli[n], n)

Vouching == Vouched /\ KicksVouched /\ NetVouched /\ AgentsVouched /\ CliVouched

RosterInv == TypeOK /\ Shape /\ Vouching

-----------------------------------------------------------------------------
(* The operators on pending kicks, and the records that are built.         *)

LEMMA PendingType ==
  ASSUME NEW t \in Devices, NEW by \in Devices, NEW expected \in SUBSET Devices,
         NEW acks \in SUBSET Devices, NEW delivered \in BOOLEAN
  PROVE  /\ Pending(t, by, expected, acks, delivered) \in PendingKick
         /\ Pending(t, by, expected, acks, delivered).target = t
BY DEF Pending, PendingKick

LEMMA KicksType ==
  ASSUME NEW ks \in SUBSET PendingKick
  PROVE  /\ \A k \in PendingKick : Upsert(ks, k) \in SUBSET PendingKick
         /\ \A t \in Devices : MarkDelivered(ks, t) \in SUBSET PendingKick
         /\ \A t \in Devices, who \in SUBSET Devices :
              AddAcks(ks, t, who) \in SUBSET PendingKick
         /\ GcCompleted(ks) \in SUBSET PendingKick
<1>1. \A x \in ks : /\ x \in PendingKick /\ x.target \in Devices /\ x.by \in Devices
                    /\ x.expected \in SUBSET Devices /\ x.acks \in SUBSET Devices
                    /\ x.delivered \in BOOLEAN
  BY DEF PendingKick
<1>2. \A k \in PendingKick : Upsert(ks, k) \in SUBSET PendingKick BY DEF Upsert
<1>3. ASSUME NEW t \in Devices PROVE MarkDelivered(ks, t) \in SUBSET PendingKick
  <2>1. \A x \in ks : Pending(t, x.by, x.expected, x.acks, TRUE) \in PendingKick
    BY <1>1, PendingType
  <2> QED BY <1>1, <2>1 DEF MarkDelivered
<1>4. ASSUME NEW t \in Devices, NEW who \in SUBSET Devices
       PROVE  AddAcks(ks, t, who) \in SUBSET PendingKick
  <2>1. \A x \in ks : Pending(t, x.by, x.expected, x.acks \cup who, x.delivered) \in PendingKick
    <3> SUFFICES ASSUME NEW x \in ks
                 PROVE  Pending(t, x.by, x.expected, x.acks \cup who, x.delivered) \in PendingKick
      OBVIOUS
    <3>1. x.acks \cup who \in SUBSET Devices BY <1>1
    <3> QED BY <1>1, <3>1, PendingType
  <2> QED BY <1>1, <2>1 DEF AddAcks
<1>5. GcCompleted(ks) \in SUBSET PendingKick BY DEF GcCompleted
<1> QED BY <1>2, <1>3, <1>4, <1>5

\* Whatever they do to a set of kicks, they add no target but Upsert's.
LEMMA KicksTargets ==
  ASSUME NEW ks \in SUBSET PendingKick, NEW S, \A k \in ks : k.target \in S
  PROVE  /\ \A k \in PendingKick : k.target \in S => \A x \in Upsert(ks, k) : x.target \in S
         /\ \A t \in Devices : \A x \in MarkDelivered(ks, t) : x.target \in S
         /\ \A t \in Devices, who \in SUBSET Devices :
              \A x \in AddAcks(ks, t, who) : x.target \in S
         /\ \A x \in GcCompleted(ks) : x.target \in S
<1>1. \A k \in PendingKick : k.target \in S => \A x \in Upsert(ks, k) : x.target \in S
  BY DEF Upsert
<1>2. ASSUME NEW t \in Devices, NEW x \in MarkDelivered(ks, t) PROVE x.target \in S
  <2>1. PICK y \in ks :
          x = IF y.target = t THEN Pending(t, y.by, y.expected, y.acks, TRUE) ELSE y
    BY <1>2 DEF MarkDelivered
  <2>2. CASE y.target = t BY <2>1, <2>2 DEF Pending
  <2>3. CASE y.target # t BY <2>1, <2>3
  <2> QED BY <2>2, <2>3
<1>3. ASSUME NEW t \in Devices, NEW who \in SUBSET Devices, NEW x \in AddAcks(ks, t, who)
      PROVE  x.target \in S
  <2>1. PICK y \in ks :
          x = IF y.target = t THEN Pending(t, y.by, y.expected, y.acks \cup who, y.delivered)
              ELSE y
    BY <1>3 DEF AddAcks
  <2>2. CASE y.target = t BY <2>1, <2>2 DEF Pending
  <2>3. CASE y.target # t BY <2>1, <2>3
  <2> QED BY <2>2, <2>3
<1>4. \A x \in GcCompleted(ks) : x.target \in S BY DEF GcCompleted
<1> QED BY <1>1, <1>2, <1>3, <1>4

LEMMA MessageTypes ==
  ASSUME NEW n \in Devices, NEW p \in Devices
  PROVE  /\ \A id \in Nat, ds \in SUBSET Devices : RosterMsg(n, p, id, ds) \in RosterMessage
         /\ \A by \in Devices : NoticeMsg(n, p, by) \in NoticeMessage
         /\ [kind |-> "leave", from |-> n, to |-> p] \in LeaveMessage
         /\ \A t \in Devices, ds \in SUBSET Devices :
              [kind |-> "kick", from |-> n, to |-> p, target |-> t, expected |-> ds]
                \in KickMessage
BY DEF RosterMsg, NoticeMsg, RosterMessage, NoticeMessage, LeaveMessage, KickMessage

LEMMA RosterType ==
  ASSUME TypeOK, NEW n \in Devices, NEW p \in Devices
  PROVE  Roster(n, p) \in RosterMessage
<1>1. meshId[n] \in Nat /\ TrustedOf(n) \cup {n} \in SUBSET Devices
  BY DEF TypeOK, TrustedOf
<1> QED BY <1>1, MessageTypes DEF Roster

LEMMA PhaseTypes ==
  ASSUME NEW left \in SUBSET Devices, NEW keep \in SUBSET Devices,
         NEW todo \in SUBSET PendingKick, NEW round \in {"none", "push", "validate"}
  PROVE  /\ Idle \in AgentState /\ FitsPoint(Idle)
         /\ Validating(left) \in AgentState /\ FitsPoint(Validating(left))
         /\ Kicking(round, todo) \in AgentState /\ FitsPoint(Kicking(round, todo))
         /\ Leaving(round, left, keep) \in AgentState
         /\ FitsPoint(Leaving(round, left, keep))
         /\ \A m \in RosterMessage :
              /\ Pushing(left, m) \in AgentState /\ FitsPoint(Pushing(left, m))
              /\ Pulling(left, m) \in AgentState /\ FitsPoint(Pulling(left, m))
         /\ \A m \in NoticeMessage :
              /\ Dialling(round, todo, m) \in AgentState
              /\ FitsPoint(Dialling(round, todo, m))
              /\ Sent(round, todo, m) \in AgentState /\ FitsPoint(Sent(round, todo, m))
<1>1. \A m : m \in RosterMessage \/ m \in NoticeMessage => m \in Message BY DEF Message
<1> QED
  BY <1>1 DEF Idle, Validating, Kicking, Leaving, Pushing, Pulling, Dialling, Sent, Phase,
              AgentState, FitsPoint

LEMMA CommandType ==
  ASSUME NEW at \in {"idle", "notify", "announce"}, NEW t \in Devices \cup {None},
         NEW left \in SUBSET Devices, NEW expected \in SUBSET Devices,
         NEW st \in Stores, NEW ks \in SUBSET PendingKick
  PROVE  /\ Command(at, t, left, expected, st, ks) \in CliState
         /\ Command(at, t, left, expected, st, ks).at = at
         /\ Command(at, t, left, expected, st, ks).target = t
         /\ Command(at, t, left, expected, st, ks).store = st
         /\ Command(at, t, left, expected, st, ks).kicks = ks
BY DEF Command, CliState

LEMMA NoKickType ==
  NoKick \in CliState /\ NoKick.at = "idle" /\ NoKick.store = NoStore /\ NoKick.kicks = {}
BY DEF NoKick, Command, CliState, NoStore, Stores, TrustState

\* What apply_membership leaves behind is a roster again.
LEMMA MembershipType ==
  ASSUME TypeOK, NEW n \in Devices, NEW m \in RosterMessage, ApplyMembership(n, m)
  PROVE  /\ store' \in [Devices -> Stores]
         /\ meshId' \in [Devices -> Nat]
         /\ dirty' \subseteq Devices
BY DEF TypeOK, ApplyMembership, RosterMessage, Stores, TrustState

LEMMA RemoveType ==
  ASSUME TypeOK, NEW n \in Devices, NEW d \in Devices, Remove(n, d)
  PROVE  store' \in [Devices -> Stores]
BY DEF TypeOK, Remove, Stores, TrustState

-----------------------------------------------------------------------------
(* Types.                                                                  *)

\* The parts of the type invariant that a step of an agent does not share.
AgentOK == agent \in [Devices -> AgentState] /\ \A n \in Devices : FitsPoint(agent[n])

CliOK ==
  /\ cli \in [Devices -> CliState]
  /\ \A n \in Devices : cli[n].at # "idle" => cli[n].target \in Devices

RestOK ==
  /\ store \in [Devices -> Stores] /\ meshId \in [Devices -> Nat]
  /\ noticed \subseteq Devices /\ dirty \subseteq Devices
  /\ kicks \in [Devices -> SUBSET PendingKick]
  /\ outbox \in [Devices -> SUBSET Devices]
  /\ net \subseteq Message /\ orders \subseteq Orders /\ missed \subseteq Devices

LEMMA Parts == TypeOK /\ Shape <=> AgentOK /\ CliOK /\ RestOK
BY DEF TypeOK, Shape, AgentOK, CliOK, RestOK

LEMMA PartsNext == (TypeOK /\ Shape)' <=> (AgentOK /\ CliOK /\ RestOK)'
BY DEF TypeOK, Shape, AgentOK, CliOK, RestOK

LEMMA AgentStep ==
  ASSUME AgentOK, NEW n \in Devices, NEW a \in AgentState, FitsPoint(a),
         agent' = [agent EXCEPT ![n] = a]
  PROVE  AgentOK'
<1>1. agent' \in [Devices -> AgentState] BY DEF AgentOK
<1>2. ASSUME NEW d \in Devices PROVE FitsPoint(agent'[d])
  <2>1. agent'[d] = IF d = n THEN a ELSE agent[d] BY DEF AgentOK
  <2> QED BY <2>1 DEF AgentOK
<1> QED BY <1>1, <1>2 DEF AgentOK

LEMMA TypeInit == Init => TypeOK /\ Shape
<1> USE MeshRosterAssumption
<1> SUFFICES ASSUME Init PROVE TypeOK /\ Shape OBVIOUS
<1>1. AgentOK
  <2>1. Idle \in AgentState /\ FitsPoint(Idle) BY PhaseTypes
  <2> QED BY <2>1 DEF Init, AgentOK
<1>2. CliOK BY NoKickType DEF Init, CliOK
<1>3. RestOK BY DEF Init, RestOK
<1> QED BY <1>1, <1>2, <1>3, Parts

\* What is known of an agent in a round, or of a kick command.
LEMMA AgentParts ==
  ASSUME TypeOK, Shape, NEW n \in Devices
  PROVE  /\ agent[n].round \in {"none", "push", "validate"}
         /\ agent[n].left \in SUBSET Devices /\ agent[n].keep \in SUBSET Devices
         /\ agent[n].todo \in SUBSET PendingKick
         /\ agent[n].at \in {"push", "pull"} =>
              /\ agent[n].msg \in RosterMessage
              /\ agent[n].msg.id \in Nat /\ agent[n].msg.members \in SUBSET Devices
         /\ agent[n].at \in {"dial", "sent"} =>
              agent[n].msg \in NoticeMessage /\ agent[n].msg.to \in Devices
BY DEF TypeOK, Shape, FitsPoint, AgentState, RosterMessage, NoticeMessage

LEMMA CliParts ==
  ASSUME TypeOK, Shape, NEW n \in Devices
  PROVE  /\ cli[n].left \in SUBSET Devices /\ cli[n].expected \in SUBSET Devices
         /\ cli[n].store \in Stores /\ cli[n].kicks \in SUBSET PendingKick
         /\ cli[n].at # "idle" => cli[n].target \in Devices
BY DEF TypeOK, Shape, CliState

\* A round's steps.
LEMMA TypeRound ==
  ASSUME TypeOK, Shape, NEW n \in Devices, Round(n)
  PROVE  TypeOK' /\ Shape'
<1>0. AgentOK /\ CliOK /\ RestOK BY Parts
<1>a. /\ TrustedOf(n) \in SUBSET Devices /\ outbox[n] \in SUBSET Devices
      /\ kicks[n] \in SUBSET PendingKick /\ Undelivered(n) \in SUBSET PendingKick
  BY DEF TypeOK, TrustedOf, Undelivered
<1>b. \A m : m \in RosterMessage \/ m \in NoticeMessage \/ m \in LeaveMessage => m \in Message
  BY DEF Message
<1>c. SUFFICES AgentOK' /\ CliOK' /\ RestOK' BY PartsNext
<1>d. cli' = cli => CliOK' BY <1>0 DEF CliOK
<1>1. CASE StartPush(n)
  <2>1. Pushing(TrustedOf(n), Roster(n, n)) \in AgentState
        /\ FitsPoint(Pushing(TrustedOf(n), Roster(n, n)))
    BY <1>a, RosterType, PhaseTypes
  <2>2. AgentOK' BY <1>1, <1>0, <2>1, AgentStep DEF StartPush
  <2>3. CliOK' BY <1>1, <1>d DEF StartPush
  <2>4. RestOK' BY <1>1, <1>0 DEF StartPush, RestOK, disk
  <2> QED BY <2>2, <2>3, <2>4
<1>2. CASE StartValidate(n)
  <2>1. Validating(TrustedOf(n)) \in AgentState /\ FitsPoint(Validating(TrustedOf(n)))
    BY <1>a, PhaseTypes
  <2>2. AgentOK' BY <1>2, <1>0, <2>1, AgentStep DEF StartValidate
  <2>3. CliOK' BY <1>2, <1>d DEF StartValidate
  <2>4. RestOK' BY <1>2, <1>0 DEF StartValidate, RestOK, disk
  <2> QED BY <2>2, <2>3, <2>4
<1>3. ASSUME NEW p \in Devices, PushTo(n, p) PROVE AgentOK' /\ CliOK' /\ RestOK'
  <2> DEFINE m == agent[n].msg
             rest == agent[n].left \ {p}
  <2>1. m \in RosterMessage /\ m.id \in Nat /\ m.members \in SUBSET Devices
    BY <1>3, AgentParts DEF PushTo
  <2>2. net' \subseteq Message
    <3>1. RosterMsg(n, p, m.id, m.members) \in Message BY <2>1, <1>b, MessageTypes
    <3> QED BY <1>3, <1>0, <3>1 DEF PushTo, Send, RestOK
  <2>3. rest \in SUBSET Devices BY AgentParts
  <2>4. Pushing(rest, m) \in AgentState /\ FitsPoint(Pushing(rest, m))
    BY <2>1, <2>3, PhaseTypes
  <2>5. agent' = [agent EXCEPT ![n] = Pushing(rest, m)] BY <1>3 DEF PushTo
  <2>6. AgentOK' BY <1>0, <2>4, <2>5, AgentStep
  <2>7. CliOK' BY <1>3, <1>d DEF PushTo
  <2>8. RestOK' BY <1>3, <1>0, <2>2 DEF PushTo, RestOK, disk
  <2> QED BY <2>6, <2>7, <2>8
<1>4. ASSUME NEW p \in Devices, PullFrom(n, p) PROVE AgentOK' /\ CliOK' /\ RestOK'
  <2> DEFINE rest == agent[n].left \ {p}
  <2>1. Roster(n, p) \in RosterMessage /\ Roster(p, n) \in RosterMessage BY RosterType
  <2>2. net' \subseteq Message BY <1>4, <1>0, <1>b, <2>1 DEF PullFrom, Send, RestOK
  <2>3. rest \in SUBSET Devices BY AgentParts
  <2>4. /\ Validating(rest) \in AgentState /\ FitsPoint(Validating(rest))
        /\ Pulling(rest, Roster(p, n)) \in AgentState /\ FitsPoint(Pulling(rest, Roster(p, n)))
    BY <2>1, <2>3, PhaseTypes
  <2>5. \/ agent' = [agent EXCEPT ![n] = Pulling(rest, Roster(p, n))]
        \/ agent' = [agent EXCEPT ![n] = Validating(rest)]
    BY <1>4 DEF PullFrom
  <2>6. AgentOK' BY <1>0, <2>4, <2>5, AgentStep
  <2>7. CliOK' BY <1>4, <1>d DEF PullFrom
  <2>8. RestOK' BY <1>4, <1>0, <2>2 DEF PullFrom, RestOK, disk
  <2> QED BY <2>6, <2>7, <2>8
<1>5. ASSUME NEW p \in Devices, LeaveTo(n, p) PROVE AgentOK' /\ CliOK' /\ RestOK'
  <2> DEFINE a == agent[n]
             rest == a.left \ {p}
  <2>1. /\ rest \in SUBSET Devices /\ a.keep \in SUBSET Devices
        /\ a.keep \cup {p} \in SUBSET Devices /\ a.round \in {"none", "push", "validate"}
    BY AgentParts
  <2>2. /\ Leaving(a.round, rest, a.keep) \in AgentState
        /\ FitsPoint(Leaving(a.round, rest, a.keep))
        /\ Leaving(a.round, rest, a.keep \cup {p}) \in AgentState
        /\ FitsPoint(Leaving(a.round, rest, a.keep \cup {p}))
    BY <2>1, PhaseTypes
  <2>3. net' \subseteq Message
    <3>1. [kind |-> "leave", from |-> n, to |-> p] \in Message BY <1>b, MessageTypes
    <3> QED BY <1>5, <1>0, <3>1 DEF LeaveTo, Send, RestOK
  <2>4. \/ agent' = [agent EXCEPT ![n] = Leaving(a.round, rest, a.keep)]
        \/ agent' = [agent EXCEPT ![n] = Leaving(a.round, rest, a.keep \cup {p})]
    BY <1>5 DEF LeaveTo
  <2>5. AgentOK' BY <1>0, <2>2, <2>4, AgentStep
  <2>6. CliOK' BY <1>5, <1>d DEF LeaveTo
  <2>7. RestOK' BY <1>5, <1>0, <2>3 DEF LeaveTo, RestOK, disk
  <2> QED BY <2>5, <2>6, <2>7
<1>6. CASE ApplyPull(n)
  <2>1. agent[n].msg \in RosterMessage BY <1>6, AgentParts DEF ApplyPull
  <2>2. Validating(agent[n].left) \in AgentState /\ FitsPoint(Validating(agent[n].left))
    BY AgentParts, PhaseTypes
  <2>3. /\ store' \in [Devices -> Stores] /\ meshId' \in [Devices -> Nat]
        /\ dirty' \subseteq Devices
    BY <1>6, <2>1, MembershipType DEF ApplyPull
  <2>4. AgentOK' BY <1>6, <1>0, <2>2, AgentStep DEF ApplyPull
  <2>5. CliOK' BY <1>6, <1>d DEF ApplyPull
  <2>6. RestOK' BY <1>6, <1>0, <2>3 DEF ApplyPull, RestOK
  <2> QED BY <2>4, <2>5, <2>6
<1>7. CASE StartKicks(n)
  <2> DEFINE a == Kicking(agent[n].round, Undelivered(n))
  <2>1. a \in AgentState /\ FitsPoint(a) BY <1>a, AgentParts, PhaseTypes
  <2>2. AgentOK' BY <1>7, <1>0, <2>1, AgentStep DEF StartKicks
  <2>3. CliOK' BY <1>7, <1>d DEF StartKicks
  <2>4. RestOK' BY <1>7, <1>0 DEF StartKicks, RestOK, disk
  <2> QED BY <2>2, <2>3, <2>4
<1>8. ASSUME NEW k \in agent[n].todo, TrustForNotice(n, k) PROVE AgentOK' /\ CliOK' /\ RestOK'
  <2> DEFINE notice == NoticeMsg(n, k.target, k.by)
             a == Dialling(agent[n].round, agent[n].todo \ {k}, notice)
  <2>1. k.target \in Devices /\ k.by \in Devices BY AgentParts DEF PendingKick
  <2>2. notice \in NoticeMessage BY <2>1, MessageTypes
  <2>3. a \in AgentState /\ FitsPoint(a)
    <3>1. agent[n].todo \ {k} \in SUBSET PendingKick BY AgentParts
    <3> QED BY <2>2, <3>1, AgentParts, PhaseTypes
  <2>4. store' \in [Devices -> Stores]
    BY <1>8, <1>0, <2>1 DEF TrustForNotice, RestOK, Stores, TrustState
  <2>5. AgentOK' BY <1>8, <1>0, <2>3, AgentStep DEF TrustForNotice
  <2>6. CliOK' BY <1>8, <1>d DEF TrustForNotice
  <2>7. RestOK' BY <1>8, <1>0, <2>4 DEF TrustForNotice, RestOK
  <2> QED BY <2>5, <2>6, <2>7
<1>9. CASE SendNotice(n)
  <2> DEFINE a == agent[n]
  <2>1. a.msg \in NoticeMessage BY <1>9, AgentParts DEF SendNotice
  <2>2. net' \subseteq Message BY <1>9, <1>0, <1>b, <2>1 DEF SendNotice, Send, RestOK
  <2>3. /\ Sent(a.round, a.todo, a.msg) \in AgentState
        /\ FitsPoint(Sent(a.round, a.todo, a.msg))
        /\ Kicking(a.round, a.todo) \in AgentState /\ FitsPoint(Kicking(a.round, a.todo))
    BY <2>1, AgentParts, PhaseTypes
  <2>4. \/ agent' = [agent EXCEPT ![n] = Sent(a.round, a.todo, a.msg)]
        \/ agent' = [agent EXCEPT ![n] = Kicking(a.round, a.todo)]
    BY <1>9 DEF SendNotice
  <2>5. AgentOK' BY <1>0, <2>3, <2>4, AgentStep
  <2>6. CliOK' BY <1>9, <1>d DEF SendNotice
  <2>7. RestOK' BY <1>9, <1>0, <2>2 DEF SendNotice, RestOK, disk
  <2> QED BY <2>5, <2>6, <2>7
<1>10. CASE EndNotice(n)
  <2> DEFINE a == Kicking(agent[n].round, agent[n].todo)
  <2>1. agent[n].msg.to \in Devices BY <1>10, AgentParts DEF EndNotice
  <2>2. a \in AgentState /\ FitsPoint(a) BY AgentParts, PhaseTypes
  <2>3. MarkDelivered(kicks[n], agent[n].msg.to) \in SUBSET PendingKick
    BY <1>a, <2>1, KicksType
  <2>4. kicks' \in [Devices -> SUBSET PendingKick]
    BY <1>10, <1>0, <2>3 DEF EndNotice, RestOK
  <2>5. store' \in [Devices -> Stores] BY <1>10, <2>1, RemoveType DEF EndNotice
  <2>6. AgentOK' BY <1>10, <1>0, <2>2, AgentStep DEF EndNotice
  <2>7. CliOK' BY <1>10, <1>d DEF EndNotice
  <2>8. RestOK' BY <1>10, <1>0, <2>4, <2>5 DEF EndNotice, RestOK
  <2> QED BY <2>6, <2>7, <2>8
<1>11. CASE StartLeaves(n)
  <2> DEFINE a == Leaving(agent[n].round, outbox[n], {})
  <2>1. a \in AgentState /\ FitsPoint(a) BY <1>a, AgentParts, PhaseTypes
  <2>2. AgentOK' BY <1>11, <1>0, <2>1, AgentStep DEF StartLeaves
  <2>3. CliOK' BY <1>11, <1>d DEF StartLeaves
  <2>4. RestOK' BY <1>11, <1>0 DEF StartLeaves, RestOK, disk
  <2> QED BY <2>2, <2>3, <2>4
<1>12. CASE EndRound(n)
  <2>1. agent[n].keep \in SUBSET Devices BY AgentParts
  <2>2. outbox' \in [Devices -> SUBSET Devices] BY <1>12, <1>0, <2>1 DEF EndRound, RestOK
  <2>3. GcCompleted(kicks[n]) \in SUBSET PendingKick BY <1>a, KicksType
  <2>4. kicks' \in [Devices -> SUBSET PendingKick] BY <1>12, <1>0, <2>3 DEF EndRound, RestOK
  <2>5. Idle \in AgentState /\ FitsPoint(Idle) BY PhaseTypes
  <2>6. AgentOK' BY <1>12, <1>0, <2>5, AgentStep DEF EndRound
  <2>7. CliOK' BY <1>12, <1>d DEF EndRound
  <2>8. RestOK' BY <1>12, <1>0, <2>2, <2>4 DEF EndRound, RestOK
  <2> QED BY <2>6, <2>7, <2>8
<1> QED
  BY <1>1, <1>2, <1>3, <1>4, <1>5, <1>6, <1>7, <1>8, <1>9, <1>10, <1>11, <1>12 DEF Round

-----------------------------------------------------------------------------
LEMMA SessionTypes ==
  ASSUME NEW m \in Message
  PROVE  /\ m.kind = "roster" => m \in RosterMessage
         /\ m.kind = "kick" => m \in KickMessage
         /\ m.kind = "notice" => m \in NoticeMessage
         /\ m.kind = "leave" => m \in LeaveMessage
         /\ m.to \in Devices /\ m.from \in Devices
BY DEF Message, RosterMessage, KickMessage, NoticeMessage, LeaveMessage

LEMMA DropType ==
  ASSUME TypeOK, NEW cut \in SUBSET net, Drop(cut)
  PROVE  net' \subseteq Message /\ missed' \subseteq Devices
<1>1. \A m \in cut : m.to \in Devices BY SessionTypes DEF TypeOK
<1> QED BY <1>1 DEF TypeOK, Drop, Notices

\* A session's handlers.
LEMMA TypeHandle ==
  ASSUME TypeOK, Shape, NEW m \in net, Handle(m)
  PROVE  TypeOK' /\ Shape'
<1>0. AgentOK /\ CliOK /\ RestOK BY Parts
<1>a. m \in Message /\ m.to \in Devices /\ m.from \in Devices
  <2>1. m \in Message BY DEF TypeOK
  <2> QED BY <2>1, SessionTypes
<1>b. kicks[m.to] \in SUBSET PendingKick BY <1>a DEF TypeOK
<1>c. SUFFICES AgentOK' /\ CliOK' /\ RestOK' BY PartsNext
<1>1. CASE HandleRoster(m)
  <2>1. m \in RosterMessage BY <1>1, <1>a, SessionTypes DEF HandleRoster
  <2>2. /\ store' \in [Devices -> Stores] /\ meshId' \in [Devices -> Nat]
        /\ dirty' \subseteq Devices
    BY <1>1, <1>0, <1>a, <2>1, MembershipType DEF HandleRoster, RestOK
  <2> QED BY <1>1, <1>0, <2>2 DEF HandleRoster, AgentOK, CliOK, RestOK
<1>2. CASE HandleKick(m)
  <2>1. m \in KickMessage BY <1>2, <1>a, SessionTypes DEF HandleKick
  <2>2. m.target \in Devices /\ m.expected \in SUBSET Devices BY <2>1 DEF KickMessage
  <2>3. store' \in [Devices -> Stores]
    BY <1>2, <1>0, <1>a, <2>2, RemoveType DEF HandleKick, RestOK
  <2>4. Upsert(kicks[m.to], Pending(m.target, m.from, m.expected, {}, FALSE))
          \in SUBSET PendingKick
    BY <1>a, <1>b, <2>2, PendingType, KicksType
  <2>5. kicks' \in [Devices -> SUBSET PendingKick]
    BY <1>2, <1>0, <1>a, <2>4 DEF HandleKick, RestOK
  <2> QED BY <1>2, <1>0, <2>3, <2>5 DEF HandleKick, AgentOK, CliOK, RestOK
<1>3. CASE HandleNotice(m)
  <2>1. TrustedOf(m.to) \in SUBSET Devices BY DEF TrustedOf
  <2>2. store' \in [Devices -> Stores]
    BY <1>3, <1>0, <1>a DEF HandleNotice, ApplyKickNotice, RestOK, Stores, TrustState
  <2>3. meshId' \in [Devices -> Nat]
    BY <1>3, <1>0, <1>a, MeshRosterAssumption DEF HandleNotice, ApplyKickNotice, RestOK
  <2>4. outbox' \in [Devices -> SUBSET Devices]
    BY <1>3, <1>0, <1>a, <2>1 DEF HandleNotice, ApplyKickNotice, RestOK
  <2>5. noticed' \subseteq Devices BY <1>3, <1>0, <1>a DEF HandleNotice, ApplyKickNotice, RestOK
  <2>6. net' \subseteq Message /\ missed' \subseteq Devices
    BY <1>3, <1>0, DropType DEF HandleNotice, RestOK
  <2> QED BY <1>3, <1>0, <2>2, <2>3, <2>4, <2>5, <2>6 DEF HandleNotice, ApplyKickNotice, AgentOK, CliOK, RestOK
<1>4. CASE HandleLeave(m)
  <2> DEFINE marked == MarkDelivered(kicks[m.to], m.from)
             acked == AddAcks(marked, m.from, {m.from})
  <2>1. store' \in [Devices -> Stores] BY <1>4, <1>a, RemoveType DEF HandleLeave
  <2>2. marked \in SUBSET PendingKick BY <1>a, <1>b, KicksType
  <2>3. acked \in SUBSET PendingKick
    <3> HIDE DEF marked
    <3> QED BY <1>a, <2>2, KicksType
  <2>4. GcCompleted(acked) \in SUBSET PendingKick
    <3> HIDE DEF acked
    <3> QED BY <2>3, KicksType
  <2>5. kicks' = [kicks EXCEPT ![m.to] = GcCompleted(acked)]
    BY <1>4 DEF HandleLeave
  <2>6. kicks' \in [Devices -> SUBSET PendingKick]
    <3> HIDE DEF acked
    <3> QED BY <1>0, <2>4, <2>5 DEF RestOK
  <2> QED BY <1>4, <1>0, <2>1, <2>6 DEF HandleLeave, AgentOK, CliOK, RestOK
<1> QED BY <1>1, <1>2, <1>3, <1>4 DEF Handle

LEMMA CliStep ==
  ASSUME CliOK, NEW n \in Devices, NEW c \in CliState,
         c.at # "idle" => c.target \in Devices, cli' = [cli EXCEPT ![n] = c]
  PROVE  CliOK'
BY DEF CliOK

\* The steps of a kick command.
LEMMA TypeKick ==
  ASSUME TypeOK, Shape, NEW n \in Devices, Kick(n)
  PROVE  TypeOK' /\ Shape'
<1> DEFINE c == cli[n]
<1>0. AgentOK /\ CliOK /\ RestOK BY Parts
<1>a. /\ c.left \in SUBSET Devices /\ c.expected \in SUBSET Devices /\ c.store \in Stores
      /\ c.kicks \in SUBSET PendingKick
      /\ c.at # "idle" => c.target \in Devices
  BY CliParts
<1>b. \A m : m \in NoticeMessage \/ m \in KickMessage => m \in Message BY DEF Message
<1>c. SUFFICES AgentOK' /\ CliOK' /\ RestOK' BY PartsNext
<1>1. CASE Notify(n)
  <2> DEFINE all == MarkDelivered(c.kicks, c.target)
  <2>1. c.target \in Devices BY <1>1, <1>a DEF Notify
  <2>2. all \in SUBSET PendingKick BY <1>a, <2>1, KicksType
  <2>3. \A ks \in SUBSET PendingKick : /\ Announcing(c, ks) \in CliState
                                       /\ Announcing(c, ks).target = c.target
    BY <1>a, <2>1, CommandType DEF Announcing
  <2>4. NoticeMsg(n, c.target, n) \in Message BY <1>b, <2>1, MessageTypes
  <2> HIDE DEF all
  <2>5. \/ /\ kicks' = [kicks EXCEPT ![n] = all]
           /\ cli' = [cli EXCEPT ![n] = Announcing(c, all)]
        \/ kicks' = kicks /\ cli' = [cli EXCEPT ![n] = Announcing(c, c.kicks)]
    BY <1>1 DEF Notify, all
  <2>6. net' \subseteq Message BY <1>1, <1>0, <2>4 DEF Notify, Send, RestOK
  <2>7. CliOK' BY <1>0, <1>a, <2>1, <2>2, <2>3, <2>5, CliStep
  <2>8. kicks' \in [Devices -> SUBSET PendingKick] BY <1>0, <2>2, <2>5 DEF RestOK
  <2> QED BY <1>1, <1>0, <2>6, <2>7, <2>8 DEF Notify, AgentOK, RestOK
<1>2. ASSUME NEW p \in Devices, Announce(n, p) PROVE AgentOK' /\ CliOK' /\ RestOK'
  <2> DEFINE next == Command("announce", c.target, c.left \ {p}, c.expected, c.store, c.kicks)
  <2>1. c.target \in Devices BY <1>2, <1>a DEF Announce
  <2>2. next \in CliState /\ next.target = c.target
    <3>1. c.left \ {p} \in SUBSET Devices BY <1>a
    <3> QED BY <1>a, <2>1, <3>1, CommandType
  <2>3. [kind |-> "kick", from |-> n, to |-> p, target |-> c.target, expected |-> c.expected]
          \in Message
    BY <1>a, <1>b, <2>1, MessageTypes
  <2>4. net' \subseteq Message BY <1>2, <1>0, <2>3 DEF Announce, Send, RestOK
  <2>5. cli' = [cli EXCEPT ![n] = next] BY <1>2 DEF Announce
  <2>6. CliOK'
    <3> HIDE DEF next
    <3> QED BY <1>0, <2>1, <2>2, <2>5, CliStep
  <2> QED BY <1>2, <1>0, <2>4, <2>6 DEF Announce, AgentOK, RestOK, disk
<1>3. CASE EndKick(n)
  <2>1. CliOK' BY <1>3, <1>0, NoKickType, CliStep DEF EndKick
  <2>2. [d \in Devices |-> IF d = c.target THEN "none" ELSE c.store[d]] \in Stores
    BY <1>a DEF Stores, TrustState
  <2>3. store' \in [Devices -> Stores] BY <1>3, <1>0, <2>2 DEF EndKick, RestOK
  <2> QED BY <1>3, <1>0, <2>1, <2>3 DEF EndKick, AgentOK, RestOK
<1> QED BY <1>1, <1>2, <1>3 DEF Kick

\* What the operators start, and what goes wrong.
LEMMA TypeOrders ==
  ASSUME TypeOK, Shape, NEW o \in orders, Unlink(o) \/ StartKick(o)
  PROVE  TypeOK' /\ Shape'
<1>0. AgentOK /\ CliOK /\ RestOK BY Parts
<1>a. o.by \in Devices /\ o.target \in Devices /\ orders \subseteq Orders
  BY MeshRosterAssumption DEF TypeOK, Order
<1>c. SUFFICES AgentOK' /\ CliOK' /\ RestOK' BY PartsNext
<1>1. CASE Unlink(o)
  <2>1. store' \in [Devices -> Stores]
    BY <1>1, <1>0, <1>a DEF Unlink, RestOK, Stores, TrustState
  <2> QED BY <1>1, <1>0, <2>1 DEF Unlink, AgentOK, CliOK, RestOK
<1>2. CASE StartKick(o)
  <2> DEFINE others == TrustedOf(o.by) \ {o.target}
             all == Upsert(kicks[o.by], Pending(o.target, o.by, others, {}, FALSE))
             c == Command("notify", o.target, others, others, store[o.by], all)
  <2>1. others \in SUBSET Devices BY DEF TrustedOf
  <2>2. kicks[o.by] \in SUBSET PendingKick /\ store[o.by] \in Stores BY <1>0, <1>a DEF RestOK
  <2>3. all \in SUBSET PendingKick
    <3>1. Pending(o.target, o.by, others, {}, FALSE) \in PendingKick BY <1>a, <2>1, PendingType
    <3> QED BY <2>2, <3>1, KicksType
  <2> HIDE DEF others, all
  <2>4. c \in CliState /\ c.target = o.target BY <1>a, <2>1, <2>2, <2>3, CommandType
  <2>5. kicks' = [kicks EXCEPT ![o.by] = all] /\ cli' = [cli EXCEPT ![o.by] = c]
    BY <1>2 DEF StartKick, others, all
  <2> HIDE DEF c
  <2>6. CliOK' BY <1>0, <1>a, <2>4, <2>5, CliStep
  <2>7. kicks' \in [Devices -> SUBSET PendingKick] BY <1>0, <2>3, <2>5 DEF RestOK
  <2> QED BY <1>2, <1>0, <2>6, <2>7 DEF StartKick, AgentOK, RestOK
<1> QED BY <1>1, <1>2

LEMMA TypeFaults ==
  ASSUME TypeOK, Shape,
         \/ \E n \in Devices : LosePull(n) \/ Crash(n) \/ QuitKick(n)
         \/ \E m \in net : Lose(m)
  PROVE  TypeOK' /\ Shape'
<1>0. AgentOK /\ CliOK /\ RestOK BY Parts
<1>c. SUFFICES AgentOK' /\ CliOK' /\ RestOK' BY PartsNext
<1>1. ASSUME NEW n \in Devices, LosePull(n) PROVE AgentOK' /\ CliOK' /\ RestOK'
  <2>1. Validating(agent[n].left) \in AgentState /\ FitsPoint(Validating(agent[n].left))
    BY AgentParts, PhaseTypes
  <2>2. AgentOK' BY <1>1, <1>0, <2>1, AgentStep DEF LosePull
  <2> QED BY <1>1, <1>0, <2>2 DEF LosePull, CliOK, RestOK, disk
<1>2. ASSUME NEW n \in Devices, Crash(n) PROVE AgentOK' /\ CliOK' /\ RestOK'
  <2>1. Idle \in AgentState /\ FitsPoint(Idle) BY PhaseTypes
  <2>2. AgentOK' BY <1>2, <1>0, <2>1, AgentStep DEF Crash
  <2>3. net' \subseteq Message /\ missed' \subseteq Devices BY <1>2, DropType DEF Crash
  <2> QED BY <1>2, <1>0, <2>2, <2>3 DEF Crash, CliOK, RestOK, disk
<1>3. ASSUME NEW n \in Devices, QuitKick(n) PROVE AgentOK' /\ CliOK' /\ RestOK'
  <2>1. CliOK' BY <1>3, <1>0, NoKickType, CliStep DEF QuitKick
  <2> QED BY <1>3, <1>0, <2>1 DEF QuitKick, AgentOK, RestOK, disk
<1>4. ASSUME NEW m \in net, Lose(m) PROVE AgentOK' /\ CliOK' /\ RestOK'
  <2>1. net' \subseteq Message /\ missed' \subseteq Devices BY <1>4, DropType DEF Lose
  <2> QED BY <1>4, <1>0, <2>1 DEF Lose, AgentOK, CliOK, RestOK, disk
<1> QED BY <1>1, <1>2, <1>3, <1>4

LEMMA TypeStep == TypeOK /\ Shape /\ [Next]_vars => (TypeOK /\ Shape)'
<1> SUFFICES ASSUME TypeOK, Shape, [Next]_vars PROVE TypeOK' /\ Shape' OBVIOUS
<1>1. CASE Next
  BY <1>1, TypeRound, TypeHandle, TypeKick, TypeOrders, TypeFaults DEF Next
<1>2. CASE UNCHANGED vars BY <1>2 DEF vars, disk, TypeOK, Shape, FitsPoint
<1> QED BY <1>1, <1>2

\* In every mesh and whatever fails, the stores, the messages in flight, the
\* rounds and the commands are of their types.
THEOREM TypeCorrect == Spec => []TypeOK
<1>1. Init => TypeOK /\ Shape BY TypeInit
<1>2. TypeOK /\ Shape /\ [Next]_vars => (TypeOK /\ Shape)' BY TypeStep
<1> QED BY <1>1, <1>2, PTL DEF Spec

-----------------------------------------------------------------------------
(* Trust only spreads along trust.                                         *)

LEMMA CircleFacts ==
  /\ \A n \in Devices : n \in Circle[n] /\ Circle[n] \in SUBSET Devices
  /\ \A n, p \in Devices : p \in Circle[n] => Circle[p] \subseteq Circle[n]
  /\ \A n, p \in Devices : InitStore[n][p] = "trusted" => p \in Circle[n]
BY MeshRosterAssumption

LEMMA PhasePoints ==
  /\ Idle.at = "idle"
  /\ \A left : Validating(left).at = "validate"
  /\ \A round, todo : Kicking(round, todo).at = "kicks"
  /\ \A round, left, keep : Leaving(round, left, keep).at = "leaves"
  /\ \A left, m : Pushing(left, m).msg = m /\ Pulling(left, m).msg = m
  /\ \A round, todo, m : Dialling(round, todo, m).at = "dial" /\ Sent(round, todo, m).at = "sent"
BY DEF Idle, Validating, Kicking, Leaving, Pushing, Pulling, Dialling, Sent, Phase

\* What vouches for the next state of each part.
LEMMA MembershipVouched ==
  ASSUME TypeOK, Vouched, NEW n \in Devices, NEW m \in RosterMessage,
         m.members \subseteq Circle[n], ApplyMembership(n, m)
  PROVE  Vouched'
BY DEF TypeOK, Vouched, TrustedOf, IsTrusted, ApplyMembership, RosterMessage, Stores, TrustState

LEMMA RemoveVouched ==
  ASSUME TypeOK, Vouched, NEW n \in Devices, NEW d \in Devices, Remove(n, d)
  PROVE  Vouched'
BY DEF TypeOK, Vouched, TrustedOf, IsTrusted, Remove, Stores, TrustState

LEMMA AgentVouched ==
  ASSUME AgentOK, AgentsVouched, NEW n \in Devices, NEW a, Carries(a, n),
         agent' = [agent EXCEPT ![n] = a]
  PROVE  AgentsVouched'
<1> SUFFICES ASSUME NEW d \in Devices PROVE Carries(agent'[d], d) BY DEF AgentsVouched
<1>1. agent'[d] = IF d = n THEN a ELSE agent[d] BY DEF AgentOK
<1> QED BY <1>1 DEF AgentsVouched

LEMMA CommandVouched ==
  ASSUME CliOK, CliVouched, NEW n \in Devices, NEW c, Holds(c, n),
         cli' = [cli EXCEPT ![n] = c]
  PROVE  CliVouched'
<1> SUFFICES ASSUME NEW d \in Devices PROVE Holds(cli'[d], d) BY DEF CliVouched
<1>1. cli'[d] = IF d = n THEN c ELSE cli[d] BY DEF CliOK
<1> QED BY <1>1 DEF CliVouched

LEMMA PendingVouched ==
  ASSUME kicks \in [Devices -> SUBSET PendingKick], KicksVouched, NEW n \in Devices,
         NEW ks, \A k \in ks : k.target \in Circle[n], kicks' = [kicks EXCEPT ![n] = ks]
  PROVE  KicksVouched'
<1> SUFFICES ASSUME NEW d \in Devices, NEW k \in kicks'[d] PROVE k.target \in Circle[d]
  BY DEF KicksVouched
<1>1. kicks'[d] = IF d = n THEN ks ELSE kicks[d] OBVIOUS
<1> QED BY <1>1 DEF KicksVouched

LEMMA RosterVouched ==
  ASSUME Vouched, NEW n \in Devices, NEW p \in Devices
  PROVE  Says(Roster(n, p)) /\ Roster(n, p).members \subseteq Circle[n]
BY CircleFacts DEF Vouched, Says, Roster, RosterMsg

LEMMA VouchingInit == Init => Vouching
<1> SUFFICES ASSUME Init PROVE Vouching OBVIOUS
<1>1. Vouched BY CircleFacts DEF Init, Vouched, TrustedOf, IsTrusted
<1>2. KicksVouched /\ NetVouched BY DEF Init, KicksVouched, NetVouched
<1>3. AgentsVouched BY PhasePoints DEF Init, AgentsVouched, Carries
<1>4. CliVouched BY NoKickType DEF Init, CliVouched, Holds, NoStore
<1> QED BY <1>1, <1>2, <1>3, <1>4 DEF Vouching

LEMMA VouchingRound ==
  ASSUME TypeOK, Shape, Vouching, NEW n \in Devices, Round(n)
  PROVE  Vouching'
<1>0. /\ AgentOK /\ CliOK /\ RestOK
      /\ Vouched /\ KicksVouched /\ NetVouched /\ AgentsVouched /\ CliVouched
  BY Parts DEF Vouching
<1>a. store' = store => Vouched' BY <1>0 DEF Vouched, TrustedOf, IsTrusted
<1>b. kicks' = kicks => KicksVouched' BY <1>0 DEF KicksVouched
<1>c. net' = net => NetVouched' BY <1>0 DEF NetVouched
<1>d. cli' = cli => CliVouched' BY <1>0 DEF CliVouched
<1>e. SUFFICES Vouched' /\ KicksVouched' /\ NetVouched' /\ AgentsVouched' /\ CliVouched'
  BY DEF Vouching
<1>f. ASSUME NEW p \in Devices, Handshake(n, p) PROVE Circle[p] \subseteq Circle[n]
  BY <1>0, <1>f, CircleFacts DEF Handshake, Vouched, TrustedOf
<1>1. CASE StartPush(n)
  <2>1. Carries(Pushing(TrustedOf(n), Roster(n, n)), n)
    BY <1>0, RosterVouched, PhasePoints DEF Carries
  <2>2. AgentsVouched' BY <1>1, <1>0, <2>1, AgentVouched DEF StartPush
  <2> QED BY <1>1, <1>a, <1>b, <1>c, <1>d, <2>2 DEF StartPush, disk
<1>2. CASE StartValidate(n)
  <2>1. Carries(Validating(TrustedOf(n)), n) BY PhasePoints DEF Carries
  <2>2. AgentsVouched' BY <1>2, <1>0, <2>1, AgentVouched DEF StartValidate
  <2> QED BY <1>2, <1>a, <1>b, <1>c, <1>d, <2>2 DEF StartValidate, disk
<1>3. ASSUME NEW p \in Devices, PushTo(n, p)
      PROVE  Vouched' /\ KicksVouched' /\ NetVouched' /\ AgentsVouched' /\ CliVouched'
  <2> DEFINE m == agent[n].msg
             a == Pushing(agent[n].left \ {p}, m)
  <2>1. m.members \subseteq Circle[n] BY <1>3, <1>0 DEF PushTo, AgentsVouched, Carries
  <2>2. Carries(a, n) BY <2>1, PhasePoints DEF Carries
  <2>3. agent' = [agent EXCEPT ![n] = a] BY <1>3 DEF PushTo
  <2>4. AgentsVouched'
    <3> HIDE DEF a
    <3> QED BY <1>0, <2>2, <2>3, AgentVouched
  <2>5. Says(RosterMsg(n, p, m.id, m.members)) BY <2>1 DEF Says, RosterMsg
  <2>6. NetVouched' BY <1>3, <1>0, <2>5 DEF PushTo, Send, NetVouched
  <2> QED BY <1>3, <1>a, <1>b, <1>d, <2>4, <2>6 DEF PushTo, disk
<1>4. ASSUME NEW p \in Devices, PullFrom(n, p)
      PROVE  Vouched' /\ KicksVouched' /\ NetVouched' /\ AgentsVouched' /\ CliVouched'
  <2> DEFINE pulling == Pulling(agent[n].left \ {p}, Roster(p, n))
             dialled == Validating(agent[n].left \ {p})
  <2>1. NetVouched' BY <1>4, <1>0, RosterVouched DEF PullFrom, Send, NetVouched
  <2>2. ASSUME Handshake(n, p), agent' = [agent EXCEPT ![n] = pulling] PROVE AgentsVouched'
    <3>1. Roster(p, n).members \subseteq Circle[n] BY <1>0, <1>f, <2>2, RosterVouched
    <3>2. Carries(pulling, n) BY <3>1, PhasePoints DEF Carries
    <3> HIDE DEF pulling
    <3> QED BY <1>0, <2>2, <3>2, AgentVouched
  <2>3. ASSUME agent' = [agent EXCEPT ![n] = dialled] PROVE AgentsVouched'
    <3>1. Carries(dialled, n) BY PhasePoints DEF Carries
    <3> HIDE DEF dialled
    <3> QED BY <1>0, <2>3, <3>1, AgentVouched
  <2>4. AgentsVouched' BY <1>4, <2>2, <2>3 DEF PullFrom
  <2> QED BY <1>4, <1>a, <1>b, <1>d, <2>1, <2>4 DEF PullFrom, disk
<1>5. ASSUME NEW p \in Devices, LeaveTo(n, p)
      PROVE  Vouched' /\ KicksVouched' /\ NetVouched' /\ AgentsVouched' /\ CliVouched'
  <2>1. NetVouched' BY <1>5, <1>0 DEF LeaveTo, Send, NetVouched, Says
  <2>2. \A round, left, keep : Carries(Leaving(round, left, keep), n)
    BY PhasePoints DEF Carries
  <2>3. AgentsVouched' BY <1>5, <1>0, <2>2, AgentVouched DEF LeaveTo
  <2> QED BY <1>5, <1>a, <1>b, <1>d, <2>1, <2>3 DEF LeaveTo, disk
<1>6. CASE ApplyPull(n)
  <2>1. agent[n].msg \in RosterMessage BY <1>6, AgentParts DEF ApplyPull
  <2>2. agent[n].msg.members \subseteq Circle[n]
    BY <1>6, <1>0 DEF ApplyPull, AgentsVouched, Carries
  <2>3. Vouched' BY <1>6, <1>0, <2>1, <2>2, MembershipVouched DEF ApplyPull
  <2>4. Carries(Validating(agent[n].left), n) BY PhasePoints DEF Carries
  <2>5. AgentsVouched' BY <1>6, <1>0, <2>4, AgentVouched DEF ApplyPull
  <2> QED BY <1>6, <1>b, <1>c, <1>d, <2>3, <2>5 DEF ApplyPull
<1>7. CASE StartKicks(n)
  <2>1. Carries(Kicking(agent[n].round, Undelivered(n)), n) BY PhasePoints DEF Carries
  <2>2. AgentsVouched' BY <1>7, <1>0, <2>1, AgentVouched DEF StartKicks
  <2> QED BY <1>7, <1>a, <1>b, <1>c, <1>d, <2>2 DEF StartKicks, disk
<1>8. ASSUME NEW k \in agent[n].todo, TrustForNotice(n, k)
      PROVE  Vouched' /\ KicksVouched' /\ NetVouched' /\ AgentsVouched' /\ CliVouched'
  <2>1. Vouched'
    <3>1. CASE store' = store BY <3>1, <1>a
    <3>2. CASE /\ store' = [store EXCEPT ![n][k.target] = "trusted"]
               /\ \E x \in kicks[n] : x.target = k.target
      <4>1. k.target \in Circle[n] BY <1>0, <3>2 DEF KicksVouched
      <4> QED BY <1>0, <3>2, <4>1 DEF RestOK, Stores, Vouched, TrustedOf, IsTrusted
    <3> QED BY <1>8, <3>1, <3>2 DEF TrustForNotice
  <2>2. \A round, todo, m : Carries(Dialling(round, todo, m), n) BY PhasePoints DEF Carries
  <2>3. AgentsVouched' BY <1>8, <1>0, <2>2, AgentVouched DEF TrustForNotice
  <2> QED BY <1>8, <1>b, <1>c, <1>d, <2>1, <2>3 DEF TrustForNotice
<1>9. CASE SendNotice(n)
  <2>1. agent[n].msg \in NoticeMessage BY <1>9, AgentParts DEF SendNotice
  <2>2. Says(agent[n].msg) BY <2>1 DEF NoticeMessage, Says
  <2>3. NetVouched' BY <1>9, <1>0, <2>2 DEF SendNotice, Send, NetVouched
  <2>4. \A round, todo, m : Carries(Sent(round, todo, m), n) /\ Carries(Kicking(round, todo), n)
    BY PhasePoints DEF Carries
  <2>5. AgentsVouched' BY <1>9, <1>0, <2>4, AgentVouched DEF SendNotice
  <2> QED BY <1>9, <1>a, <1>b, <1>d, <2>3, <2>5 DEF SendNotice, disk
<1>10. CASE EndNotice(n)
  <2> DEFINE t == agent[n].msg.to
  <2>1. t \in Devices BY <1>10, AgentParts DEF EndNotice
  <2>2. Vouched' BY <1>10, <1>0, <2>1, RemoveVouched DEF EndNotice
  <2>3. \A k \in MarkDelivered(kicks[n], t) : k.target \in Circle[n]
    BY <1>0, <2>1, KicksTargets DEF RestOK, KicksVouched
  <2>4. KicksVouched' BY <1>10, <1>0, <2>3, PendingVouched DEF EndNotice, RestOK
  <2>5. Carries(Kicking(agent[n].round, agent[n].todo), n) BY PhasePoints DEF Carries
  <2>6. AgentsVouched' BY <1>10, <1>0, <2>5, AgentVouched DEF EndNotice
  <2> QED BY <1>10, <1>c, <1>d, <2>2, <2>4, <2>6 DEF EndNotice
<1>11. CASE StartLeaves(n)
  <2>1. Carries(Leaving(agent[n].round, outbox[n], {}), n) BY PhasePoints DEF Carries
  <2>2. AgentsVouched' BY <1>11, <1>0, <2>1, AgentVouched DEF StartLeaves
  <2> QED BY <1>11, <1>a, <1>b, <1>c, <1>d, <2>2 DEF StartLeaves, disk
<1>12. CASE EndRound(n)
  <2>1. \A k \in GcCompleted(kicks[n]) : k.target \in Circle[n]
    BY <1>0, KicksTargets DEF RestOK, KicksVouched
  <2>2. KicksVouched' BY <1>12, <1>0, <1>b, <2>1, PendingVouched DEF EndRound, RestOK
  <2>3. Carries(Idle, n) BY PhasePoints DEF Carries
  <2>4. AgentsVouched' BY <1>12, <1>0, <2>3, AgentVouched DEF EndRound
  <2> QED BY <1>12, <1>a, <1>c, <1>d, <2>2, <2>4 DEF EndRound
<1> QED
  BY <1>1, <1>2, <1>3, <1>4, <1>5, <1>6, <1>7, <1>8, <1>9, <1>10, <1>11, <1>12 DEF Round

LEMMA VouchingHandle ==
  ASSUME TypeOK, Shape, Vouching, NEW m \in net, Handle(m)
  PROVE  Vouching'
<1>0. /\ AgentOK /\ CliOK /\ RestOK
      /\ Vouched /\ KicksVouched /\ NetVouched /\ AgentsVouched /\ CliVouched
  BY Parts DEF Vouching
<1>a. m \in Message /\ m.to \in Devices /\ m.from \in Devices
  <2>1. m \in Message BY DEF TypeOK
  <2> QED BY <2>1, SessionTypes
<1>b. AgentsVouched' /\ CliVouched' /\ NetVouched'
  BY <1>0 DEF Handle, HandleRoster, HandleKick, HandleNotice, ApplyKickNotice, HandleLeave, Drop,
              AgentsVouched, CliVouched, NetVouched
<1>c. IsTrusted(m.to, m.from) => Circle[m.from] \subseteq Circle[m.to]
  BY <1>0, <1>a, CircleFacts DEF Vouched, TrustedOf
<1>d. Says(m) BY <1>0 DEF NetVouched
<1>e. kicks[m.to] \in SUBSET PendingKick /\ \A k \in kicks[m.to] : k.target \in Circle[m.to]
  BY <1>0, <1>a DEF RestOK, KicksVouched
<1>f. SUFFICES Vouched' /\ KicksVouched' BY <1>b DEF Vouching
<1>1. CASE HandleRoster(m)
  <2>1. m \in RosterMessage BY <1>1, <1>a, SessionTypes DEF HandleRoster
  <2>2. CASE IsTrusted(m.to, m.from) /\ ApplyMembership(m.to, m)
    <3>1. m.members \subseteq Circle[m.to] BY <1>1, <1>c, <1>d, <2>2 DEF HandleRoster, Says
    <3> QED BY <1>1, <1>0, <1>a, <2>1, <2>2, <3>1, MembershipVouched DEF HandleRoster, KicksVouched
  <2>3. CASE store' = store
    BY <1>1, <1>0, <2>3 DEF HandleRoster, KicksVouched, Vouched, TrustedOf, IsTrusted
  <2> QED BY <1>1, <2>2, <2>3 DEF HandleRoster
<1>2. CASE HandleKick(m)
  <2>1. CASE IsTrusted(m.to, m.from)
    <3> DEFINE new == Pending(m.target, m.from, m.expected, {}, FALSE)
               ks == Upsert(kicks[m.to], new)
    <3>1. m \in KickMessage BY <1>2, <1>a, SessionTypes DEF HandleKick
    <3>2. m.target \in Devices /\ m.expected \in SUBSET Devices BY <3>1 DEF KickMessage
    <3>3. m.target \in Circle[m.to] BY <1>2, <1>c, <1>d, <2>1 DEF HandleKick, Says
    <3>4. new \in PendingKick /\ new.target = m.target
      BY <1>a, <3>2, PendingType DEF Pending
    <3>5. \A k \in ks : k.target \in Circle[m.to]
      <4> HIDE DEF new
      <4> QED BY <1>e, <3>3, <3>4, KicksTargets
    <3>6. kicks' = [kicks EXCEPT ![m.to] = ks] BY <1>2, <2>1 DEF HandleKick
    <3>7. KicksVouched'
      <4> HIDE DEF ks
      <4> QED BY <1>0, <1>a, <3>5, <3>6, PendingVouched DEF RestOK
    <3>8. Vouched' BY <1>2, <1>0, <1>a, <2>1, <3>2, RemoveVouched DEF HandleKick
    <3> QED BY <3>7, <3>8
  <2>2. CASE ~IsTrusted(m.to, m.from)
    BY <1>2, <1>0, <2>2 DEF HandleKick, KicksVouched, Vouched, TrustedOf, IsTrusted
  <2> QED BY <2>1, <2>2
<1>3. CASE HandleNotice(m)
  <2>1. Vouched'
    BY <1>3, <1>0, <1>a DEF HandleNotice, ApplyKickNotice, Vouched, TrustedOf, IsTrusted, RestOK, Stores, TrustState
  <2> QED BY <1>3, <1>0, <2>1 DEF HandleNotice, ApplyKickNotice, KicksVouched
<1>4. CASE HandleLeave(m)
  <2> DEFINE marked == MarkDelivered(kicks[m.to], m.from)
             acked == AddAcks(marked, m.from, {m.from})
             ks == GcCompleted(acked)
  <2>1. Vouched' BY <1>4, <1>0, <1>a, RemoveVouched DEF HandleLeave
  <2>2. marked \in SUBSET PendingKick /\ \A k \in marked : k.target \in Circle[m.to]
    BY <1>a, <1>e, KicksType, KicksTargets
  <2>3. acked \in SUBSET PendingKick /\ \A k \in acked : k.target \in Circle[m.to]
    <3> HIDE DEF marked
    <3> QED BY <1>a, <2>2, KicksType, KicksTargets
  <2>4. \A k \in ks : k.target \in Circle[m.to]
    <3> HIDE DEF acked
    <3> QED BY <2>3, KicksTargets
  <2>5. kicks' = [kicks EXCEPT ![m.to] = ks] BY <1>4 DEF HandleLeave
  <2>6. KicksVouched'
    <3> HIDE DEF ks
    <3> QED BY <1>0, <1>a, <2>4, <2>5, PendingVouched DEF RestOK
  <2> QED BY <2>1, <2>6
<1> QED BY <1>1, <1>2, <1>3, <1>4 DEF Handle

LEMMA VouchingKick ==
  ASSUME TypeOK, Shape, Vouching, NEW n \in Devices, Kick(n)
  PROVE  Vouching'
<1> DEFINE c == cli[n]
<1>0. /\ AgentOK /\ CliOK /\ RestOK
      /\ Vouched /\ KicksVouched /\ NetVouched /\ AgentsVouched /\ CliVouched
  BY Parts DEF Vouching
<1>a. Holds(c, n) BY <1>0 DEF CliVouched
<1>b. c.kicks \in SUBSET PendingKick BY CliParts
<1>c. AgentsVouched' BY <1>0 DEF Kick, Notify, Announce, EndKick, AgentsVouched
<1>d. SUFFICES Vouched' /\ KicksVouched' /\ NetVouched' /\ CliVouched' BY <1>c DEF Vouching
<1>1. CASE Notify(n)
  <2> DEFINE all == MarkDelivered(c.kicks, c.target)
  <2>1. c.target \in Devices /\ c.target \in Circle[n]
    BY <1>1, <1>a, CliParts DEF Notify, Holds
  <2>2. \A k \in all : k.target \in Circle[n] BY <1>a, <1>b, <2>1, KicksTargets DEF Holds
  <2>3. ASSUME NEW ks, \A k \in ks : k.target \in Circle[n] PROVE Holds(Announcing(c, ks), n)
    BY <1>a, <2>1, <2>3 DEF Holds, Announcing, Command
  <2> HIDE DEF all
  <2>4. \/ /\ kicks' = [kicks EXCEPT ![n] = all]
           /\ cli' = [cli EXCEPT ![n] = Announcing(c, all)]
        \/ kicks' = kicks /\ cli' = [cli EXCEPT ![n] = Announcing(c, c.kicks)]
    BY <1>1 DEF Notify, all
  <2>5. KicksVouched'
    <3>1. CASE kicks' = kicks BY <1>0, <3>1 DEF KicksVouched
    <3>2. CASE kicks' = [kicks EXCEPT ![n] = all]
      BY <1>0, <2>2, <3>2, PendingVouched DEF RestOK
    <3> QED BY <2>4, <3>1, <3>2
  <2>6. CliVouched'
    <3>1. Holds(Announcing(c, all), n) BY <2>2, <2>3
    <3>2. Holds(Announcing(c, c.kicks), n) BY <1>a, <2>3 DEF Holds
    <3> QED BY <1>0, <2>4, <3>1, <3>2, CommandVouched
  <2>7. NetVouched'
    <3>1. Says(NoticeMsg(n, c.target, n)) BY DEF Says, NoticeMsg
    <3> QED BY <1>1, <1>0, <3>1 DEF Notify, Send, NetVouched
  <2>8. Vouched' BY <1>1, <1>0 DEF Notify, Vouched, TrustedOf, IsTrusted
  <2> QED BY <2>5, <2>6, <2>7, <2>8
<1>2. ASSUME NEW p \in Devices, Announce(n, p)
      PROVE  Vouched' /\ KicksVouched' /\ NetVouched' /\ CliVouched'
  <2> DEFINE next == Command("announce", c.target, c.left \ {p}, c.expected, c.store, c.kicks)
             msg == [kind |-> "kick", from |-> n, to |-> p, target |-> c.target,
                     expected |-> c.expected]
  <2>1. c.target \in Circle[n] BY <1>2, <1>a DEF Announce, Holds
  <2>2. Holds(next, n) BY <1>a, <2>1 DEF Holds, Command
  <2>3. cli' = [cli EXCEPT ![n] = next] BY <1>2 DEF Announce
  <2>4. CliVouched'
    <3> HIDE DEF next
    <3> QED BY <1>0, <2>2, <2>3, CommandVouched
  <2>5. Says(msg) BY <2>1 DEF Says
  <2>6. net' \subseteq net \cup {msg} BY <1>2 DEF Announce, Send
  <2>7. NetVouched'
    <3> HIDE DEF msg
    <3> QED BY <1>0, <2>5, <2>6 DEF NetVouched
  <2> QED
    BY <1>2, <1>0, <2>4, <2>7 DEF Announce, disk, Vouched, TrustedOf, IsTrusted, KicksVouched
<1>3. CASE EndKick(n)
  <2>1. Vouched'
    BY <1>3, <1>0, <1>a DEF EndKick, Holds, Vouched, TrustedOf, IsTrusted, RestOK
  <2>2. Holds(NoKick, n) BY NoKickType DEF Holds, NoStore
  <2>3. CliVouched' BY <1>3, <1>0, <2>2, CommandVouched DEF EndKick
  <2> QED BY <1>3, <1>0, <2>1, <2>3 DEF EndKick, KicksVouched, NetVouched
<1> QED BY <1>1, <1>2, <1>3 DEF Kick

LEMMA VouchingOrders ==
  ASSUME TypeOK, Shape, Vouching, NEW o \in orders, Unlink(o) \/ StartKick(o)
  PROVE  Vouching'
<1>0. /\ AgentOK /\ CliOK /\ RestOK
      /\ Vouched /\ KicksVouched /\ NetVouched /\ AgentsVouched /\ CliVouched
  BY Parts DEF Vouching
<1>a. o.by \in Devices /\ o.target \in Devices BY MeshRosterAssumption DEF TypeOK, Order
<1>b. AgentsVouched' /\ NetVouched'
  BY <1>0 DEF Unlink, StartKick, AgentsVouched, NetVouched
<1>c. SUFFICES Vouched' /\ KicksVouched' /\ CliVouched' BY <1>b DEF Vouching
<1>1. CASE Unlink(o)
  <2>1. Vouched'
    BY <1>1, <1>0, <1>a DEF Unlink, RestOK, Stores, Vouched, TrustedOf, IsTrusted
  <2> QED BY <1>1, <1>0, <2>1 DEF Unlink, KicksVouched, CliVouched
<1>2. CASE StartKick(o)
  <2> DEFINE others == TrustedOf(o.by) \ {o.target}
             new == Pending(o.target, o.by, others, {}, FALSE)
             all == Upsert(kicks[o.by], new)
             c == Command("notify", o.target, others, others, store[o.by], all)
  <2>1. o.target \in Circle[o.by] BY <1>2, <1>0, <1>a DEF StartKick, Vouched, TrustedOf
  <2>2. new \in PendingKick /\ new.target = o.target
    <3>1. others \in SUBSET Devices BY DEF TrustedOf
    <3>2. FALSE \in BOOLEAN /\ {} \in SUBSET Devices OBVIOUS
    <3>3. new.target = o.target BY DEF Pending
    <3> HIDE DEF others
    <3>4. new \in PendingKick BY <1>a, <3>1, <3>2, PendingType, Zenon
    <3> QED BY <3>3, <3>4
  <2>3. \A k \in all : k.target \in Circle[o.by]
    <3> HIDE DEF new
    <3>1. kicks[o.by] \in SUBSET PendingKick /\ \A k \in kicks[o.by] : k.target \in Circle[o.by]
      BY <1>0, <1>a DEF RestOK, KicksVouched
    <3> QED BY <2>1, <2>2, <3>1, KicksTargets
  <2>4. kicks' = [kicks EXCEPT ![o.by] = all] /\ cli' = [cli EXCEPT ![o.by] = c]
    BY <1>2 DEF StartKick
  <2> HIDE DEF all
  <2>5. KicksVouched' BY <1>0, <1>a, <2>3, <2>4, PendingVouched DEF RestOK
  <2>6. Holds(c, o.by)
    <3>1. \A d \in Devices : store[o.by][d] = "trusted" => d \in Circle[o.by]
      BY <1>0, <1>a DEF Vouched, TrustedOf, IsTrusted
    <3> QED BY <2>1, <2>3, <3>1 DEF Holds, Command
  <2> HIDE DEF c
  <2>7. CliVouched' BY <1>0, <1>a, <2>4, <2>6, CommandVouched
  <2> QED BY <1>2, <1>0, <2>5, <2>7 DEF StartKick, Vouched, TrustedOf, IsTrusted
<1> QED BY <1>1, <1>2

LEMMA VouchingFaults ==
  ASSUME TypeOK, Shape, Vouching,
         \/ \E n \in Devices : LosePull(n) \/ Crash(n) \/ QuitKick(n)
         \/ \E m \in net : Lose(m)
  PROVE  Vouching'
<1>0. /\ AgentOK /\ CliOK /\ RestOK
      /\ Vouched /\ KicksVouched /\ NetVouched /\ AgentsVouched /\ CliVouched
  BY Parts DEF Vouching
<1>a. Vouched' /\ KicksVouched' /\ NetVouched'
  BY <1>0 DEF LosePull, Crash, QuitKick, Lose, Drop, disk, Vouched, TrustedOf, IsTrusted,
              KicksVouched, NetVouched
<1>b. SUFFICES AgentsVouched' /\ CliVouched' BY <1>a DEF Vouching
<1>1. ASSUME NEW n \in Devices, LosePull(n) \/ Crash(n) PROVE AgentsVouched' /\ CliVouched'
  <2>1. Carries(Idle, n) /\ Carries(Validating(agent[n].left), n) BY PhasePoints DEF Carries
  <2>2. AgentsVouched' BY <1>1, <1>0, <2>1, AgentVouched DEF LosePull, Crash
  <2> QED BY <1>1, <1>0, <2>2 DEF LosePull, Crash, CliVouched
<1>2. ASSUME NEW n \in Devices, QuitKick(n) PROVE AgentsVouched' /\ CliVouched'
  <2>1. Holds(NoKick, n) BY NoKickType DEF Holds, NoStore
  <2>2. CliVouched' BY <1>2, <1>0, <2>1, CommandVouched DEF QuitKick
  <2> QED BY <1>2, <1>0, <2>2 DEF QuitKick, AgentsVouched
<1>3. ASSUME NEW m \in net, Lose(m) PROVE AgentsVouched' /\ CliVouched'
  BY <1>3, <1>0 DEF Lose, AgentsVouched, CliVouched
<1> QED BY <1>1, <1>2, <1>3

LEMMA RosterStep == RosterInv /\ [Next]_vars => RosterInv'
<1> SUFFICES ASSUME TypeOK, Shape, Vouching, [Next]_vars PROVE (TypeOK /\ Shape)' /\ Vouching'
  BY DEF RosterInv
<1>1. (TypeOK /\ Shape)' BY TypeStep
<1>2. ASSUME Next PROVE Vouching'
  BY <1>2, VouchingRound, VouchingHandle, VouchingKick, VouchingOrders, VouchingFaults DEF Next
<1>3. ASSUME UNCHANGED vars PROVE Vouching'
  BY <1>3 DEF vars, disk, Vouching, Vouched, TrustedOf, IsTrusted, KicksVouched, NetVouched,
              AgentsVouched, CliVouched
<1> QED BY <1>1, <1>2, <1>3

\* However gossip, kicks, retries and faults interleave, in a mesh of any size
\* a device trusts only devices that its links by joining lead to.
THEOREM VouchedHolds == Spec => []Vouched
<1>1. Init => RosterInv BY TypeInit, VouchingInit DEF RosterInv
<1>2. RosterInv /\ [Next]_vars => RosterInv' BY RosterStep
<1>3. RosterInv => Vouched BY DEF RosterInv, Vouching
<1> QED BY <1>1, <1>2, <1>3, PTL DEF Spec

-----------------------------------------------------------------------------
(* Every kick, notice and goodbye goes back to a command that was given.   *)

Given == Orders \ orders

Wanted(D, t, b) == \E o \in D : o.cmd = "kick" /\ o.target = t /\ o.by = b

Asked(ks, D) == \A k \in ks : Wanted(D, k.target, k.by)

\* D holds the commands given, N the devices that had their notice.
Meant(m, D, N) ==
  /\ m.kind = "notice" => Wanted(D, m.to, m.by)
  /\ m.kind = "kick" => Wanted(D, m.target, m.from)
  /\ m.kind = "leave" => m.from \in N

Occupied(a, n, D, N) ==
  /\ Asked(a.todo, D)
  /\ a.at \in {"dial", "sent"} => Wanted(D, a.msg.to, a.msg.by)
  /\ a.at = "leaves" => n \in N

Commanded(c, n, D) ==
  /\ Asked(c.kicks, D)
  /\ c.at # "idle" => Wanted(D, c.target, n)

KicksAsked == \A n \in Devices : Asked(kicks[n], Given)
NetMeant == \A m \in net : Meant(m, Given, noticed)
AgentsOccupied == \A n \in Devices : Occupied(agent[n], n, Given, noticed)
CliCommanded == \A n \in Devices : Commanded(cli[n], n, Given)
LeaversTold ==
  /\ \A n \in noticed : \E b \in Devices : Wanted(Given, n, b)
  /\ \A n \in Devices : outbox[n] # {} => n \in noticed

Ordered == KicksAsked /\ NetMeant /\ AgentsOccupied /\ CliCommanded /\ LeaversTold

\* Later there are more commands and notices.
LEMMA OrderedGrows ==
  ASSUME NEW D, NEW E, D \subseteq E, NEW M, NEW N, M \subseteq N
  PROVE  /\ \A t, b : Wanted(D, t, b) => Wanted(E, t, b)
         /\ \A ks : Asked(ks, D) => Asked(ks, E)
         /\ \A m : Meant(m, D, M) => Meant(m, E, N)
         /\ \A a, n : Occupied(a, n, D, M) => Occupied(a, n, E, N)
         /\ \A c, n : Commanded(c, n, D) => Commanded(c, n, E)
<1>1. \A t, b : Wanted(D, t, b) => Wanted(E, t, b) BY DEF Wanted
<1>2. \A ks : Asked(ks, D) => Asked(ks, E) BY <1>1 DEF Asked
<1> QED BY <1>1, <1>2 DEF Meant, Occupied, Commanded

\* What is done to a set of kicks keeps target and issuer of each.
LEMMA KicksAskedKept ==
  ASSUME NEW ks \in SUBSET PendingKick, NEW D, Asked(ks, D)
  PROVE  /\ \A k \in PendingKick : Wanted(D, k.target, k.by) => Asked(Upsert(ks, k), D)
         /\ \A t \in Devices : Asked(MarkDelivered(ks, t), D)
         /\ \A t \in Devices, who \in SUBSET Devices : Asked(AddAcks(ks, t, who), D)
         /\ Asked(GcCompleted(ks), D)
<1>1. \A k \in PendingKick : Wanted(D, k.target, k.by) => Asked(Upsert(ks, k), D)
  BY DEF Upsert, Asked
<1>2. ASSUME NEW t \in Devices, NEW x \in MarkDelivered(ks, t)
      PROVE  Wanted(D, x.target, x.by)
  <2>1. PICK y \in ks :
          x = IF y.target = t THEN Pending(t, y.by, y.expected, y.acks, TRUE) ELSE y
    BY <1>2 DEF MarkDelivered
  <2>2. x.target = y.target /\ x.by = y.by BY <2>1 DEF Pending
  <2> QED BY <2>2 DEF Asked
<1>3. ASSUME NEW t \in Devices, NEW who \in SUBSET Devices, NEW x \in AddAcks(ks, t, who)
      PROVE  Wanted(D, x.target, x.by)
  <2>1. PICK y \in ks :
          x = IF y.target = t THEN Pending(t, y.by, y.expected, y.acks \cup who, y.delivered)
              ELSE y
    BY <1>3 DEF AddAcks
  <2>2. x.target = y.target /\ x.by = y.by BY <2>1 DEF Pending
  <2> QED BY <2>2 DEF Asked
<1>4. Asked(GcCompleted(ks), D) BY DEF GcCompleted, Asked
<1> QED BY <1>1, <1>2, <1>3, <1>4 DEF Asked

LEMMA PhaseOccupied ==
  ASSUME NEW n, NEW D, NEW N, NEW round, NEW left, NEW keep, NEW todo, NEW m
  PROVE  /\ Occupied(Idle, n, D, N) /\ Occupied(Validating(left), n, D, N)
         /\ Occupied(Pushing(left, m), n, D, N) /\ Occupied(Pulling(left, m), n, D, N)
         /\ Asked(todo, D) => Occupied(Kicking(round, todo), n, D, N)
         /\ Asked(todo, D) /\ Wanted(D, m.to, m.by) =>
              Occupied(Dialling(round, todo, m), n, D, N) /\ Occupied(Sent(round, todo, m), n, D, N)
         /\ n \in N => Occupied(Leaving(round, left, keep), n, D, N)
BY DEF Idle, Validating, Pushing, Pulling, Kicking, Dialling, Sent, Leaving, Phase, Occupied, Asked

LEMMA AgentOccupied ==
  ASSUME AgentOK, AgentsOccupied, UNCHANGED <<orders, noticed>>, NEW n \in Devices,
         NEW a, Occupied(a, n, Given, noticed), agent' = [agent EXCEPT ![n] = a]
  PROVE  AgentsOccupied'
<1>1. Given' = Given /\ noticed' = noticed BY DEF Given
<1> SUFFICES ASSUME NEW d \in Devices PROVE Occupied(agent'[d], d, Given, noticed)
  BY <1>1 DEF AgentsOccupied
<1>2. agent'[d] = IF d = n THEN a ELSE agent[d] BY DEF AgentOK
<1> QED BY <1>2 DEF AgentsOccupied

LEMMA CommandCommanded ==
  ASSUME CliOK, CliCommanded, NEW D, Given' = D, Given \subseteq D, NEW n \in Devices,
         NEW c, Commanded(c, n, D), cli' = [cli EXCEPT ![n] = c]
  PROVE  CliCommanded'
<1> SUFFICES ASSUME NEW d \in Devices PROVE Commanded(cli'[d], d, D) BY DEF CliCommanded
<1>1. cli'[d] = IF d = n THEN c ELSE cli[d] BY DEF CliOK
<1>2. Commanded(cli[d], d, D) BY OrderedGrows DEF CliCommanded
<1> QED BY <1>1, <1>2

LEMMA PendingAsked ==
  ASSUME kicks \in [Devices -> SUBSET PendingKick], KicksAsked, NEW D, Given' = D,
         Given \subseteq D, NEW n \in Devices, NEW ks, Asked(ks, D),
         kicks' = [kicks EXCEPT ![n] = ks]
  PROVE  KicksAsked'
<1> SUFFICES ASSUME NEW d \in Devices PROVE Asked(kicks'[d], D) BY DEF KicksAsked
<1>1. kicks'[d] = IF d = n THEN ks ELSE kicks[d] OBVIOUS
<1>2. Asked(kicks[d], D) BY OrderedGrows DEF KicksAsked
<1> QED BY <1>1, <1>2

LEMMA OrderedInit == Init => Ordered
<1> SUFFICES ASSUME Init PROVE Ordered OBVIOUS
<1>1. KicksAsked /\ NetMeant /\ LeaversTold
  BY DEF Init, KicksAsked, NetMeant, LeaversTold, Asked
<1>2. AgentsOccupied BY PhaseOccupied DEF Init, AgentsOccupied
<1>3. CliCommanded BY NoKickType DEF Init, CliCommanded, Commanded, Asked
<1> QED BY <1>1, <1>2, <1>3 DEF Ordered

LEMMA OrderedRound ==
  ASSUME TypeOK, Shape, Ordered, NEW n \in Devices, Round(n)
  PROVE  Ordered'
<1> DEFINE a == agent[n]
<1>0. /\ AgentOK /\ CliOK /\ RestOK
      /\ KicksAsked /\ NetMeant /\ AgentsOccupied /\ CliCommanded /\ LeaversTold
  BY Parts DEF Ordered
<1>a. /\ UNCHANGED <<orders, noticed, cli>> /\ Given' = Given
  BY DEF Round, StartPush, StartValidate, PushTo, PullFrom, ApplyPull, StartKicks, TrustForNotice,
         SendNotice, EndNotice, StartLeaves, LeaveTo, EndRound, disk, Given
<1>b. kicks' = kicks => KicksAsked' BY <1>0, <1>a DEF KicksAsked
<1>c. net' = net => NetMeant' BY <1>0, <1>a DEF NetMeant
<1>d. outbox' = outbox => LeaversTold' BY <1>0, <1>a DEF LeaversTold
<1>e. CliCommanded' BY <1>0, <1>a DEF CliCommanded
<1>f. SUFFICES KicksAsked' /\ NetMeant' /\ AgentsOccupied' /\ LeaversTold' BY <1>e DEF Ordered
<1>g. /\ Asked(a.todo, Given) /\ Occupied(a, n, Given, noticed)
      /\ Asked(kicks[n], Given) /\ kicks[n] \in SUBSET PendingKick
  BY <1>0 DEF AgentsOccupied, Occupied, KicksAsked, RestOK
<1>h. ASSUME NEW x, Occupied(x, n, Given, noticed), agent' = [agent EXCEPT ![n] = x]
      PROVE  AgentsOccupied'
  BY <1>h, <1>0, <1>a, AgentOccupied
<1>i. ASSUME NEW m, Meant(m, Given, noticed), net' \subseteq net \cup {m} PROVE NetMeant'
  BY <1>i, <1>0, <1>a DEF NetMeant
<1>j. ASSUME NEW p \in Devices, NEW id, NEW ds PROVE Meant(RosterMsg(n, p, id, ds), Given, noticed)
  BY DEF Meant, RosterMsg
<1> HIDE DEF a
<1>1. CASE StartPush(n)
  BY <1>1, <1>b, <1>c, <1>d, <1>h, PhaseOccupied DEF StartPush, disk
<1>2. CASE StartValidate(n)
  BY <1>2, <1>b, <1>c, <1>d, <1>h, PhaseOccupied DEF StartValidate, disk
<1>3. ASSUME NEW p \in Devices, PushTo(n, p)
      PROVE  KicksAsked' /\ NetMeant' /\ AgentsOccupied' /\ LeaversTold'
  <2>1. net' \subseteq net \cup {RosterMsg(n, p, agent[n].msg.id, agent[n].msg.members)}
    BY <1>3 DEF PushTo, Send
  <2>2. NetMeant' BY <2>1, <1>i, <1>j
  <2>3. AgentsOccupied' BY <1>3, <1>h, PhaseOccupied DEF PushTo
  <2> QED BY <1>3, <1>b, <1>d, <2>2, <2>3 DEF PushTo, disk
<1>4. ASSUME NEW p \in Devices, PullFrom(n, p)
      PROVE  KicksAsked' /\ NetMeant' /\ AgentsOccupied' /\ LeaversTold'
  <2>1. net' \subseteq net \cup {Roster(n, p)} BY <1>4 DEF PullFrom, Send
  <2>2. NetMeant' BY <2>1, <1>i, <1>j DEF Roster
  <2>3. AgentsOccupied' BY <1>4, <1>h, PhaseOccupied DEF PullFrom
  <2> QED BY <1>4, <1>b, <1>d, <2>2, <2>3 DEF PullFrom, disk
<1>5. ASSUME NEW p \in Devices, LeaveTo(n, p)
      PROVE  KicksAsked' /\ NetMeant' /\ AgentsOccupied' /\ LeaversTold'
  <2> DEFINE m == [kind |-> "leave", from |-> n, to |-> p]
  <2>1. n \in noticed BY <1>5, <1>g DEF LeaveTo, Occupied, a
  <2>2. net' \subseteq net \cup {m} BY <1>5 DEF LeaveTo, Send
  <2>3. Meant(m, Given, noticed) BY <2>1 DEF Meant
  <2> HIDE DEF m
  <2>4. NetMeant' BY <2>2, <2>3, <1>i
  <2>5. \A round, left, keep : Occupied(Leaving(round, left, keep), n, Given, noticed)
    BY <2>1, PhaseOccupied
  <2>6. \E keep : agent' = [agent EXCEPT ![n] = Leaving(agent[n].round, agent[n].left \ {p}, keep)]
    BY <1>5 DEF LeaveTo
  <2>7. AgentsOccupied' BY <2>5, <2>6, <1>h
  <2> QED BY <1>5, <1>b, <1>d, <2>4, <2>7 DEF LeaveTo, disk
<1>6. CASE ApplyPull(n)
  BY <1>6, <1>b, <1>c, <1>d, <1>h, PhaseOccupied DEF ApplyPull
<1>7. CASE StartKicks(n)
  <2>1. Asked(Undelivered(n), Given) BY <1>g DEF Asked, Undelivered
  <2> QED BY <1>7, <2>1, <1>b, <1>c, <1>d, <1>h, PhaseOccupied DEF StartKicks, disk
<1>8. ASSUME NEW k \in agent[n].todo, TrustForNotice(n, k)
      PROVE  KicksAsked' /\ NetMeant' /\ AgentsOccupied' /\ LeaversTold'
  <2> DEFINE m == NoticeMsg(n, k.target, k.by)
  <2>1. Wanted(Given, m.to, m.by) BY <1>8, <1>g DEF Asked, NoticeMsg, a
  <2>2. Asked(a.todo \ {k}, Given) BY <1>g DEF Asked
  <2>3. agent' = [agent EXCEPT ![n] = Dialling(a.round, a.todo \ {k}, m)]
    BY <1>8 DEF TrustForNotice, a
  <2> HIDE DEF m
  <2>4. AgentsOccupied' BY <2>1, <2>2, <2>3, <1>h, PhaseOccupied
  <2> QED BY <1>8, <1>b, <1>c, <1>d, <2>4 DEF TrustForNotice
<1>9. CASE SendNotice(n)
  <2>1. Wanted(Given, a.msg.to, a.msg.by) BY <1>9, <1>g DEF SendNotice, Occupied, a
  <2>2. a.msg \in NoticeMessage BY <1>9, AgentParts DEF SendNotice, a
  <2>3. Meant(a.msg, Given, noticed) BY <2>1, <2>2 DEF Meant, NoticeMessage
  <2>4. net' \subseteq net \cup {a.msg} BY <1>9 DEF SendNotice, Send, a
  <2>5. \/ agent' = [agent EXCEPT ![n] = Sent(a.round, a.todo, a.msg)]
        \/ agent' = [agent EXCEPT ![n] = Kicking(a.round, a.todo)]
    BY <1>9 DEF SendNotice, a
  <2>6. AgentsOccupied' BY <2>1, <2>5, <1>g, <1>h, PhaseOccupied
  <2>7. NetMeant' BY <2>3, <2>4, <1>i
  <2> QED BY <1>9, <1>b, <1>d, <2>6, <2>7 DEF SendNotice, disk
<1>10. CASE EndNotice(n)
  <2>1. agent[n].msg.to \in Devices BY <1>10, AgentParts DEF EndNotice
  <2>2. Asked(MarkDelivered(kicks[n], agent[n].msg.to), Given) BY <2>1, <1>g, KicksAskedKept
  <2>3. kicks' = [kicks EXCEPT ![n] = MarkDelivered(kicks[n], agent[n].msg.to)]
    BY <1>10 DEF EndNotice
  <2>4. KicksAsked' BY <2>2, <2>3, <1>0, <1>a, PendingAsked DEF RestOK
  <2>5. AgentsOccupied' BY <1>10, <1>g, <1>h, PhaseOccupied DEF EndNotice, a
  <2> QED BY <1>10, <1>c, <1>d, <2>4, <2>5 DEF EndNotice
<1>11. CASE StartLeaves(n)
  <2>1. n \in noticed BY <1>11, <1>0 DEF StartLeaves, LeaversTold
  <2> QED BY <1>11, <2>1, <1>b, <1>c, <1>d, <1>h, PhaseOccupied DEF StartLeaves, disk
<1>12. CASE EndRound(n)
  <2>1. kicks' = kicks \/ kicks' = [kicks EXCEPT ![n] = GcCompleted(kicks[n])]
    BY <1>12 DEF EndRound
  <2>2. KicksAsked' BY <2>1, <1>0, <1>a, <1>b, <1>g, KicksAskedKept, PendingAsked DEF RestOK
  <2>3. LeaversTold'
    <3>1. CASE UNCHANGED outbox BY <3>1, <1>d
    <3>2. CASE /\ agent[n].at = "leaves" /\ agent[n].left = {}
               /\ outbox' = [outbox EXCEPT ![n] = agent[n].keep]
      <4>1. n \in noticed BY <3>2, <1>g DEF Occupied, a
      <4> QED BY <3>2, <4>1, <1>0, <1>a DEF LeaversTold, RestOK
    <3> QED BY <1>12, <3>1, <3>2 DEF EndRound
  <2>4. AgentsOccupied' BY <1>12, <1>h, PhaseOccupied DEF EndRound
  <2> QED BY <1>12, <1>c, <2>2, <2>3, <2>4 DEF EndRound
<1> QED
  BY <1>1, <1>2, <1>3, <1>4, <1>5, <1>6, <1>7, <1>8, <1>9, <1>10, <1>11, <1>12 DEF Round

LEMMA OrderedHandle ==
  ASSUME TypeOK, Shape, Ordered, NEW m \in net, Handle(m)
  PROVE  Ordered'
<1>0. /\ AgentOK /\ CliOK /\ RestOK
      /\ KicksAsked /\ NetMeant /\ AgentsOccupied /\ CliCommanded /\ LeaversTold
  BY Parts DEF Ordered
<1>a. m \in Message /\ m.to \in Devices /\ m.from \in Devices
  <2>1. m \in Message BY DEF TypeOK
  <2> QED BY <2>1, SessionTypes
<1>b. /\ UNCHANGED <<orders, agent, cli>> /\ Given' = Given
      /\ net' \subseteq net /\ noticed \subseteq noticed'
  BY DEF Handle, HandleRoster, HandleKick, HandleNotice, ApplyKickNotice, HandleLeave, Drop, Given
<1>c. NetMeant' /\ AgentsOccupied' /\ CliCommanded'
  BY <1>0, <1>b, OrderedGrows DEF NetMeant, AgentsOccupied, CliCommanded
<1>d. /\ Meant(m, Given, noticed)
      /\ Asked(kicks[m.to], Given) /\ kicks[m.to] \in SUBSET PendingKick
  BY <1>0, <1>a DEF NetMeant, KicksAsked, RestOK
<1>e. UNCHANGED kicks => KicksAsked' BY <1>0, <1>b DEF KicksAsked
<1>f. UNCHANGED <<noticed, outbox>> => LeaversTold' BY <1>0, <1>b DEF LeaversTold
<1>g. ASSUME NEW ks, Asked(ks, Given), kicks' = [kicks EXCEPT ![m.to] = ks] PROVE KicksAsked'
  BY <1>g, <1>0, <1>a, <1>b, PendingAsked DEF RestOK
<1>h. SUFFICES KicksAsked' /\ LeaversTold' BY <1>c DEF Ordered
<1>1. CASE HandleRoster(m) BY <1>1, <1>e, <1>f DEF HandleRoster
<1>2. CASE HandleKick(m)
  <2> DEFINE k == Pending(m.target, m.from, m.expected, {}, FALSE)
  <2>1. m.target \in Devices /\ m.expected \in SUBSET Devices
    <3>1. m \in KickMessage BY <1>2, <1>a, SessionTypes DEF HandleKick
    <3> QED BY <3>1 DEF KickMessage
  <2>2. k \in PendingKick /\ k.target = m.target /\ k.by = m.from
    BY <1>a, <2>1 DEF Pending, PendingKick
  <2>3. Wanted(Given, m.target, m.from) BY <1>2, <1>d DEF Meant, HandleKick
  <2>4. kicks' = kicks \/ kicks' = [kicks EXCEPT ![m.to] = Upsert(kicks[m.to], k)]
    BY <1>2 DEF HandleKick
  <2> HIDE DEF k
  <2>5. Asked(Upsert(kicks[m.to], k), Given) BY <1>d, <2>2, <2>3, KicksAskedKept
  <2>6. KicksAsked' BY <2>4, <2>5, <1>e, <1>g
  <2> QED BY <1>2, <1>f, <2>6 DEF HandleKick
<1>3. CASE HandleNotice(m)
  <2>1. m \in NoticeMessage BY <1>3, <1>a, SessionTypes DEF HandleNotice
  <2>2. m.by \in Devices /\ Wanted(Given, m.to, m.by)
    BY <1>3, <1>d, <2>1 DEF Meant, HandleNotice, NoticeMessage
  <2>3. KicksAsked' BY <1>3, <1>e DEF HandleNotice
  <2>4. CASE UNCHANGED <<noticed, outbox>> BY <2>3, <2>4, <1>f
  <2>5. CASE /\ noticed' = noticed \cup {m.to}
             /\ outbox' = [outbox EXCEPT ![m.to] = TrustedOf(m.to)] \/ UNCHANGED outbox
    <3>1. \A n \in noticed' : \E b \in Devices : Wanted(Given, n, b)
      BY <2>2, <2>5, <1>0 DEF LeaversTold
    <3>2. \A n \in Devices : outbox'[n] # {} => n \in noticed'
      BY <2>5, <1>0, <1>a DEF LeaversTold, RestOK
    <3> QED BY <2>3, <3>1, <3>2, <1>b DEF LeaversTold
  <2> QED BY <1>3, <2>4, <2>5 DEF HandleNotice, ApplyKickNotice
<1>4. CASE HandleLeave(m)
  <2> DEFINE marked == MarkDelivered(kicks[m.to], m.from)
             acked == AddAcks(marked, m.from, {m.from})
  <2>1. marked \in SUBSET PendingKick /\ Asked(marked, Given)
    BY <1>a, <1>d, KicksType, KicksAskedKept
  <2>2. acked \in SUBSET PendingKick /\ Asked(acked, Given)
    <3> HIDE DEF marked
    <3> QED BY <1>a, <2>1, KicksType, KicksAskedKept
  <2>3. Asked(GcCompleted(acked), Given)
    <3> HIDE DEF acked
    <3> QED BY <2>2, KicksAskedKept
  <2>4. kicks' = [kicks EXCEPT ![m.to] = GcCompleted(acked)] BY <1>4 DEF HandleLeave
  <2>5. KicksAsked' BY <2>3, <2>4, <1>g
  <2> QED BY <1>4, <1>f, <2>5 DEF HandleLeave
<1> QED BY <1>1, <1>2, <1>3, <1>4 DEF Handle

LEMMA OrderedKick ==
  ASSUME TypeOK, Shape, Ordered, NEW n \in Devices, Kick(n)
  PROVE  Ordered'
<1> DEFINE c == cli[n]
<1>0. /\ AgentOK /\ CliOK /\ RestOK
      /\ KicksAsked /\ NetMeant /\ AgentsOccupied /\ CliCommanded /\ LeaversTold
  BY Parts DEF Ordered
<1>a. /\ UNCHANGED <<orders, noticed, outbox, agent>> /\ Given' = Given
  BY DEF Kick, Notify, Announce, EndKick, disk, Given
<1>b. AgentsOccupied' /\ LeaversTold' BY <1>0, <1>a DEF AgentsOccupied, LeaversTold
<1>c. /\ Asked(c.kicks, Given) /\ c.kicks \in SUBSET PendingKick
      /\ c.at # "idle" => c.target \in Devices /\ Wanted(Given, c.target, n)
  BY <1>0, CliParts DEF CliCommanded, Commanded
<1>d. ASSUME NEW x, Commanded(x, n, Given), cli' = [cli EXCEPT ![n] = x] PROVE CliCommanded'
  BY <1>d, <1>0, <1>a, CommandCommanded
<1>e. ASSUME NEW m, Meant(m, Given, noticed), net' \subseteq net \cup {m} PROVE NetMeant'
  BY <1>e, <1>0, <1>a DEF NetMeant
<1>f. SUFFICES KicksAsked' /\ NetMeant' /\ CliCommanded' BY <1>b DEF Ordered
<1> HIDE DEF c
<1>1. CASE Notify(n)
  <2> DEFINE all == MarkDelivered(c.kicks, c.target)
             m == NoticeMsg(n, c.target, n)
  <2>1. c.target \in Devices /\ Wanted(Given, c.target, n) BY <1>1, <1>c DEF Notify, c
  <2>2. Asked(all, Given) BY <1>c, <2>1, KicksAskedKept
  <2>3. Meant(m, Given, noticed) BY <2>1 DEF Meant, NoticeMsg
  <2>4. \A ks : Asked(ks, Given) => Commanded(Announcing(c, ks), n, Given)
    BY <2>1 DEF Announcing, Command, Commanded
  <2> HIDE DEF m, all
  <2>5. net' \subseteq net \cup {m} BY <1>1 DEF Notify, Send, m, c
  <2>6. \/ /\ kicks' = [kicks EXCEPT ![n] = all]
           /\ cli' = [cli EXCEPT ![n] = Announcing(c, all)]
        \/ kicks' = kicks /\ cli' = [cli EXCEPT ![n] = Announcing(c, c.kicks)]
    BY <1>1 DEF Notify, all, c
  <2>7. NetMeant' BY <2>3, <2>5, <1>e
  <2>8. CASE /\ kicks' = [kicks EXCEPT ![n] = all]
             /\ cli' = [cli EXCEPT ![n] = Announcing(c, all)]
    <3>1. CliCommanded' BY <2>2, <2>4, <2>8, <1>d
    <3>2. KicksAsked' BY <2>2, <2>8, <1>0, <1>a, PendingAsked DEF RestOK
    <3> QED BY <2>7, <3>1, <3>2
  <2>9. CASE kicks' = kicks /\ cli' = [cli EXCEPT ![n] = Announcing(c, c.kicks)]
    <3>1. CliCommanded' BY <2>4, <2>9, <1>c, <1>d
    <3>2. KicksAsked' BY <2>9, <1>0, <1>a DEF KicksAsked
    <3> QED BY <2>7, <3>1, <3>2
  <2> QED BY <2>6, <2>8, <2>9
<1>2. ASSUME NEW p \in Devices, Announce(n, p) PROVE KicksAsked' /\ NetMeant' /\ CliCommanded'
  <2> DEFINE next == Command("announce", c.target, c.left \ {p}, c.expected, c.store, c.kicks)
             m == [kind |-> "kick", from |-> n, to |-> p, target |-> c.target,
                   expected |-> c.expected]
  <2>1. Wanted(Given, c.target, n) BY <1>2, <1>c DEF Announce, c
  <2>2. Commanded(next, n, Given) BY <1>c, <2>1 DEF Command, Commanded
  <2>3. Meant(m, Given, noticed) BY <2>1 DEF Meant
  <2>4. cli' = [cli EXCEPT ![n] = next] BY <1>2 DEF Announce, c
  <2>5. net' \subseteq net \cup {m} BY <1>2 DEF Announce, Send, c
  <2> HIDE DEF next, m
  <2>6. NetMeant' /\ CliCommanded' BY <2>2, <2>3, <2>4, <2>5, <1>d, <1>e
  <2>7. KicksAsked' BY <1>2, <1>0, <1>a DEF Announce, disk, KicksAsked
  <2> QED BY <2>6, <2>7
<1>3. CASE EndKick(n)
  <2>1. Commanded(NoKick, n, Given) BY NoKickType DEF Commanded, Asked
  <2>2. CliCommanded' BY <1>3, <2>1, <1>d DEF EndKick
  <2> QED BY <1>3, <1>0, <1>a, <2>2 DEF EndKick, KicksAsked, NetMeant
<1> QED BY <1>1, <1>2, <1>3 DEF Kick

LEMMA OrderedOrders ==
  ASSUME TypeOK, Shape, Ordered, NEW o \in orders, Unlink(o) \/ StartKick(o)
  PROVE  Ordered'
<1>0. /\ AgentOK /\ CliOK /\ RestOK
      /\ KicksAsked /\ NetMeant /\ AgentsOccupied /\ CliCommanded /\ LeaversTold
  BY Parts DEF Ordered
<1>a. o \in Orders /\ o.by \in Devices /\ o.target \in Devices
  BY MeshRosterAssumption DEF TypeOK, Order
<1>b. UNCHANGED <<noticed, outbox, agent, net>> /\ orders' = orders \ {o}
  BY DEF Unlink, StartKick
<1>c. Given \subseteq Given' /\ o \in Given' BY <1>a, <1>b DEF Given
<1>d. NetMeant' /\ AgentsOccupied'
  BY <1>0, <1>b, <1>c, OrderedGrows DEF NetMeant, AgentsOccupied
<1>e. LeaversTold'
  <2>1. \A n \in noticed : \E b \in Devices : Wanted(Given', n, b)
    BY <1>0, <1>c, OrderedGrows DEF LeaversTold
  <2> QED BY <2>1, <1>0, <1>b DEF LeaversTold
<1>f. SUFFICES KicksAsked' /\ CliCommanded' BY <1>d, <1>e DEF Ordered
<1>1. CASE Unlink(o)
  BY <1>1, <1>0, <1>c, OrderedGrows DEF Unlink, KicksAsked, CliCommanded
<1>2. CASE StartKick(o)
  <2> DEFINE others == TrustedOf(o.by) \ {o.target}
             new == Pending(o.target, o.by, others, {}, FALSE)
             all == Upsert(kicks[o.by], new)
             c == Command("notify", o.target, others, others, store[o.by], all)
  <2>1. Wanted(Given', o.target, o.by) BY <1>2, <1>c DEF StartKick, Wanted
  <2>2. new \in PendingKick /\ new.target = o.target /\ new.by = o.by
    BY <1>a DEF Pending, PendingKick, TrustedOf
  <2>3. kicks[o.by] \in SUBSET PendingKick /\ Asked(kicks[o.by], Given')
    BY <1>0, <1>a, <1>c, OrderedGrows DEF RestOK, KicksAsked
  <2>4. kicks' = [kicks EXCEPT ![o.by] = all] /\ cli' = [cli EXCEPT ![o.by] = c]
    BY <1>2 DEF StartKick
  <2>5. Asked(all, Given')
    <3> HIDE DEF new
    <3> QED BY <2>1, <2>2, <2>3, KicksAskedKept
  <2> HIDE DEF all
  <2>6. Commanded(c, o.by, Given') BY <2>1, <2>5 DEF Commanded, Command
  <2> HIDE DEF c
  <2>7. KicksAsked' BY <1>0, <1>a, <1>c, <2>4, <2>5, PendingAsked DEF RestOK
  <2>8. CliCommanded' BY <1>0, <1>a, <1>c, <2>4, <2>6, CommandCommanded
  <2> QED BY <2>7, <2>8
<1> QED BY <1>1, <1>2

LEMMA OrderedFaults ==
  ASSUME TypeOK, Shape, Ordered,
         \/ \E n \in Devices : LosePull(n) \/ Crash(n) \/ QuitKick(n)
         \/ \E m \in net : Lose(m)
  PROVE  Ordered'
<1>0. /\ AgentOK /\ CliOK /\ RestOK
      /\ KicksAsked /\ NetMeant /\ AgentsOccupied /\ CliCommanded /\ LeaversTold
  BY Parts DEF Ordered
<1>a. UNCHANGED <<disk, orders>> /\ net' \subseteq net /\ Given' = Given
  BY DEF LosePull, Crash, QuitKick, Lose, Drop, Given
<1>b. KicksAsked' /\ NetMeant' /\ LeaversTold'
  BY <1>0, <1>a DEF disk, KicksAsked, NetMeant, LeaversTold
<1>c. SUFFICES AgentsOccupied' /\ CliCommanded' BY <1>b DEF Ordered
<1>d. UNCHANGED cli => CliCommanded' BY <1>0, <1>a DEF CliCommanded
<1>e. UNCHANGED agent => AgentsOccupied' BY <1>0, <1>a DEF disk, AgentsOccupied
<1>1. ASSUME NEW n \in Devices, LosePull(n) \/ Crash(n) PROVE AgentsOccupied' /\ CliCommanded'
  <2>1. AgentsOccupied'
    BY <1>1, <1>0, <1>a, PhaseOccupied, AgentOccupied DEF LosePull, Crash, disk
  <2> QED BY <1>1, <1>d, <2>1 DEF LosePull, Crash
<1>2. ASSUME NEW n \in Devices, QuitKick(n) PROVE AgentsOccupied' /\ CliCommanded'
  <2>1. Commanded(NoKick, n, Given) BY NoKickType DEF Commanded, Asked
  <2>2. CliCommanded' BY <1>2, <1>0, <1>a, <2>1, CommandCommanded DEF QuitKick
  <2> QED BY <1>2, <1>e, <2>2 DEF QuitKick
<1>3. ASSUME NEW m \in net, Lose(m) PROVE AgentsOccupied' /\ CliCommanded'
  BY <1>3, <1>d, <1>e DEF Lose
<1> QED BY <1>1, <1>2, <1>3

LEMMA OrderedStep == TypeOK /\ Shape /\ Ordered /\ [Next]_vars => Ordered'
<1> SUFFICES ASSUME TypeOK, Shape, Ordered, [Next]_vars PROVE Ordered' OBVIOUS
<1>1. ASSUME Next PROVE Ordered'
  BY <1>1, OrderedRound, OrderedHandle, OrderedKick, OrderedOrders, OrderedFaults DEF Next
<1>2. ASSUME UNCHANGED vars PROVE Ordered'
  BY <1>2 DEF vars, disk, Ordered, KicksAsked, NetMeant, AgentsOccupied, CliCommanded,
              LeaversTold, Given
<1> QED BY <1>1, <1>2

-----------------------------------------------------------------------------
(* A kick touches nobody else.                                             *)

\* A command writes back the records it read, so those keep the trust as well.
Keeps(n, d) ==
  IsTrusted(n, d) /\ (cli[n].at # "idle" => cli[n].store[d] = "trusted")

\* Only its own notice makes a device forget one that no command was about.
Sparing ==
  \A n \in Devices, d \in Devices \ Targets :
    InitStore[n][d] = "trusted" => n \in noticed \/ Keeps(n, d)

SparingInv == TypeOK /\ Shape /\ Ordered /\ Sparing

LEMMA WantedTargets ==
  /\ \A t, b : Wanted(Given, t, b) => t \in Targets
  /\ Ordered => noticed \subseteq Targets
<1>1. \A t, b : Wanted(Given, t, b) => t \in Targets BY DEF Wanted, Given, Targets
<1> QED BY <1>1 DEF Ordered, LeaversTold

\* A step spares the others when it takes no trust of theirs away.
LEMMA SparingKept ==
  ASSUME Sparing, Targets \subseteq Targets', noticed \subseteq noticed',
         \A n \in Devices, d \in Devices \ Targets' :
           Keeps(n, d) => n \in noticed' \/ Keeps(n, d)'
  PROVE  Sparing'
<1> SUFFICES ASSUME NEW n \in Devices, NEW d \in Devices \ Targets',
                    InitStore[n][d] = "trusted"
             PROVE  n \in noticed' \/ Keeps(n, d)'
  BY DEF Sparing
<1>1. n \in noticed \/ Keeps(n, d) BY DEF Sparing
<1> QED BY <1>1

LEMMA MembershipSpares ==
  ASSUME TypeOK, NEW n \in Devices, NEW m, ApplyMembership(n, m),
         NEW x \in Devices, NEW d \in Devices, store[x][d] = "trusted"
  PROVE  store'[x][d] = "trusted"
BY DEF TypeOK, ApplyMembership, Stores

LEMMA RemoveSpares ==
  ASSUME TypeOK, NEW n \in Devices, NEW t \in Devices, Remove(n, t),
         NEW x \in Devices, NEW d \in Devices, store[x][d] = "trusted", d # t
  PROVE  store'[x][d] = "trusted"
BY DEF TypeOK, Remove, Stores

LEMMA SparingRound ==
  ASSUME TypeOK, Shape, Ordered, Sparing, NEW n \in Devices, Round(n)
  PROVE  Sparing'
<1>0. AgentOK /\ CliOK /\ RestOK /\ AgentsOccupied BY Parts DEF Ordered
<1>a. UNCHANGED <<orders, cli, noticed>> /\ Targets' = Targets
  BY DEF Round, StartPush, StartValidate, PushTo, PullFrom, ApplyPull, StartKicks, TrustForNotice,
         SendNotice, EndNotice, StartLeaves, LeaveTo, EndRound, disk, Targets
<1> SUFFICES ASSUME NEW x \in Devices, NEW d \in Devices \ Targets,
                    store[x][d] = "trusted"
             PROVE  store'[x][d] = "trusted"
  BY <1>a, SparingKept DEF Keeps, IsTrusted
<1>1. CASE UNCHANGED store BY <1>1
<1>2. CASE ApplyPull(n) BY <1>2, MembershipSpares DEF ApplyPull
<1>3. ASSUME NEW k \in agent[n].todo, TrustForNotice(n, k) PROVE store'[x][d] = "trusted"
  BY <1>3, <1>0 DEF TrustForNotice, RestOK, Stores
<1>4. CASE EndNotice(n)
  <2>1. agent[n].msg.to \in Devices BY <1>4, AgentParts DEF EndNotice
  <2>2. agent[n].msg.to \in Targets
    BY <1>4, <1>0, WantedTargets DEF EndNotice, AgentsOccupied, Occupied
  <2> QED BY <1>4, <2>1, <2>2, RemoveSpares DEF EndNotice
<1> QED
  BY <1>1, <1>2, <1>3, <1>4 DEF Round, StartPush, StartValidate, PushTo, PullFrom, StartKicks,
     SendNotice, StartLeaves, LeaveTo, EndRound, disk

LEMMA SparingHandle ==
  ASSUME TypeOK, Shape, Ordered, Sparing, NEW m \in net, Handle(m)
  PROVE  Sparing'
<1>0. AgentOK /\ CliOK /\ RestOK /\ Meant(m, Given, noticed) BY Parts DEF Ordered, NetMeant
<1>a. m \in Message /\ m.to \in Devices /\ m.from \in Devices
  <2>1. m \in Message BY DEF TypeOK
  <2> QED BY <2>1, SessionTypes
<1>b. UNCHANGED <<orders, cli>> /\ Targets' = Targets /\ noticed \subseteq noticed'
  BY DEF Handle, HandleRoster, HandleKick, HandleNotice, ApplyKickNotice, HandleLeave, Targets
<1> SUFFICES ASSUME NEW x \in Devices, NEW d \in Devices \ Targets,
                    store[x][d] = "trusted"
             PROVE  x \in noticed' \/ store'[x][d] = "trusted"
  BY <1>b, SparingKept DEF Keeps, IsTrusted
<1>1. CASE HandleRoster(m) BY <1>1, <1>a, MembershipSpares DEF HandleRoster
<1>2. CASE HandleKick(m)
  <2>1. m \in KickMessage BY <1>2, <1>a, SessionTypes DEF HandleKick
  <2>2. m.target \in Devices BY <2>1 DEF KickMessage
  <2>3. m.target \in Targets BY <1>2, <1>0, WantedTargets DEF HandleKick, Meant
  <2>4. Remove(m.to, m.target) \/ store' = store BY <1>2 DEF HandleKick
  <2> QED BY <1>a, <2>2, <2>3, <2>4, RemoveSpares
<1>3. CASE HandleNotice(m)
  BY <1>3, <1>0 DEF HandleNotice, ApplyKickNotice, RestOK
<1>4. CASE HandleLeave(m)
  <2>1. m.from \in Targets BY <1>4, <1>0, WantedTargets DEF HandleLeave, Meant
  <2> QED BY <1>4, <1>a, <2>1, RemoveSpares DEF HandleLeave
<1> QED BY <1>1, <1>2, <1>3, <1>4 DEF Handle

LEMMA SparingKick ==
  ASSUME TypeOK, Shape, Ordered, Sparing, NEW n \in Devices, Kick(n) \/ QuitKick(n)
  PROVE  Sparing'
<1>0. AgentOK /\ CliOK /\ RestOK /\ CliCommanded BY Parts DEF Ordered
<1>a. UNCHANGED <<orders, noticed>> /\ Targets' = Targets
  BY DEF Kick, Notify, Announce, EndKick, QuitKick, disk, Targets
<1>b. cli[n].at # "idle" => cli[n].target \in Targets
  BY <1>0, WantedTargets DEF CliCommanded, Commanded
<1> SUFFICES ASSUME NEW x \in Devices, NEW d \in Devices \ Targets,
                    store[x][d] = "trusted",
                    cli[x].at # "idle" => cli[x].store[d] = "trusted"
             PROVE  /\ store'[x][d] = "trusted"
                    /\ cli'[x].at # "idle" => cli'[x].store[d] = "trusted"
  BY <1>a, SparingKept DEF Keeps, IsTrusted
<1>c. ASSUME NEW c, cli[n].at # "idle", c.store = cli[n].store, cli' = [cli EXCEPT ![n] = c]
      PROVE  cli'[x].at # "idle" => cli'[x].store[d] = "trusted"
  <2>1. cli'[x] = IF x = n THEN c ELSE cli[x] BY <1>c, <1>0 DEF CliOK
  <2> QED BY <1>c, <2>1
<1>d. cli' = [cli EXCEPT ![n] = NoKick] =>
        (cli'[x].at # "idle" => cli'[x].store[d] = "trusted")
  <2>1. cli' = [cli EXCEPT ![n] = NoKick] => cli'[x] = IF x = n THEN NoKick ELSE cli[x]
    BY <1>0 DEF CliOK
  <2> QED BY <2>1, NoKickType
<1>1. CASE Notify(n)
  <2>1. \A ks : Announcing(cli[n], ks).store = cli[n].store BY DEF Announcing, Command
  <2>2. \E ks : cli' = [cli EXCEPT ![n] = Announcing(cli[n], ks)] BY <1>1 DEF Notify
  <2> QED BY <1>1, <1>c, <2>1, <2>2 DEF Notify
<1>2. ASSUME NEW p \in Devices, Announce(n, p)
      PROVE  /\ store'[x][d] = "trusted"
             /\ cli'[x].at # "idle" => cli'[x].store[d] = "trusted"
  <2> DEFINE c == Command("announce", cli[n].target, cli[n].left \ {p}, cli[n].expected,
                          cli[n].store, cli[n].kicks)
  <2>1. c.store = cli[n].store BY DEF Command
  <2>2. cli' = [cli EXCEPT ![n] = c] BY <1>2 DEF Announce
  <2> HIDE DEF c
  <2> QED BY <1>2, <1>c, <2>1, <2>2 DEF Announce, disk
<1>3. CASE EndKick(n)
  <2>1. d # cli[n].target BY <1>3, <1>b DEF EndKick
  <2>2. store'[x][d] = "trusted"
    BY <1>3, <1>0, <2>1 DEF EndKick, RestOK, Stores
  <2> QED BY <1>3, <1>d, <2>2 DEF EndKick
<1>4. CASE QuitKick(n) BY <1>4, <1>d DEF QuitKick, disk
<1> QED BY <1>1, <1>2, <1>3, <1>4 DEF Kick

LEMMA SparingOrders ==
  ASSUME TypeOK, Shape, Sparing, NEW o \in orders, Unlink(o) \/ StartKick(o)
  PROVE  Sparing'
<1>0. AgentOK /\ CliOK /\ RestOK BY Parts
<1>a. o \in Orders /\ o.by \in Devices /\ o.target \in Devices
  BY MeshRosterAssumption DEF TypeOK, Order
<1>b. Targets \subseteq Targets' /\ o.target \in Targets' /\ noticed' = noticed
  BY <1>a DEF Unlink, StartKick, Targets
<1> SUFFICES ASSUME NEW x \in Devices, NEW d \in Devices \ Targets',
                    store[x][d] = "trusted",
                    cli[x].at # "idle" => cli[x].store[d] = "trusted"
             PROVE  /\ store'[x][d] = "trusted"
                    /\ cli'[x].at # "idle" => cli'[x].store[d] = "trusted"
  BY <1>b, SparingKept DEF Keeps, IsTrusted
<1>1. CASE Unlink(o) BY <1>1, <1>0, <1>a, <1>b DEF Unlink, RestOK, Stores
<1>2. CASE StartKick(o)
  <2> DEFINE others == TrustedOf(o.by) \ {o.target}
             all == Upsert(kicks[o.by], Pending(o.target, o.by, others, {}, FALSE))
             c == Command("notify", o.target, others, others, store[o.by], all)
  <2>1. cli' = [cli EXCEPT ![o.by] = c] /\ store' = store BY <1>2 DEF StartKick
  <2>2. c.store = store[o.by] BY DEF Command
  <2> HIDE DEF c
  <2>3. cli'[x] = IF x = o.by THEN c ELSE cli[x] BY <2>1, <1>0 DEF CliOK
  <2> QED BY <2>1, <2>2, <2>3
<1> QED BY <1>1, <1>2

LEMMA SparingInit == Init => Sparing
BY NoKickType DEF Init, Sparing, Keeps, IsTrusted

LEMMA SparingStep == SparingInv /\ [Next]_vars => SparingInv'
<1> SUFFICES ASSUME TypeOK, Shape, Ordered, Sparing, [Next]_vars
             PROVE  (TypeOK /\ Shape)' /\ Ordered' /\ Sparing'
  BY DEF SparingInv
<1>1. (TypeOK /\ Shape)' /\ Ordered' BY TypeStep, OrderedStep
<1>2. UNCHANGED <<store, cli, noticed, orders>> => Sparing'
  <2> SUFFICES ASSUME UNCHANGED <<store, cli, noticed, orders>> PROVE Sparing' OBVIOUS
  <2>1. Targets' = Targets BY DEF Targets
  <2> QED BY <2>1, SparingKept DEF Keeps, IsTrusted
<1>3. ASSUME NEW n \in Devices, LosePull(n) \/ Crash(n) PROVE Sparing'
  BY <1>3, <1>2 DEF LosePull, Crash, disk
<1>4. ASSUME NEW m \in net, Lose(m) PROVE Sparing' BY <1>4, <1>2 DEF Lose, disk
<1>5. ASSUME UNCHANGED vars PROVE Sparing'
  <2>1. UNCHANGED <<store, cli, noticed, orders>> BY <1>5 DEF vars, disk
  <2> QED BY <1>2, <2>1
<1> QED
  BY <1>1, <1>3, <1>4, <1>5, SparingRound, SparingHandle, SparingKick, SparingOrders DEF Next

\* In a mesh of any size, whatever is kicked, unlinked, lost or interrupted, two
\* devices no command was about keep trusting each other as they did.
THEOREM KickSparesOthersHolds == Spec => []KickSparesOthers
<1>1. Init => SparingInv BY TypeInit, OrderedInit, SparingInit DEF SparingInv
<1>2. SparingInv /\ [Next]_vars => SparingInv' BY SparingStep
<1>3. SparingInv => KickSparesOthers
  BY WantedTargets DEF SparingInv, Sparing, Keeps, KickSparesOthers
<1> QED BY <1>1, <1>2, <1>3, PTL DEF Spec

-----------------------------------------------------------------------------
(* A kick counts as delivered only when its notice has gone out.           *)

\* The devices a notice went out to, whatever has become of it.
Reached == noticed \cup missed \cup Notices(net)

Arrived(ks, R) == \A k \in ks : k.delivered => k.target \in R

KicksArrive == \A n \in Devices : Arrived(kicks[n], Reached)
CliArrive == \A n \in Devices : Arrived(cli[n].kicks, Reached)
SentReached == \A n \in Devices : agent[n].at = "sent" => agent[n].msg.to \in Reached

Delivery == KicksArrive /\ CliArrive /\ SentReached

DeliveryInv == TypeOK /\ Shape /\ Ordered /\ Delivery

\* Only what is marked can be delivered newly.
LEMMA KicksArrived ==
  ASSUME NEW ks \in SUBSET PendingKick, NEW R, Arrived(ks, R)
  PROVE  /\ \A k \in PendingKick : ~k.delivered => Arrived(Upsert(ks, k), R)
         /\ \A t \in R : Arrived(MarkDelivered(ks, t), R)
         /\ \A t, who : Arrived(AddAcks(ks, t, who), R)
         /\ Arrived(GcCompleted(ks), R)
<1>1. \A k \in PendingKick : ~k.delivered => Arrived(Upsert(ks, k), R)
  BY DEF Upsert, Arrived
<1>2. ASSUME NEW t \in R, NEW x \in MarkDelivered(ks, t), x.delivered PROVE x.target \in R
  <2>1. PICK y \in ks :
          x = IF y.target = t THEN Pending(t, y.by, y.expected, y.acks, TRUE) ELSE y
    BY <1>2 DEF MarkDelivered
  <2>2. CASE y.target = t BY <2>1, <2>2 DEF Pending
  <2>3. CASE y.target # t BY <1>2, <2>1, <2>3 DEF Arrived
  <2> QED BY <2>2, <2>3
<1>3. ASSUME NEW t, NEW who, NEW x \in AddAcks(ks, t, who), x.delivered PROVE x.target \in R
  <2>1. PICK y \in ks :
          x = IF y.target = t THEN Pending(t, y.by, y.expected, y.acks \cup who, y.delivered)
              ELSE y
    BY <1>3 DEF AddAcks
  <2>2. x.target = y.target /\ x.delivered = y.delivered BY <2>1 DEF Pending
  <2> QED BY <1>3, <2>2 DEF Arrived
<1>4. Arrived(GcCompleted(ks), R) BY DEF GcCompleted, Arrived
<1> QED BY <1>1, <1>2, <1>3, <1>4 DEF Arrived

LEMMA ArrivedGrows ==
  ASSUME NEW R, NEW S, R \subseteq S, NEW ks, Arrived(ks, R)
  PROVE  Arrived(ks, S)
BY DEF Arrived

\* What a notice has gone out to stays so: it is handled, refused or lost.
LEMMA DropReaches ==
  ASSUME NEW cut \in SUBSET net, Drop(cut), noticed' = noticed
  PROVE  Reached \subseteq Reached'
BY DEF Drop, Reached, Notices

LEMMA ReachedGrows ==
  ASSUME [Next]_vars
  PROVE  Reached \subseteq Reached'
<1>1. ASSUME noticed \subseteq noticed', missed \subseteq missed', net \subseteq net'
      PROVE  Reached \subseteq Reached'
  BY <1>1 DEF Reached, Notices
<1>2. ASSUME NEW n \in Devices, Round(n) \/ LosePull(n) \/ Kick(n) \/ QuitKick(n)
      PROVE  Reached \subseteq Reached'
  <2>1. noticed' = noticed /\ missed' = missed /\ net \subseteq net'
    BY <1>2 DEF Round, StartPush, StartValidate, PushTo, PullFrom, ApplyPull, StartKicks,
       TrustForNotice, SendNotice, EndNotice, StartLeaves, LeaveTo, EndRound, LosePull,
       Kick, Notify, Announce, EndKick, QuitKick, Send, disk
  <2> QED BY <1>1, <2>1
<1>3. ASSUME NEW n \in Devices, Crash(n) PROVE Reached \subseteq Reached'
  BY <1>3, DropReaches DEF Crash, disk
<1>4. ASSUME NEW m \in net, Lose(m) PROVE Reached \subseteq Reached'
  BY <1>4, DropReaches DEF Lose, disk
<1>5. ASSUME NEW m \in net, Handle(m) PROVE Reached \subseteq Reached'
  <2>1. CASE HandleRoster(m) \/ HandleKick(m) \/ HandleLeave(m)
    <3>1. /\ noticed' = noticed /\ missed' = missed
          /\ net' = net \ {m} /\ m.kind # "notice"
      BY <2>1 DEF HandleRoster, HandleKick, HandleLeave
    <3> QED BY <3>1 DEF Reached, Notices
  <2>2. CASE HandleNotice(m)
    <3>1. \/ noticed' = noticed \cup {m.to} /\ net' = net \ {m} /\ missed' = missed
          \/ noticed' = noticed /\ Drop({m})
      BY <2>2 DEF HandleNotice, ApplyKickNotice
    <3>2. CASE noticed' = noticed \cup {m.to} /\ net' = net \ {m} /\ missed' = missed
      BY <3>2 DEF Reached, Notices
    <3>3. CASE noticed' = noticed /\ Drop({m}) BY <3>3, DropReaches
    <3> QED BY <3>1, <3>2, <3>3
  <2> QED BY <1>5, <2>1, <2>2 DEF Handle
<1>6. ASSUME NEW o \in orders, Unlink(o) \/ StartKick(o) PROVE Reached \subseteq Reached'
  BY <1>1, <1>6 DEF Unlink, StartKick
<1>7. ASSUME UNCHANGED vars PROVE Reached \subseteq Reached'
  <2>1. UNCHANGED <<noticed, missed, net>> BY <1>7 DEF vars, disk
  <2> QED BY <1>1, <2>1
<1> QED BY <1>2, <1>3, <1>4, <1>5, <1>6, <1>7 DEF Next

\* One device's kicks, command or agent change.
LEMMA DeliveryKept ==
  ASSUME TypeOK, Delivery, Reached \subseteq Reached', NEW n \in Devices
  PROVE  /\ UNCHANGED kicks => KicksArrive'
         /\ \A ks : Arrived(ks, Reached') /\ kicks' = [kicks EXCEPT ![n] = ks] => KicksArrive'
         /\ UNCHANGED cli => CliArrive'
         /\ \A c : Arrived(c.kicks, Reached') /\ cli' = [cli EXCEPT ![n] = c] => CliArrive'
         /\ UNCHANGED agent => SentReached'
         /\ \A a : /\ a.at = "sent" => a.msg.to \in Reached'
                   /\ agent' = [agent EXCEPT ![n] = a]
                   => SentReached'
<1>0. /\ kicks \in [Devices -> SUBSET PendingKick] /\ cli \in [Devices -> CliState]
      /\ agent \in [Devices -> AgentState]
      /\ KicksArrive /\ CliArrive /\ SentReached
  BY DEF TypeOK, Delivery
<1>a. \A d \in Devices : Arrived(kicks[d], Reached') /\ Arrived(cli[d].kicks, Reached')
  BY <1>0, ArrivedGrows DEF KicksArrive, CliArrive
<1>1. UNCHANGED kicks => KicksArrive' BY <1>a DEF KicksArrive
<1>2. ASSUME NEW ks, Arrived(ks, Reached'), kicks' = [kicks EXCEPT ![n] = ks]
      PROVE  KicksArrive'
  <2>1. \A d \in Devices : kicks'[d] = IF d = n THEN ks ELSE kicks[d] BY <1>0, <1>2
  <2> QED BY <1>2, <1>a, <2>1 DEF KicksArrive
<1>3. UNCHANGED cli => CliArrive' BY <1>a DEF CliArrive
<1>4. ASSUME NEW c, Arrived(c.kicks, Reached'), cli' = [cli EXCEPT ![n] = c]
      PROVE  CliArrive'
  <2>1. \A d \in Devices : cli'[d] = IF d = n THEN c ELSE cli[d] BY <1>0, <1>4
  <2> QED BY <1>4, <1>a, <2>1 DEF CliArrive
<1>5. UNCHANGED agent => SentReached' BY <1>0 DEF SentReached
<1>6. ASSUME NEW a, a.at = "sent" => a.msg.to \in Reached', agent' = [agent EXCEPT ![n] = a]
      PROVE  SentReached'
  <2>1. \A d \in Devices : agent'[d] = IF d = n THEN a ELSE agent[d] BY <1>0, <1>6
  <2> QED BY <1>0, <1>6, <2>1 DEF SentReached
<1> QED BY <1>1, <1>2, <1>3, <1>4, <1>5, <1>6

LEMMA PhaseAts ==
  ASSUME NEW round, NEW left, NEW keep, NEW todo, NEW m
  PROVE  /\ Idle.at # "sent" /\ Validating(left).at # "sent" /\ Pushing(left, m).at # "sent"
         /\ Pulling(left, m).at # "sent" /\ Kicking(round, todo).at # "sent"
         /\ Dialling(round, todo, m).at # "sent" /\ Leaving(round, left, keep).at # "sent"
         /\ Sent(round, todo, m).msg = m
BY DEF Idle, Validating, Pushing, Pulling, Kicking, Dialling, Sent, Leaving, Phase

LEMMA DeliveryRound ==
  ASSUME TypeOK, Shape, Delivery, Reached \subseteq Reached',
         NEW n \in Devices, Round(n) \/ LosePull(n) \/ Crash(n)
  PROVE  Delivery'
<1>a. kicks[n] \in SUBSET PendingKick /\ Arrived(kicks[n], Reached')
  BY ArrivedGrows DEF TypeOK, Delivery, KicksArrive
<1>b. UNCHANGED cli
  BY DEF Round, StartPush, StartValidate, PushTo, PullFrom, ApplyPull, StartKicks, TrustForNotice,
         SendNotice, EndNotice, StartLeaves, LeaveTo, EndRound, LosePull, Crash
<1>c. CliArrive' BY <1>b, DeliveryKept
<1>d. SUFFICES KicksArrive' /\ SentReached' BY <1>c DEF Delivery
<1>e. ASSUME NEW a, a.at # "sent", agent' = [agent EXCEPT ![n] = a] PROVE SentReached'
  BY <1>e, DeliveryKept
<1>1. CASE SendNotice(n)
  <2> DEFINE a == agent[n]
  <2>1. KicksArrive' BY <1>1, DeliveryKept DEF SendNotice, disk
  <2>2. CASE agent' = [agent EXCEPT ![n] = Kicking(a.round, a.todo)]
    <3> DEFINE b == Kicking(a.round, a.todo)
    <3>1. b.at # "sent" /\ agent' = [agent EXCEPT ![n] = b] BY <2>2, PhaseAts
    <3> HIDE DEF b
    <3> QED BY <2>1, <3>1, <1>e
  <2>3. CASE Send(a.msg) /\ agent' = [agent EXCEPT ![n] = Sent(a.round, a.todo, a.msg)]
    <3>1. a.msg.kind = "notice" BY <1>1, AgentParts DEF SendNotice, NoticeMessage
    <3>2. a.msg.to \in Reached' BY <2>3, <3>1 DEF Send, Reached, Notices
    <3>3. Sent(a.round, a.todo, a.msg).msg = a.msg BY PhaseAts
    <3> DEFINE b == Sent(a.round, a.todo, a.msg)
    <3>4. b.msg.to \in Reached' /\ agent' = [agent EXCEPT ![n] = b] BY <2>3, <3>2, <3>3
    <3> HIDE DEF b
    <3>5. SentReached' BY <3>4, DeliveryKept
    <3> QED BY <2>1, <3>5
  <2> QED BY <1>1, <2>2, <2>3 DEF SendNotice
<1>2. CASE EndNotice(n)
  <2>1. agent[n].msg.to \in Reached' BY <1>2 DEF EndNotice, Delivery, SentReached
  <2>2. Arrived(MarkDelivered(kicks[n], agent[n].msg.to), Reached')
    BY <1>a, <2>1, KicksArrived
  <2>3. kicks' = [kicks EXCEPT ![n] = MarkDelivered(kicks[n], agent[n].msg.to)]
    BY <1>2 DEF EndNotice
  <2> DEFINE a == Kicking(agent[n].round, agent[n].todo)
  <2>4. a.at # "sent" /\ agent' = [agent EXCEPT ![n] = a] BY <1>2, PhaseAts DEF EndNotice
  <2> HIDE DEF a
  <2>5. SentReached' BY <2>4, <1>e
  <2> QED BY <2>2, <2>3, <2>5, DeliveryKept
<1>3. CASE EndRound(n)
  <2>1. Arrived(GcCompleted(kicks[n]), Reached') BY <1>a, KicksArrived
  <2>2. kicks' = kicks \/ kicks' = [kicks EXCEPT ![n] = GcCompleted(kicks[n])]
    BY <1>3 DEF EndRound
  <2>3. SentReached' BY <1>3, <1>e, PhaseAts DEF EndRound
  <2> QED BY <2>1, <2>2, <2>3, DeliveryKept
<1>4. CASE /\ UNCHANGED kicks
           /\ \E a : a.at # "sent" /\ agent' = [agent EXCEPT ![n] = a]
  BY <1>4, <1>e, DeliveryKept
<1>5. ASSUME NEW p \in Devices, PushTo(n, p) \/ PullFrom(n, p) \/ LeaveTo(n, p)
      PROVE  KicksArrive' /\ SentReached'
  <2>1. CASE PushTo(n, p)
    <3> DEFINE a == Pushing(agent[n].left \ {p}, agent[n].msg)
    <3>1. a.at # "sent" /\ agent' = [agent EXCEPT ![n] = a] BY <2>1, PhaseAts DEF PushTo
    <3> HIDE DEF a
    <3> QED BY <2>1, <3>1, <1>4 DEF PushTo, disk
  <2>2. CASE PullFrom(n, p)
    <3> DEFINE a == Pulling(agent[n].left \ {p}, Roster(p, n))
               b == Validating(agent[n].left \ {p})
    <3>1. a.at # "sent" /\ b.at # "sent" BY PhaseAts
    <3>2. agent' = [agent EXCEPT ![n] = a] \/ agent' = [agent EXCEPT ![n] = b]
      BY <2>2 DEF PullFrom
    <3> HIDE DEF a, b
    <3> QED BY <2>2, <3>1, <3>2, <1>4 DEF PullFrom, disk
  <2>3. CASE LeaveTo(n, p)
    <3> DEFINE a == agent[n]
               b == Leaving(a.round, a.left \ {p}, a.keep)
               c == Leaving(a.round, a.left \ {p}, a.keep \cup {p})
    <3>1. b.at # "sent" /\ c.at # "sent" BY PhaseAts
    <3>2. agent' = [agent EXCEPT ![n] = b] \/ agent' = [agent EXCEPT ![n] = c]
      BY <2>3 DEF LeaveTo
    <3> HIDE DEF b, c
    <3> QED BY <2>3, <3>1, <3>2, <1>4 DEF LeaveTo, disk
  <2> QED BY <1>5, <2>1, <2>2, <2>3
<1>6. ASSUME NEW k \in agent[n].todo, TrustForNotice(n, k) PROVE KicksArrive' /\ SentReached'
  <2> DEFINE a == Dialling(agent[n].round, agent[n].todo \ {k}, NoticeMsg(n, k.target, k.by))
  <2>1. a.at # "sent" /\ agent' = [agent EXCEPT ![n] = a] BY <1>6, PhaseAts DEF TrustForNotice
  <2> HIDE DEF a
  <2> QED BY <1>6, <2>1, <1>4 DEF TrustForNotice
<1>7. CASE StartPush(n) \/ StartValidate(n) \/ LosePull(n)
  <2> DEFINE a == Pushing(TrustedOf(n), Roster(n, n))
             b == Validating(TrustedOf(n))
             c == Validating(agent[n].left)
  <2>1. a.at # "sent" /\ b.at # "sent" /\ c.at # "sent" BY PhaseAts
  <2>2. \/ agent' = [agent EXCEPT ![n] = a]
        \/ agent' = [agent EXCEPT ![n] = b]
        \/ agent' = [agent EXCEPT ![n] = c]
    BY <1>7 DEF StartPush, StartValidate, LosePull
  <2>3. UNCHANGED kicks BY <1>7 DEF StartPush, StartValidate, LosePull, disk
  <2> HIDE DEF a, b, c
  <2> QED BY <2>1, <2>2, <2>3, <1>4
<1>8. CASE ApplyPull(n) \/ StartKicks(n) \/ StartLeaves(n) \/ Crash(n)
  <2> DEFINE a == Validating(agent[n].left)
             b == Kicking(agent[n].round, Undelivered(n))
             c == Leaving(agent[n].round, outbox[n], {})
  <2>1. a.at # "sent" /\ b.at # "sent" /\ c.at # "sent" /\ Idle.at # "sent" BY PhaseAts
  <2>2. \/ agent' = [agent EXCEPT ![n] = a]
        \/ agent' = [agent EXCEPT ![n] = b]
        \/ agent' = [agent EXCEPT ![n] = c]
        \/ agent' = [agent EXCEPT ![n] = Idle]
    BY <1>8 DEF ApplyPull, StartKicks, StartLeaves, Crash
  <2>3. UNCHANGED kicks BY <1>8 DEF ApplyPull, StartKicks, StartLeaves, Crash, disk
  <2> HIDE DEF a, b, c
  <2> QED BY <2>1, <2>2, <2>3, <1>4
<1> QED BY <1>1, <1>2, <1>3, <1>5, <1>6, <1>7, <1>8 DEF Round

LEMMA DeliveryHandle ==
  ASSUME TypeOK, Ordered, Delivery, Reached \subseteq Reached', NEW m \in net, Handle(m)
  PROVE  Delivery'
<1>a. m \in Message /\ m.to \in Devices /\ m.from \in Devices
  <2>1. m \in Message BY DEF TypeOK
  <2> QED BY <2>1, SessionTypes
<1>b. kicks[m.to] \in SUBSET PendingKick /\ Arrived(kicks[m.to], Reached')
  BY <1>a, ArrivedGrows DEF TypeOK, Delivery, KicksArrive
<1>c. UNCHANGED <<agent, cli>> BY DEF Handle, HandleRoster, HandleKick, HandleNotice, HandleLeave
<1>d. CliArrive' /\ SentReached' BY <1>a, <1>c, DeliveryKept
<1>e. SUFFICES KicksArrive' BY <1>d DEF Delivery
<1>1. CASE UNCHANGED kicks BY <1>1, <1>a, DeliveryKept
<1>2. CASE HandleKick(m)
  <2> DEFINE k == Pending(m.target, m.from, m.expected, {}, FALSE)
  <2>1. m.target \in Devices /\ m.expected \in SUBSET Devices
    <3>1. m \in KickMessage BY <1>2, <1>a, SessionTypes DEF HandleKick
    <3> QED BY <3>1 DEF KickMessage
  <2>2. k \in PendingKick /\ ~k.delivered BY <1>a, <2>1 DEF Pending, PendingKick
  <2>3. kicks' = kicks \/ kicks' = [kicks EXCEPT ![m.to] = Upsert(kicks[m.to], k)]
    BY <1>2 DEF HandleKick
  <2> HIDE DEF k
  <2>4. Arrived(Upsert(kicks[m.to], k), Reached') BY <1>b, <2>2, KicksArrived
  <2> QED BY <1>a, <2>3, <2>4, DeliveryKept
<1>3. CASE HandleLeave(m)
  <2> DEFINE marked == MarkDelivered(kicks[m.to], m.from)
             acked == AddAcks(marked, m.from, {m.from})
  <2>1. m.from \in Reached'
    BY <1>3 DEF HandleLeave, Ordered, NetMeant, Meant, Reached
  <2>2. marked \in SUBSET PendingKick /\ Arrived(marked, Reached')
    BY <1>a, <1>b, <2>1, KicksType, KicksArrived
  <2>3. acked \in SUBSET PendingKick /\ Arrived(acked, Reached')
    <3> HIDE DEF marked
    <3> QED BY <1>a, <2>2, KicksType, KicksArrived
  <2>4. Arrived(GcCompleted(acked), Reached')
    <3> HIDE DEF acked
    <3> QED BY <2>3, KicksArrived
  <2>5. kicks' = [kicks EXCEPT ![m.to] = GcCompleted(acked)] BY <1>3 DEF HandleLeave
  <2> QED BY <1>a, <2>4, <2>5, DeliveryKept
<1> QED BY <1>1, <1>2, <1>3 DEF Handle, HandleRoster, HandleNotice

LEMMA DeliveryKick ==
  ASSUME TypeOK, Shape, Delivery, Reached \subseteq Reached',
         NEW n \in Devices, Kick(n) \/ QuitKick(n)
  PROVE  Delivery'
<1> DEFINE c == cli[n]
<1>a. c.kicks \in SUBSET PendingKick /\ Arrived(c.kicks, Reached')
  BY CliParts, ArrivedGrows DEF Delivery, CliArrive
<1>b. UNCHANGED agent BY DEF Kick, Notify, Announce, EndKick, QuitKick
<1>c. SentReached' BY <1>b, DeliveryKept
<1>d. SUFFICES KicksArrive' /\ CliArrive' BY <1>c DEF Delivery
<1>1. CASE Notify(n)
  <2> DEFINE all == MarkDelivered(c.kicks, c.target)
             new == Announcing(c, all)
             same == Announcing(c, c.kicks)
  <2>1. new.kicks = all /\ same.kicks = c.kicks BY DEF Announcing, Command
  <2>2. CASE /\ Send(NoticeMsg(n, c.target, n))
             /\ kicks' = [kicks EXCEPT ![n] = all]
             /\ cli' = [cli EXCEPT ![n] = new]
    <3> DEFINE m == NoticeMsg(n, c.target, n)
    <3>a. m.kind = "notice" /\ m.to = c.target BY DEF NoticeMsg
    <3>b. m \in net' BY <2>2 DEF Send
    <3> HIDE DEF m
    <3>1. c.target \in Reached' BY <3>a, <3>b DEF Reached, Notices
    <3>2. Arrived(all, Reached') BY <1>a, <3>1, KicksArrived
    <3> HIDE DEF all, new
    <3> QED BY <2>1, <2>2, <3>2, DeliveryKept
  <2>3. CASE UNCHANGED kicks /\ cli' = [cli EXCEPT ![n] = same]
    <3> HIDE DEF same
    <3> QED BY <1>a, <2>1, <2>3, DeliveryKept
  <2> QED BY <1>1, <2>2, <2>3 DEF Notify
<1>2. ASSUME NEW p \in Devices, Announce(n, p) PROVE KicksArrive' /\ CliArrive'
  <2> DEFINE next == Command("announce", c.target, c.left \ {p}, c.expected, c.store, c.kicks)
  <2>1. next.kicks = c.kicks BY DEF Command
  <2>2. cli' = [cli EXCEPT ![n] = next] BY <1>2 DEF Announce
  <2>3. UNCHANGED kicks BY <1>2 DEF Announce, disk
  <2> HIDE DEF next
  <2> QED BY <1>a, <2>1, <2>2, <2>3, DeliveryKept
<1>3. CASE EndKick(n) \/ QuitKick(n)
  <2>1. UNCHANGED kicks /\ cli' = [cli EXCEPT ![n] = NoKick]
    BY <1>3 DEF EndKick, QuitKick, disk
  <2>2. Arrived(NoKick.kicks, Reached') BY NoKickType DEF Arrived
  <2> QED BY <2>1, <2>2, DeliveryKept
<1> QED BY <1>1, <1>2, <1>3 DEF Kick

LEMMA DeliveryOrders ==
  ASSUME TypeOK, Delivery, Reached \subseteq Reached',
         NEW o \in orders, Unlink(o) \/ StartKick(o)
  PROVE  Delivery'
<1>a. o.by \in Devices /\ o.target \in Devices BY MeshRosterAssumption DEF TypeOK, Order
<1>b. kicks[o.by] \in SUBSET PendingKick /\ Arrived(kicks[o.by], Reached')
  BY <1>a, ArrivedGrows DEF TypeOK, Delivery, KicksArrive
<1>c. UNCHANGED agent BY DEF Unlink, StartKick
<1>d. SentReached' BY <1>a, <1>c, DeliveryKept
<1>1. CASE Unlink(o) BY <1>1, <1>a, <1>d, DeliveryKept DEF Unlink, Delivery
<1>2. CASE StartKick(o)
  <2> DEFINE others == TrustedOf(o.by) \ {o.target}
             new == Pending(o.target, o.by, others, {}, FALSE)
             all == Upsert(kicks[o.by], new)
             c == Command("notify", o.target, others, others, store[o.by], all)
  <2>1. new \in PendingKick /\ ~new.delivered BY <1>a DEF Pending, PendingKick, TrustedOf
  <2>2. kicks' = [kicks EXCEPT ![o.by] = all] /\ cli' = [cli EXCEPT ![o.by] = c]
    BY <1>2 DEF StartKick
  <2>3. c.kicks = all BY DEF Command
  <2>4. Arrived(all, Reached')
    <3> HIDE DEF new
    <3> QED BY <1>b, <2>1, KicksArrived
  <2> HIDE DEF all, c
  <2> QED BY <1>a, <1>d, <2>2, <2>3, <2>4, DeliveryKept DEF Delivery
<1> QED BY <1>1, <1>2

LEMMA DeliveryStep == DeliveryInv /\ [Next]_vars => DeliveryInv'
<1> SUFFICES ASSUME TypeOK, Shape, Ordered, Delivery, [Next]_vars
             PROVE  (TypeOK /\ Shape)' /\ Ordered' /\ Delivery'
  BY DEF DeliveryInv
<1>1. (TypeOK /\ Shape)' /\ Ordered' BY TypeStep, OrderedStep
<1>2. Reached \subseteq Reached' BY ReachedGrows
<1>3. ASSUME NEW m \in net, Lose(m) PROVE Delivery'
  <2>1. UNCHANGED <<kicks, cli, agent>> BY <1>3 DEF Lose, disk
  <2>2. KicksArrive' /\ CliArrive' /\ SentReached'
    BY <1>2, <2>1, ArrivedGrows DEF Delivery, KicksArrive, CliArrive, SentReached
  <2> QED BY <2>2 DEF Delivery
<1>4. ASSUME UNCHANGED vars PROVE Delivery'
  <2>1. UNCHANGED <<kicks, cli, agent, noticed, missed, net>> BY <1>4 DEF vars, disk
  <2> QED BY <2>1 DEF Delivery, KicksArrive, CliArrive, SentReached, Reached, Notices, Arrived
<1> QED
  BY <1>1, <1>2, <1>3, <1>4, DeliveryRound, DeliveryHandle, DeliveryKick, DeliveryOrders DEF Next

\* In a mesh of any size and under every fault, a pending kick counts as delivered,
\* and is not tried again, only when a notice has gone out to its target: it has
\* had it, it will, or the notice was lost or refused.
THEOREM DeliveredWasSentHolds == Spec => []DeliveredWasSent
<1>1. Init => DeliveryInv
  <2> SUFFICES ASSUME Init PROVE DeliveryInv OBVIOUS
  <2>1. TypeOK /\ Shape /\ Ordered BY TypeInit, OrderedInit
  <2>2. KicksArrive /\ CliArrive BY NoKickType DEF Init, KicksArrive, CliArrive, Arrived
  <2>3. SentReached BY PhaseAts DEF Init, SentReached
  <2> QED BY <2>1, <2>2, <2>3 DEF DeliveryInv, Delivery
<1>2. DeliveryInv /\ [Next]_vars => DeliveryInv' BY DeliveryStep
<1>3. DeliveryInv => DeliveredWasSent
  BY DEF DeliveryInv, Delivery, KicksArrive, Arrived, Reached, DeliveredWasSent
<1> QED BY <1>1, <1>2, <1>3, PTL DEF Spec
=============================================================================
