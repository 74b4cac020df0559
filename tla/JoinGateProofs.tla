--------------------------- MODULE JoinGateProofs ---------------------------
(***************************************************************************)
(* Proofs about the join gate, for every set of devices, sessions and      *)
(* carrier requests, every bound on arming and every set of faults.        *)
(***************************************************************************)
EXTENDS JoinGate, TLAPS

\* A joiner told "accept", or sent the roster, learns that it is trusted.
Good == {"accept", "snapshot"}
Announces(q) == \E i \in 1 .. Len(q) : q[i] \in Good

\* The task has stored the device.
Stored == {"stored", "told", "shared"}

\* Decisions reach only tasks they were meant for.
Approval ==
  /\ \A s \in Sessions :
       pc[s] \in Open /\ decision[Who[s]] = "accept" => s \in ticket
  /\ \A s \in Sessions : verdict[s] = "accept" => s \in ticket
  /\ \A s \in Sessions : pc[s] = "accepting" => verdict[s] = "accept"
  /\ \A j \in trusted : \E s \in ticket : Who[s] = j

\* What the joiner hears of is already on the host's disk.
Storage ==
  /\ \A s \in Sessions : pc[s] \in Stored => Who[s] \in trusted
  /\ \A s \in Sessions : Announces(mail[s]) => Who[s] \in trusted
  /\ linked \subseteq trusted

\* Which tasks have stored a device, and in which arm window.
Windows ==
  /\ \A s \in Sessions : spentIn[s] <= window
  /\ \A s \in Sessions : spentIn[s] # 0 => pc[s] \in Stored \cup {"done", "failed"}
  /\ WindowSpent

GateInv == TypeOK /\ Approval /\ Storage /\ Windows

-----------------------------------------------------------------------------
LEMMA AnnouncesAppend ==
  ASSUME NEW q \in Seq({"accept", "snapshot", "deny"}),
         NEW m \in {"accept", "snapshot", "deny"},
         Announces(Append(q, m))
  PROVE  Announces(q) \/ m \in Good
BY DEF Announces, Good

LEMMA AnnouncesTail ==
  ASSUME NEW q \in Seq({"accept", "snapshot", "deny"}), q # <<>>
  PROVE  /\ Tail(q) \in Seq({"accept", "snapshot", "deny"})
         /\ Announces(Tail(q)) => Announces(q)
         /\ Head(q) \in {"accept", "snapshot", "deny"}
         /\ Head(q) \in Good => Announces(q)
BY DEF Announces, Good

-----------------------------------------------------------------------------
LEMMA PhoneChecked ==
  ASSUME TypeOK, NEW p \in Phones, phone[p].at # "idle"
  PROVE  /\ phone[p].who \in Joiners
         /\ phone[p].says \in Verdicts
         /\ [at |-> "wrote", who |-> phone[p].who, says |-> phone[p].says]
              \in PhoneStates
<1>1. phone[p] \in PhoneStates BY DEF TypeOK
<1>2. phone[p] # IdlePhone BY DEF IdlePhone
<1>3. phone[p] \in [at : {"checked", "wrote"}, who : Joiners, says : Verdicts]
  BY <1>1, <1>2 DEF PhoneStates
<1> QED BY <1>3 DEF PhoneStates

LEMMA MailType ==
  ASSUME TypeOK, NEW s \in Sessions, NEW m \in {"accept", "snapshot", "deny"}
  PROVE  [mail EXCEPT ![s] = Append(@, m)]
           \in [Sessions -> Seq({"accept", "snapshot", "deny"})]
<1>1. mail[s] \in Seq({"accept", "snapshot", "deny"}) BY DEF TypeOK
<1>2. Append(mail[s], m) \in Seq({"accept", "snapshot", "deny"}) BY <1>1
<1> QED BY <1>2 DEF TypeOK

\* Every variable keeps its type.
LEMMA TypeInit == Init => TypeOK
<1> SUFFICES ASSUME Init PROVE TypeOK OBVIOUS
<1>1. \A p \in Phones : phone[p] \in PhoneStates BY DEF Init, PhoneStates
<1>2. phone \in [Phones -> PhoneStates] BY <1>1 DEF Init
<1>3. mail \in [Sessions -> Seq({"accept", "snapshot", "deny"})] BY DEF Init
<1> QED BY <1>2, <1>3 DEF Init, TypeOK, HostPCs, GuestPCs

LEMMA SharingType ==
  ASSUME NEW s \in Sessions
  PROVE  Sharing(s) \subseteq Sessions
BY DEF Sharing, SessionsOf

LEMMA TypeStep == TypeOK /\ [Next]_vars => TypeOK'
<1> USE JoinGateAssumption
<1> SUFFICES ASSUME TypeOK, [Next]_vars PROVE TypeOK' OBVIOUS
<1> USE DEF TypeOK, files, host, joiner, history, Goto, HostPCs, GuestPCs, Open, Ended, Verdicts
<1>1. CASE Arm BY <1>1 DEF Arm
<1>2. CASE Disarm BY <1>2 DEF Disarm
<1>3. ASSUME NEW j \in Joiners, NEW v \in Verdicts, CliDecide(j, v) PROVE TypeOK'
  BY <1>3 DEF CliDecide, WriteDecision, SessionsOf
<1>4. ASSUME NEW p \in Phones, Carrier(p) PROVE TypeOK'
  <2>1. ASSUME NEW j \in Joiners, NEW v \in Verdicts, PairCheck(p, j, v) PROVE TypeOK'
    <3>1. [at |-> "checked", who |-> j, says |-> v] \in PhoneStates BY DEF PhoneStates
    <3> QED BY <2>1, <3>1 DEF PairCheck
  <2>2. CASE PairWrite(p)
    <3>1. phone[p].at # "idle" BY <2>2 DEF PairWrite
    <3> QED BY <2>2, <3>1, PhoneChecked DEF PairWrite, WriteDecision, SessionsOf
  <2>3. CASE PairDrop(p)
    <3>1. IdlePhone \in PhoneStates BY DEF PhoneStates
    <3> QED BY <2>3, <3>1 DEF PairDrop
  <2> QED BY <1>4, <2>1, <2>2, <2>3 DEF Carrier
<1>5. CASE Crash BY <1>5 DEF Crash
<1>6. ASSUME NEW s \in Sessions, Dispatch(s) PROVE TypeOK' BY <1>6 DEF Dispatch
<1>7. ASSUME NEW s \in Sessions, Task(s) PROVE TypeOK'
  <2> USE DEF Refuse, SendThen
  <2>0. \A m \in {"accept", "snapshot", "deny"} :
          [mail EXCEPT ![s] = Append(@, m)]
            \in [Sessions -> Seq({"accept", "snapshot", "deny"})]
    BY MailType
  <2>1. CASE CheckArm(s) BY <2>0, <2>1 DEF CheckArm
  <2>2. CASE ClearStale(s) BY <2>2, SharingType DEF ClearStale
  <2>3. CASE RefuseRequest(s) BY <2>0, <2>3 DEF RefuseRequest
  <2>4. CASE LoseRequest(s) BY <2>4 DEF LoseRequest
  <2>5. CASE WritePending(s) BY <2>5 DEF WritePending
  <2>6. CASE SendPending(s) BY <2>6 DEF SendPending
  <2>7. CASE Poll(s) BY <2>7 DEF Poll, ReadDecision
  <2>8. CASE LastLook(s) BY <2>8 DEF LastLook, ReadDecision
  <2>9. CASE RemoveTaken(s) BY <2>9 DEF RemoveTaken
  <2>11. CASE StoreDevice(s) BY <2>11 DEF StoreDevice
  <2>12. CASE SendAccept(s) BY <2>0, <2>12 DEF SendAccept
  <2>13. CASE SendSnapshot(s) BY <2>0, <2>13 DEF SendSnapshot
  <2>14. CASE DisarmAfterAccept(s) BY <2>14 DEF DisarmAfterAccept
  <2>15. CASE ClearPending(s) BY <2>15 DEF ClearPending
  <2>16. CASE SendDeny(s) BY <2>0, <2>16 DEF SendDeny
  <2> QED BY <1>7, <2>1, <2>2, <2>3, <2>4, <2>5, <2>6, <2>7, <2>8, <2>9, 
             <2>11, <2>12, <2>13, <2>14, <2>15, <2>16 DEF Task
<1>8. ASSUME NEW s \in Sessions, TimeOut(s) \/ PollFails(s) PROVE TypeOK'
  <2>1. CASE TimeOut(s) BY <2>1 DEF TimeOut
  <2>2. CASE PollFails(s) BY <2>2 DEF PollFails
  <2> QED BY <1>8, <2>1, <2>2
<1>9. ASSUME NEW s \in Sessions, GuestDial(s) PROVE TypeOK' BY <1>9 DEF GuestDial
<1>10. ASSUME NEW s \in Sessions, Guest(s) PROVE TypeOK'
  <2>1. CASE GuestReceive(s)
    <3>1. mail[s] \in Seq({"accept", "snapshot", "deny"}) /\ mail[s] # <<>>
      BY <2>1 DEF GuestReceive
    <3>2. Tail(mail[s]) \in Seq({"accept", "snapshot", "deny"}) BY <3>1, AnnouncesTail
    <3>3. mail' \in [Sessions -> Seq({"accept", "snapshot", "deny"})]
      BY <2>1, <3>2 DEF GuestReceive
    <3>4. linked' \subseteq Joiners BY <2>1 DEF GuestReceive
    <3>5. guest' \in [Sessions -> GuestPCs]
      <4>1. \E p \in {"accepted", "linked", "refused", guest[s]} : guest' = [guest EXCEPT ![s] = p]
        BY <2>1 DEF GuestReceive
      <4> QED BY <4>1
    <3> QED BY <2>1, <3>3, <3>4, <3>5 DEF GuestReceive, files, host
  <2>2. CASE GuestSeesClose(s) BY <2>2 DEF GuestSeesClose, GuestStop
  <2> QED BY <1>10, <2>1, <2>2 DEF Guest
<1>11. ASSUME NEW s \in Sessions, GuestQuits(s) PROVE TypeOK'
  BY <1>11 DEF GuestQuits, GuestStop
<1>12. CASE UNCHANGED vars BY <1>12 DEF vars
<1> QED BY <1>1, <1>2, <1>3, <1>4, <1>5, <1>6, <1>7, <1>8, <1>9, <1>10, <1>11, <1>12
        DEF Next, Operator

\* The gate's state is well formed at every moment.
THEOREM TypeCorrect == Spec => []TypeOK
BY TypeInit, TypeStep, PTL DEF Spec

-----------------------------------------------------------------------------
(* An accept reaches only tasks that were open when it was recorded.       *)

LEMMA ApprovalStep == TypeOK /\ Approval /\ [Next]_vars => Approval'
<1> USE JoinGateAssumption
<1> SUFFICES ASSUME TypeOK, Approval, [Next]_vars PROVE Approval' OBVIOUS
<1> USE DEF TypeOK, Approval, files, host, joiner, history, Goto, Open, Ended, Verdicts
<1>0. ASSUME UNCHANGED <<pc, verdict, decision, trusted, ticket>> PROVE Approval'
  BY <1>0
<1>1. CASE Arm BY <1>0, <1>1 DEF Arm
<1>2. CASE Disarm BY <1>0, <1>2 DEF Disarm
<1>3. ASSUME NEW j \in Joiners, NEW v \in Verdicts, WriteDecision(j, v),
             UNCHANGED <<trusted, host>>
      PROVE  Approval'
  BY <1>3 DEF WriteDecision, SessionsOf
<1>4. ASSUME NEW j \in Joiners, NEW v \in Verdicts, CliDecide(j, v) PROVE Approval'
  BY <1>3, <1>4 DEF CliDecide
<1>5. ASSUME NEW p \in Phones, Carrier(p) PROVE Approval'
  <2>1. ASSUME NEW j \in Joiners, NEW v \in Verdicts, PairCheck(p, j, v) PROVE Approval'
    BY <2>1 DEF PairCheck
  <2>2. CASE PairWrite(p)
    <3>1. phone[p].who \in Joiners /\ phone[p].says \in Verdicts
      BY <2>2, PhoneChecked DEF PairWrite
    <3> QED BY <1>3, <2>2, <3>1 DEF PairWrite
  <2>3. CASE PairDrop(p) BY <2>3 DEF PairDrop
  <2> QED BY <1>5, <2>1, <2>2, <2>3 DEF Carrier
<1>6. CASE Crash BY <1>6 DEF Crash
<1>7. ASSUME NEW s \in Sessions, Dispatch(s) PROVE Approval' BY <1>7 DEF Dispatch
<1>8. ASSUME NEW s \in Sessions, Task(s) PROVE Approval'
  <2> USE DEF Refuse, SendThen
  <2>1. CASE CheckArm(s) BY <2>1 DEF CheckArm
  <2>2. CASE ClearStale(s) BY <2>2 DEF ClearStale
  <2>3. CASE RefuseRequest(s) BY <2>3 DEF RefuseRequest
  <2>4. CASE LoseRequest(s) BY <2>4 DEF LoseRequest
  <2>5. CASE WritePending(s) BY <2>5 DEF WritePending
  <2>6. CASE SendPending(s) BY <2>6 DEF SendPending
  <2>a. ASSUME ReadDecision(s), pc[s] \in Open, UNCHANGED <<files, ticket>>
        PROVE  Approval'
    <3>1. \A t \in Sessions \ {s} : pc'[t] = pc[t] /\ verdict'[t] = verdict[t]
      BY <2>a DEF ReadDecision
    <3>2. pc'[s] = "took" /\ verdict'[s] = decision[Who[s]] BY <2>a DEF ReadDecision
    <3>3. verdict'[s] = "accept" => s \in ticket BY <2>a, <3>2
    <3> QED BY <2>a, <3>1, <3>2, <3>3
  <2>7. CASE Poll(s)
    <3>1. CASE ReadDecision(s) BY <2>a, <2>7, <3>1 DEF Poll
    <3>2. CASE Goto(s, "sawOff") /\ UNCHANGED verdict BY <2>7, <3>2 DEF Poll
    <3> QED BY <2>7, <3>1, <3>2 DEF Poll
  <2>8. CASE LastLook(s)
    <3>1. CASE ReadDecision(s) BY <2>a, <2>8, <3>1 DEF LastLook
    <3>2. CASE verdict' = [verdict EXCEPT ![s] = "deny"] /\ Goto(s, "denying")
      BY <2>8, <3>2 DEF LastLook
    <3> QED BY <2>8, <3>1, <3>2 DEF LastLook
  <2>9. CASE RemoveTaken(s) BY <2>9 DEF RemoveTaken
  <2>11. CASE StoreDevice(s) BY <2>11 DEF StoreDevice
  <2>12. CASE SendAccept(s) BY <2>12 DEF SendAccept
  <2>13. CASE SendSnapshot(s) BY <2>13 DEF SendSnapshot
  <2>14. CASE DisarmAfterAccept(s) BY <2>14 DEF DisarmAfterAccept
  <2>15. CASE ClearPending(s) BY <2>15 DEF ClearPending
  <2>16. CASE SendDeny(s) BY <2>16 DEF SendDeny
  <2> QED BY <1>8, <2>1, <2>2, <2>3, <2>4, <2>5, <2>6, <2>7, <2>8, <2>9, 
             <2>11, <2>12, <2>13, <2>14, <2>15, <2>16 DEF Task
<1>9. ASSUME NEW s \in Sessions, TimeOut(s) \/ PollFails(s) PROVE Approval'
  <2>1. CASE TimeOut(s) BY <2>1 DEF TimeOut
  <2>2. CASE PollFails(s) BY <2>2 DEF PollFails
  <2> QED BY <1>9, <2>1, <2>2
<1>10. ASSUME NEW s \in Sessions, GuestDial(s) PROVE Approval' BY <1>10 DEF GuestDial
<1>11. ASSUME NEW s \in Sessions, Guest(s) PROVE Approval'
  BY <1>11 DEF Guest, GuestReceive, GuestSeesClose
<1>12. ASSUME NEW s \in Sessions, GuestQuits(s) PROVE Approval' BY <1>12 DEF GuestQuits
<1>13. CASE UNCHANGED vars BY <1>13 DEF vars
<1> QED BY <1>1, <1>2, <1>4, <1>5, <1>6, <1>7, <1>8, <1>9, <1>10, <1>11, <1>12, <1>13
        DEF Next, Operator

\* No decision left behind or typed ahead ever admits a device.
THEOREM OnlyApprovedHolds == Spec => []OnlyApproved
<1>1. Init => Approval BY DEF Init, Approval, Open
<1>2. Approval => OnlyApproved BY DEF Approval, OnlyApproved
<1> QED BY <1>1, <1>2, ApprovalStep, TypeCorrect, PTL DEF Spec

-----------------------------------------------------------------------------
(* What a joiner hears of is stored before it hears of it.                 *)

\* A frame that may be sent keeps the part of Storage about frames.
LEMMA StorageSend ==
  ASSUME TypeOK, Storage, NEW s \in Sessions,
         NEW m \in {"accept", "snapshot", "deny"},
         m \in Good => Who[s] \in trusted,
         mail' = [mail EXCEPT ![s] = Append(@, m)], trusted' = trusted
  PROVE  \A t \in Sessions : Announces(mail'[t]) => Who[t] \in trusted'
<1> TAKE t \in Sessions
<1>1. CASE t # s BY <1>1 DEF Storage, TypeOK
<1>2. CASE t = s
  <2>1. mail[s] \in Seq({"accept", "snapshot", "deny"}) /\ mail'[s] = Append(mail[s], m)
    BY DEF TypeOK
  <2>2. Announces(mail'[s]) => Announces(mail[s]) \/ m \in Good
    BY <2>1, AnnouncesAppend
  <2> QED BY <1>2, <2>2 DEF Storage
<1> QED BY <1>1, <1>2

LEMMA StorageStep == TypeOK /\ Storage /\ [Next]_vars => Storage'
<1> USE JoinGateAssumption
<1> SUFFICES ASSUME TypeOK, Storage, [Next]_vars PROVE Storage' OBVIOUS
<1> DEFINE Quiet == /\ UNCHANGED <<trusted, linked, mail>>
                    /\ \A t \in Sessions : pc'[t] \in Stored => pc[t] \in Stored
<1> USE DEF Goto, Ended, Open
<1>0. Quiet => Storage' BY DEF Storage
<1>1. CASE Arm BY <1>0, <1>1 DEF Arm, host, joiner
<1>2. CASE Disarm BY <1>0, <1>2 DEF Disarm, host, joiner
<1>3. ASSUME NEW j \in Joiners, NEW v \in Verdicts, CliDecide(j, v) PROVE Storage'
  BY <1>0, <1>3 DEF CliDecide, host, joiner
<1>4. ASSUME NEW p \in Phones, Carrier(p) PROVE Storage'
  BY <1>0, <1>4 DEF Carrier, PairCheck, PairWrite, PairDrop, files, host, joiner
<1>5. CASE Crash BY <1>0, <1>5 DEF Crash, files, joiner, TypeOK, Stored
<1>6. ASSUME NEW s \in Sessions, Dispatch(s) PROVE Storage'
  BY <1>0, <1>6 DEF Dispatch, files, joiner, TypeOK, Stored
<1>7. ASSUME NEW s \in Sessions, Task(s) PROVE Storage'
  <2> USE DEF files, joiner, TypeOK, Stored
  <2>1. ASSUME Refuse(s), UNCHANGED <<files, linked>> PROVE Storage'
    <3>1. \A t \in Sessions : Announces(mail'[t]) => Who[t] \in trusted'
      BY <2>1, StorageSend DEF Refuse, Good, Storage
    <3> QED BY <2>1, <3>1 DEF Refuse, Storage
  <2>2. ASSUME NEW m \in {"accept", "snapshot", "deny"}, NEW at,
               SendThen(s, m, at), UNCHANGED <<files, linked>>,
               m \in Good \/ at \in Stored => Who[s] \in trusted
        PROVE  Storage'
    <3>1. \A t \in Sessions : Announces(mail'[t]) => Who[t] \in trusted'
      BY <2>2, StorageSend DEF SendThen, Storage
    <3> QED BY <2>2, <3>1 DEF SendThen, Storage
  <2>3. CASE CheckArm(s) BY <1>0, <2>1, <2>3 DEF CheckArm
  <2>4. CASE ClearStale(s) BY <1>0, <2>4 DEF ClearStale
  <2>5. CASE RefuseRequest(s) BY <2>1, <2>5 DEF RefuseRequest
  <2>6. CASE LoseRequest(s) BY <1>0, <2>6 DEF LoseRequest
  <2>7. CASE WritePending(s) BY <1>0, <2>7 DEF WritePending
  <2>8. CASE SendPending(s) BY <1>0, <2>8 DEF SendPending
  <2>9. CASE Poll(s) BY <1>0, <2>9 DEF Poll, ReadDecision
  <2>10. CASE LastLook(s) BY <1>0, <2>10 DEF LastLook, ReadDecision
  <2>11. CASE RemoveTaken(s) BY <1>0, <2>11 DEF RemoveTaken
  <2>13. CASE StoreDevice(s) BY <2>13 DEF StoreDevice, Storage
  <2>14. CASE SendAccept(s) BY <2>2, <2>14 DEF SendAccept, Storage
  <2>15. CASE SendSnapshot(s) BY <2>2, <2>15 DEF SendSnapshot, Storage
  <2>16. CASE DisarmAfterAccept(s) BY <1>0, <2>16 DEF DisarmAfterAccept
  <2>17. CASE ClearPending(s) BY <1>0, <2>17 DEF ClearPending
  <2>18. CASE SendDeny(s) BY <2>2, <2>18 DEF SendDeny, Good
  <2> QED BY <1>7, <2>3, <2>4, <2>5, <2>6, <2>7, <2>8, <2>9, <2>10, <2>11, 
             <2>13, <2>14, <2>15, <2>16, <2>17, <2>18 DEF Task
<1>8. ASSUME NEW s \in Sessions, TimeOut(s) \/ PollFails(s) PROVE Storage'
  BY <1>0, <1>8 DEF TimeOut, PollFails, files, joiner, TypeOK, Stored
<1>9. ASSUME NEW s \in Sessions, GuestDial(s) PROVE Storage'
  BY <1>0, <1>9 DEF GuestDial, files, host
<1>10. ASSUME NEW s \in Sessions, Guest(s) PROVE Storage'
  <2>1. CASE GuestReceive(s)
    <3>1. mail[s] \in Seq({"accept", "snapshot", "deny"}) /\ mail[s] # <<>>
      BY <2>1 DEF GuestReceive, TypeOK
    <3>2. Announces(Tail(mail[s])) => Announces(mail[s]) BY <3>1, AnnouncesTail
    <3>3. Head(mail[s]) \in Good => Who[s] \in trusted
      BY <3>1, AnnouncesTail DEF Storage
    <3>4. linked' \subseteq trusted BY <2>1, <3>3 DEF GuestReceive, Storage, Good
    <3>5. /\ mail' = [mail EXCEPT ![s] = Tail(@)] /\ UNCHANGED <<pc, trusted>>
      BY <2>1 DEF GuestReceive, files, host
    <3>6. \A t \in Sessions : Announces(mail'[t]) => Who[t] \in trusted'
      BY <3>2, <3>5 DEF Storage, TypeOK
    <3> QED BY <3>4, <3>5, <3>6 DEF Storage
  <2>2. CASE GuestSeesClose(s) BY <1>0, <2>2 DEF GuestSeesClose, files, host
  <2> QED BY <1>10, <2>1, <2>2 DEF Guest
<1>11. ASSUME NEW s \in Sessions, GuestQuits(s) PROVE Storage'
  <2>1. ~Announces(<<>>) BY DEF Announces
  <2> QED BY <1>11, <2>1 DEF GuestQuits, files, host, Storage, TypeOK
<1>12. CASE UNCHANGED vars BY <1>0, <1>12 DEF vars, files, host, joiner
<1> QED BY <1>1, <1>2, <1>3, <1>4, <1>5, <1>6, <1>7, <1>8, <1>9, <1>10, <1>11, <1>12
        DEF Next, Operator

\* The joiner never stores a host that has not stored it.
THEOREM LinkedBothSidesHolds == Spec => []LinkedBothSides
<1>1. Init => Storage
  <2>1. ~Announces(<<>>) BY DEF Announces
  <2> QED BY <2>1 DEF Init, Storage, Stored
<1>2. Storage => LinkedBothSides BY DEF Storage, LinkedBothSides
<1> QED BY <1>1, <1>2, StorageStep, TypeCorrect, PTL DEF Spec

-----------------------------------------------------------------------------
(* The arm window in which a device was stored is over when its task ends. *)

LEMMA WindowsStep == TypeOK /\ Windows /\ [Next]_vars => Windows'
<1> USE JoinGateAssumption
<1> SUFFICES ASSUME TypeOK, Windows, [Next]_vars PROVE Windows' OBVIOUS
<1> DEFINE Quiet == /\ UNCHANGED <<window, spentIn>>
                    /\ armed' => armed
                    /\ \A t \in Sessions :
                         \/ pc'[t] = pc[t]
                         \/ spentIn[t] = 0
                         \/ pc'[t] \in Stored \cup {"failed"}
                         \/ pc'[t] = "done" /\ ~armed'
<1> USE DEF TypeOK, Goto, Ended, Open, Stored
<1>0. Quiet => Windows' BY DEF Windows, WindowSpent
<1>1. CASE Arm
  <2>1. \A t \in Sessions : spentIn[t] # window' BY <1>1 DEF Arm, Windows
  <2> QED BY <1>1, <2>1 DEF Arm, host, Windows, WindowSpent
<1>2. CASE Disarm BY <1>0, <1>2 DEF Disarm, host
<1>3. ASSUME NEW j \in Joiners, NEW v \in Verdicts, CliDecide(j, v) PROVE Windows'
  BY <1>0, <1>3 DEF CliDecide, host
<1>4. ASSUME NEW p \in Phones, Carrier(p) PROVE Windows'
  BY <1>0, <1>4 DEF Carrier, PairCheck, PairWrite, PairDrop, files, host
<1>5. CASE Crash BY <1>0, <1>5 DEF Crash, files
<1>6. ASSUME NEW s \in Sessions, Dispatch(s) PROVE Windows'
  <2>1. spentIn[s] = 0 BY <1>6 DEF Dispatch, Windows
  <2> QED BY <1>0, <1>6, <2>1 DEF Dispatch, files
<1>7. ASSUME NEW s \in Sessions, Task(s) PROVE Windows'
  <2> USE DEF files, Refuse, SendThen
  <2>0. pc[s] \notin Stored \cup {"done", "failed"} => spentIn[s] = 0 BY DEF Windows
  <2>1. CASE CheckArm(s) BY <1>0, <2>0, <2>1 DEF CheckArm
  <2>2. CASE ClearStale(s) BY <1>0, <2>0, <2>2 DEF ClearStale
  <2>3. CASE RefuseRequest(s) BY <1>0, <2>0, <2>3 DEF RefuseRequest
  <2>4. CASE LoseRequest(s) BY <1>0, <2>0, <2>4 DEF LoseRequest
  <2>5. CASE WritePending(s) BY <1>0, <2>0, <2>5 DEF WritePending
  <2>6. CASE SendPending(s) BY <1>0, <2>0, <2>6 DEF SendPending
  <2>7. CASE Poll(s) BY <1>0, <2>0, <2>7 DEF Poll, ReadDecision
  <2>8. CASE LastLook(s) BY <1>0, <2>0, <2>8 DEF LastLook, ReadDecision
  <2>9. CASE RemoveTaken(s) BY <1>0, <2>0, <2>9 DEF RemoveTaken
  <2>11. CASE StoreDevice(s) BY <2>11 DEF StoreDevice, Windows, WindowSpent
  <2>12. CASE SendAccept(s) BY <1>0, <2>12 DEF SendAccept
  <2>13. CASE SendSnapshot(s) BY <1>0, <2>13 DEF SendSnapshot
  <2>14. CASE DisarmAfterAccept(s) BY <1>0, <2>14 DEF DisarmAfterAccept
  <2>15. CASE ClearPending(s) BY <1>0, <2>0, <2>15 DEF ClearPending
  <2>16. CASE SendDeny(s) BY <1>0, <2>0, <2>16 DEF SendDeny
  <2> QED BY <1>7, <2>1, <2>2, <2>3, <2>4, <2>5, <2>6, <2>7, <2>8, <2>9, 
             <2>11, <2>12, <2>13, <2>14, <2>15, <2>16 DEF Task
<1>8. ASSUME NEW s \in Sessions, TimeOut(s) \/ PollFails(s) PROVE Windows'
  <2>1. spentIn[s] = 0 BY <1>8 DEF TimeOut, PollFails, Windows
  <2> QED BY <1>0, <1>8, <2>1 DEF TimeOut, PollFails, files
<1>9. ASSUME NEW s \in Sessions, GuestDial(s) PROVE Windows'
  BY <1>0, <1>9 DEF GuestDial, files, host
<1>10. ASSUME NEW s \in Sessions, Guest(s) PROVE Windows'
  BY <1>0, <1>10 DEF Guest, GuestReceive, GuestSeesClose, files, host
<1>11. ASSUME NEW s \in Sessions, GuestQuits(s) PROVE Windows'
  BY <1>0, <1>11 DEF GuestQuits, files, host
<1>12. CASE UNCHANGED vars BY <1>0, <1>12 DEF vars, files, host
<1> QED BY <1>1, <1>2, <1>3, <1>4, <1>5, <1>6, <1>7, <1>8, <1>9, <1>10, <1>11, <1>12
        DEF Next, Operator

\* A task that ends normally leaves no trace of the window it used.
THEOREM WindowSpentHolds == Spec => []WindowSpent
<1>1. Init => Windows BY DEF Init, Windows, WindowSpent
<1>2. Windows => WindowSpent BY DEF Windows
<1> QED BY <1>1, <1>2, WindowsStep, TypeCorrect, PTL DEF Spec

-----------------------------------------------------------------------------
(* Each step of the gate is a step of JoinContract or changes nothing it   *)
(* speaks of.                                                              *)

LEMMA ContractStep ==
  TypeOK /\ Approval /\ Storage /\ [Next]_vars
    => [Contract!ContractNext]_(Contract!contractVars)
<1> USE JoinGateAssumption
<1> SUFFICES ASSUME TypeOK, Approval, Storage, [Next]_vars
             PROVE  Contract!ContractNext \/ UNCHANGED <<ticket, trusted, linked>>
  BY DEF Contract!contractVars
<1> USE DEF files, host, joiner, history
<1>1. ASSUME NEW j \in Joiners, NEW v \in Verdicts, WriteDecision(j, v),
             UNCHANGED <<trusted, linked>>
      PROVE  Contract!ContractNext \/ UNCHANGED <<ticket, trusted, linked>>
  <2> DEFINE S == {s \in SessionsOf(j) : pc[s] \in Open}
  <2>1. CASE v = "accept"
    <3>1. S \in SUBSET Sessions /\ \A s \in S : Who[s] = j BY DEF SessionsOf
    <3>2. Contract!Approve(S) BY <1>1, <2>1, <3>1 DEF WriteDecision, Contract!Approve
    <3> QED BY <3>1, <3>2 DEF Contract!ContractNext
  <2>2. CASE v # "accept" BY <1>1, <2>2 DEF WriteDecision
  <2> QED BY <2>1, <2>2
<1>2. ASSUME NEW j \in Joiners, NEW v \in Verdicts, CliDecide(j, v)
      PROVE  Contract!ContractNext \/ UNCHANGED <<ticket, trusted, linked>>
  BY <1>1, <1>2 DEF CliDecide
<1>3. ASSUME NEW p \in Phones, Carrier(p)
      PROVE  Contract!ContractNext \/ UNCHANGED <<ticket, trusted, linked>>
  <2>1. CASE PairWrite(p)
    <3>1. phone[p].who \in Joiners /\ phone[p].says \in Verdicts
      BY <2>1, PhoneChecked DEF PairWrite
    <3> QED BY <1>1, <2>1, <3>1 DEF PairWrite
  <2> QED BY <1>3, <2>1 DEF Carrier, PairCheck, PairDrop
<1>4. ASSUME NEW s \in Sessions, Task(s)
      PROVE  Contract!ContractNext \/ UNCHANGED <<ticket, trusted, linked>>
  <2>1. CASE StoreDevice(s)
    <3>1. s \in ticket BY <2>1 DEF StoreDevice, Approval
    <3>2. Contract!Trust(s) BY <2>1, <3>1 DEF StoreDevice, Contract!Trust
    <3> QED BY <3>2 DEF Contract!ContractNext
  <2>2. CASE ~StoreDevice(s)
    BY <1>4, <2>2 DEF Task, CheckArm, ClearStale, RefuseRequest, LoseRequest,
         WritePending, SendPending, Poll, LastLook, RemoveTaken,
         SendAccept, SendSnapshot, DisarmAfterAccept, ClearPending, SendDeny
  <2> QED BY <2>1, <2>2
<1>5. ASSUME NEW s \in Sessions, Guest(s)
      PROVE  Contract!ContractNext \/ UNCHANGED <<ticket, trusted, linked>>
  <2>1. CASE GuestReceive(s) /\ linked' = linked \cup {Who[s]}
    <3>1. mail[s] \in Seq({"accept", "snapshot", "deny"}) /\ mail[s] # <<>>
      BY <2>1 DEF GuestReceive, TypeOK
    <3>2. CASE Head(mail[s]) \in Good
      <4>1. Who[s] \in trusted BY <3>1, <3>2, AnnouncesTail DEF Storage
      <4>2. Contract!Link(s) BY <2>1, <4>1 DEF GuestReceive, Contract!Link
      <4> QED BY <4>2 DEF Contract!ContractNext
    <3>3. CASE Head(mail[s]) \notin Good
      BY <2>1, <3>3 DEF GuestReceive, Good
    <3> QED BY <3>2, <3>3
  <2>2. CASE GuestReceive(s) /\ UNCHANGED linked BY <2>2 DEF GuestReceive
  <2>3. CASE GuestSeesClose(s) BY <2>3 DEF GuestSeesClose
  <2> QED BY <1>5, <2>1, <2>2, <2>3 DEF Guest, GuestReceive
<1>6. CASE Arm \/ Disarm \/ Crash BY <1>6 DEF Arm, Disarm, Crash
<1>7. ASSUME NEW s \in Sessions,
             Dispatch(s) \/ TimeOut(s) \/ PollFails(s) \/ GuestDial(s) \/ GuestQuits(s)
      PROVE  Contract!ContractNext \/ UNCHANGED <<ticket, trusted, linked>>
  BY <1>7 DEF Dispatch, TimeOut, PollFails, GuestDial, GuestQuits
<1>8. CASE UNCHANGED vars BY <1>8 DEF vars
<1> QED BY <1>2, <1>3, <1>4, <1>5, <1>6, <1>7, <1>8 DEF Next, Operator

\* The gate implements its contract.
THEOREM ImplementsContractHolds == Spec => ImplementsContract
<1>1. Init => Contract!ContractInit BY DEF Init, Contract!ContractInit
<1>2. Init => Approval BY DEF Init, Approval, Open
<1>3. Init => Storage
  <2>1. ~Announces(<<>>) BY DEF Announces
  <2> QED BY <2>1 DEF Init, Storage, Stored
<1> QED BY <1>1, <1>2, <1>3, ApprovalStep, StorageStep, ContractStep, TypeCorrect, PTL
        DEF Spec, ImplementsContract, Contract!ContractSpec

-----------------------------------------------------------------------------
(* Requests that wait can be seen, or are decided.                         *)

\* The task has filed its request and looks for a decision, or will.
Asking == {"cleared", "written", "waiting"}

Decided(s) == decision[Who[s]] # "none"

\* Of tasks that share files all but one have crossed.  The request of one that
\* has not crossed stays until it is decided, and a carrier request that drops
\* it has decided it.
Shown ==
  /\ \A s, t \in Sessions :
       s # t /\ Who[s] = Who[t] /\ pc[s] \in Filed /\ pc[t] \in Filed => s \in crossed
  /\ \A s \in Sessions \ crossed :
       pc[s] \in {"written", "waiting"} => Who[s] \in pending \/ Decided(s)
  /\ \A s \in Sessions \ crossed, p \in Phones :
       pc[s] \in Asking /\ phone[p].at = "wrote" /\ phone[p].who = Who[s] => Decided(s)

LEMMA ShownStep == TypeOK /\ Shown /\ [Next]_vars => Shown'
<1> USE JoinGateAssumption
<1> SUFFICES ASSUME TypeOK, Shown, [Next]_vars PROVE Shown' OBVIOUS
<1> DEFINE Quiet == /\ UNCHANGED <<pending, decision, phone, crossed>>
                    /\ \A t \in Sessions :
                         /\ pc'[t] \in Filed => pc[t] \in Filed
                         /\ pc'[t] \in Asking => pc[t] \in Asking
                         /\ pc'[t] \in {"written", "waiting"} => pc[t] \in {"written", "waiting"}
<1> USE DEF Goto, Ended, Open, Filed, Asking, Decided
<1>0. Quiet => Shown' BY DEF Shown
<1>1. CASE Arm BY <1>0, <1>1 DEF Arm, host, history
<1>2. CASE Disarm BY <1>0, <1>2 DEF Disarm, host, history
<1>3. ASSUME NEW j \in Joiners, NEW v \in Verdicts, CliDecide(j, v) PROVE Shown'
  BY <1>3 DEF CliDecide, WriteDecision, Verdicts, TypeOK, Shown, host
<1>4. ASSUME NEW p \in Phones, Carrier(p) PROVE Shown'
  <2>1. ASSUME NEW j \in Joiners, NEW v \in Verdicts, PairCheck(p, j, v) PROVE Shown'
    <3>1. /\ phone' = [phone EXCEPT ![p] = [at |-> "checked", who |-> j, says |-> v]]
          /\ UNCHANGED <<pending, decision, pc, crossed>>
      BY <2>1 DEF PairCheck, files, host, history
    <3>2. \A q \in Phones : phone'[q] = IF q = p THEN [at |-> "checked", who |-> j, says |-> v]
                                        ELSE phone[q]
      BY <3>1 DEF TypeOK
    <3> QED BY <3>1, <3>2 DEF Shown
  <2>2. CASE PairWrite(p)
    <3>1. /\ phone[p].who \in Joiners /\ phone[p].says \in Verdicts /\ phone[p].at = "checked"
      BY <2>2, PhoneChecked DEF PairWrite
    <3>2. /\ decision' = [decision EXCEPT ![phone[p].who] = phone[p].says]
          /\ UNCHANGED <<pending, pc, crossed>>
      BY <2>2 DEF PairWrite, WriteDecision, host
    <3>3. \A q \in Phones :
            phone'[q] = IF q = p THEN [at |-> "wrote", who |-> phone[p].who, says |-> phone[p].says]
                        ELSE phone[q]
      BY <2>2 DEF PairWrite, TypeOK
    <3>4. \A j \in Joiners : decision'[j] = IF j = phone[p].who THEN phone[p].says ELSE decision[j]
      BY <3>2 DEF TypeOK
    <3>5. phone[p].says # "none" BY <3>1 DEF Verdicts
    <3> QED BY <3>1, <3>2, <3>3, <3>4, <3>5 DEF Shown
  <2>3. CASE PairDrop(p)
    <3>1. /\ phone[p].at = "wrote" /\ pending' = pending \ {phone[p].who}
          /\ UNCHANGED <<decision, pc, crossed>>
      BY <2>3 DEF PairDrop, host, history
    <3>2. \A q \in Phones : phone'[q] = IF q = p THEN IdlePhone ELSE phone[q]
      BY <2>3 DEF PairDrop, TypeOK
    <3> QED BY <3>1, <3>2 DEF Shown, IdlePhone
  <2> QED BY <1>4, <2>1, <2>2, <2>3 DEF Carrier
<1>5. CASE Crash BY <1>0, <1>5 DEF Crash, files, history, TypeOK
<1>6. ASSUME NEW s \in Sessions, Dispatch(s) PROVE Shown'
  BY <1>0, <1>6 DEF Dispatch, files, history, TypeOK
<1>7. ASSUME NEW s \in Sessions, Task(s) PROVE Shown'
  <2> USE DEF files, history, TypeOK
  <2>1. ASSUME UNCHANGED <<phone, crossed>>, NEW e \in {"accepting", "denying", "refusing"},
               pc' = [pc EXCEPT ![s] = e], pc[s] \in Filed,
               pending' = pending \ {Who[s]},
               decision' = [decision EXCEPT ![Who[s]] = "none"]
        PROVE  Shown'
    <3>1. pc'[s] = e /\ \A t \in Sessions : t # s => pc'[t] = pc[t] BY <2>1
    <3>2. \A t \in Sessions : Who[t] # Who[s] =>
            decision'[Who[t]] = decision[Who[t]] /\ (Who[t] \in pending' <=> Who[t] \in pending)
      BY <2>1
    <3>3. \A t \in Sessions \ crossed : pc'[t] \in Asking => Who[t] # Who[s]
      BY <2>1, <3>1 DEF Shown
    <3>4. \A t, u \in Sessions :
            t # u /\ Who[t] = Who[u] /\ pc'[t] \in Filed /\ pc'[u] \in Filed => t \in crossed
      BY <2>1, <3>1 DEF Shown
    <3> QED BY <2>1, <3>1, <3>2, <3>3, <3>4 DEF Shown
  <2>2. CASE CheckArm(s) BY <1>0, <2>2 DEF CheckArm, Refuse
  <2>3. CASE ClearStale(s)
    <3>1. /\ pc[s] = "checked" /\ pc'[s] = "cleared" /\ UNCHANGED <<phone, pending>>
          /\ \A t \in Sessions : t # s => pc'[t] = pc[t]
          /\ crossed' = crossed \cup Sharing(s)
          /\ \A t \in Sessions : Who[t] # Who[s] => decision'[Who[t]] = decision[Who[t]]
      BY <2>3 DEF ClearStale
    <3>2. \A t \in Sessions \ {s} :
            Who[t] = Who[s] /\ pc[t] \in Filed => {s, t} \subseteq Sharing(s)
      BY DEF Sharing, SessionsOf
    <3>3. \A p \in Phones : phone[p].at = "wrote" /\ phone[p].who = Who[s] => s \in Sharing(s)
      BY DEF Sharing
    <3>4. \A t, u \in Sessions :
            t # u /\ Who[t] = Who[u] /\ pc'[t] \in Filed /\ pc'[u] \in Filed => t \in crossed'
      BY <3>1, <3>2 DEF Shown
    <3>5. \A t \in Sessions \ crossed' :
            t # s /\ pc'[t] \in Filed => Who[t] # Who[s] /\ t \notin crossed /\ pc'[t] = pc[t]
      BY <3>1, <3>2
    <3>6. \A t \in Sessions \ crossed' :
            pc'[t] \in {"written", "waiting"} => Who[t] \in pending' \/ Decided(t)'
      <4> SUFFICES ASSUME NEW t \in Sessions \ crossed', pc'[t] \in {"written", "waiting"}
                   PROVE  Who[t] \in pending' \/ Decided(t)'
        OBVIOUS
      <4>1. t # s BY <3>1
      <4>2. Who[t] # Who[s] /\ t \notin crossed /\ pc'[t] = pc[t] BY <3>5, <4>1
      <4>3. Who[t] \in pending \/ Decided(t) BY <4>2 DEF Shown
      <4> QED BY <3>1, <4>2, <4>3
    <3>7. \A t \in Sessions \ crossed', p \in Phones :
            pc'[t] \in Asking /\ phone'[p].at = "wrote" /\ phone'[p].who = Who[t] => Decided(t)'
      <4> SUFFICES ASSUME NEW t \in Sessions \ crossed', NEW p \in Phones, pc'[t] \in Asking,
                          phone[p].at = "wrote", phone[p].who = Who[t]
                   PROVE  Decided(t)'
        BY <3>1
      <4>1. CASE t = s BY <3>1, <3>3, <4>1
      <4>2. CASE t # s
        <5>1. Who[t] # Who[s] /\ t \notin crossed /\ pc'[t] = pc[t] BY <3>5, <4>2
        <5>2. Decided(t) BY <5>1 DEF Shown
        <5> QED BY <3>1, <5>1, <5>2
      <4> QED BY <4>1, <4>2
    <3> QED BY <3>4, <3>6, <3>7 DEF Shown
  <2>4. CASE RefuseRequest(s) BY <1>0, <2>4 DEF RefuseRequest, Refuse
  <2>5. CASE LoseRequest(s) BY <1>0, <2>5 DEF LoseRequest
  <2>6. CASE WritePending(s)
    <3>1. /\ pc[s] = "cleared" /\ pending' = pending \cup {Who[s]}
          /\ UNCHANGED <<decision, phone, crossed>>
          /\ pc'[s] = "written" /\ \A t \in Sessions : t # s => pc'[t] = pc[t]
      BY <2>6 DEF WritePending
    <3>2. \A t \in Sessions : pc'[t] \in Filed => pc[t] \in Filed BY <3>1
    <3>3. \A t \in Sessions : pc'[t] \in Asking => pc[t] \in Asking BY <3>1
    <3>4. \A t \in Sessions \ crossed :
            pc'[t] \in {"written", "waiting"} => Who[t] \in pending' \/ Decided(t)'
      BY <3>1 DEF Shown
    <3>5. \A t \in Sessions \ crossed, p \in Phones :
            pc'[t] \in Asking /\ phone'[p].at = "wrote" /\ phone'[p].who = Who[t] => Decided(t)'
      BY <3>1, <3>3 DEF Shown
    <3>6. \A t, u \in Sessions :
            t # u /\ Who[t] = Who[u] /\ pc'[t] \in Filed /\ pc'[u] \in Filed => t \in crossed'
      BY <3>1, <3>2 DEF Shown
    <3> QED BY <3>1, <3>4, <3>5, <3>6 DEF Shown
  <2>7. CASE SendPending(s) BY <1>0, <2>7 DEF SendPending
  <2>8. CASE Poll(s) BY <1>0, <2>8 DEF Poll, ReadDecision
  <2>9. CASE LastLook(s) BY <1>0, <2>9 DEF LastLook, ReadDecision
  <2>10. CASE RemoveTaken(s)
    <3>1. /\ pc' = [pc EXCEPT ![s] = IF verdict[s] = "accept" THEN "accepting" ELSE "denying"]
          /\ pc[s] \in Filed
          /\ UNCHANGED <<phone, crossed>> /\ pending' = pending \ {Who[s]}
          /\ decision' = [decision EXCEPT ![Who[s]] = "none"]
      BY <2>10 DEF RemoveTaken
    <3> QED BY <2>1, <3>1
  <2>11. CASE StoreDevice(s) BY <1>0, <2>11 DEF StoreDevice
  <2>12. CASE SendAccept(s) BY <1>0, <2>12 DEF SendAccept, SendThen
  <2>13. CASE SendSnapshot(s) BY <1>0, <2>13 DEF SendSnapshot, SendThen
  <2>14. CASE DisarmAfterAccept(s) BY <1>0, <2>14 DEF DisarmAfterAccept
  <2>15. CASE ClearPending(s)
    <3>1. /\ pc' = [pc EXCEPT ![s] = "refusing"] /\ pc[s] \in Filed /\ UNCHANGED <<phone, crossed>>
          /\ pending' = pending \ {Who[s]} /\ decision' = [decision EXCEPT ![Who[s]] = "none"]
      BY <2>15 DEF ClearPending
    <3> QED BY <2>1, <3>1
  <2>16. CASE SendDeny(s) BY <1>0, <2>16 DEF SendDeny, SendThen
  <2> QED BY <1>7, <2>2, <2>3, <2>4, <2>5, <2>6, <2>7, <2>8, <2>9, <2>10, <2>11, <2>12,
             <2>13, <2>14, <2>15, <2>16 DEF Task
<1>8. ASSUME NEW s \in Sessions, TimeOut(s) \/ PollFails(s) PROVE Shown'
  BY <1>0, <1>8 DEF TimeOut, PollFails, files, history, TypeOK
<1>9. ASSUME NEW s \in Sessions, GuestDial(s) \/ Guest(s) \/ GuestQuits(s) PROVE Shown'
  BY <1>0, <1>9 DEF GuestDial, Guest, GuestReceive, GuestSeesClose, GuestQuits, files, host, history
<1>10. CASE UNCHANGED vars BY <1>0, <1>10 DEF vars, files, host, history
<1> QED BY <1>1, <1>2, <1>3, <1>4, <1>5, <1>6, <1>7, <1>8, <1>9, <1>10 DEF Next, Operator

\* While a task waits for a decision the operator can see the request, or has
\* decided it, however often the device has joined before, whatever earlier
\* tasks and the carrier's checked requests do (write_pending, take_decision,
\* pair_decide): only joins of one device that overlap may hide it.
THEOREM RequestShownHolds == Spec => []RequestShown
<1>1. Init => Shown
  <2> SUFFICES ASSUME Init PROVE Shown OBVIOUS
  <2>1. \A p \in Phones : phone[p].at = "idle" BY DEF Init, IdlePhone
  <2>2. \A s \in Sessions : pc[s] = "none" BY DEF Init
  <2> QED BY <2>1, <2>2 DEF Shown, Asking, Filed, Open
<1>2. Shown => RequestShown BY DEF Shown, RequestShown, Decided
<1> QED BY <1>1, <1>2, ShownStep, TypeCorrect, PTL DEF Spec

-----------------------------------------------------------------------------
(* A refusal that contradicts the host's trust comes of a repeated join.   *)

Denies(q) == \E i \in 1 .. Len(q) : q[i] = "deny"

\* No is said only by a task that stores nothing, and it ends with it.
Refusals ==
  \A s \in Sessions :
    Denies(mail[s]) \/ guest[s] = "refused" =>
      spentIn[s] = 0 /\ pc[s] \in {"closed", "done"}

\* A joiner's command that has got on has its host stored, and only one that
\* has dialled has a task.
Answers ==
  \A s \in Sessions :
    /\ guest[s] \in {"accepted", "linked"} => Who[s] \in linked
    /\ guest[s] = "idle" => pc[s] = "none"

\* The host was armed before it let a task in, so every device it stored was
\* stored for a session, in some window.
Backed ==
  /\ window = 0 => ~armed /\ \A s \in Sessions : pc[s] \in {"none", "closed"}
  /\ \A j \in trusted : \E t \in SessionsOf(j) : spentIn[t] # 0

LEMMA DeniesSteps ==
  ASSUME NEW q \in Seq({"accept", "snapshot", "deny"})
  PROVE  /\ \A m \in {"accept", "snapshot", "deny"} :
              Denies(Append(q, m)) => Denies(q) \/ m = "deny"
         /\ q # <<>> => /\ Denies(Tail(q)) => Denies(q)
                        /\ Head(q) = "deny" => Denies(q)
BY DEF Denies

LEMMA NoDenial == ~Denies(<<>>)
<1>1. Len(<<>>) = 0 /\ \A i \in 1 .. 0 : FALSE OBVIOUS
<1> QED BY <1>1 DEF Denies

LEMMA RefusalsStep == TypeOK /\ Windows /\ Refusals /\ [Next]_vars => Refusals'
<1> USE JoinGateAssumption
<1> SUFFICES ASSUME TypeOK, Windows, Refusals, [Next]_vars PROVE Refusals' OBVIOUS
<1> DEFINE Quiet == /\ UNCHANGED <<spentIn, mail, guest>>
                    /\ \A t \in Sessions : pc[t] \in Ended => pc'[t] = pc[t]
<1> USE DEF Goto, Ended, Open, Stored, HostPCs
<1>0. Quiet => Refusals' BY DEF Refusals
<1>1. CASE Operator
  BY <1>0, <1>1 DEF Operator, Arm, Disarm, CliDecide, host, joiner
<1>2. ASSUME NEW p \in Phones, Carrier(p) PROVE Refusals'
  BY <1>0, <1>2 DEF Carrier, PairCheck, PairWrite, PairDrop, files, host, joiner
<1>3. CASE Crash BY <1>0, <1>3 DEF Crash, joiner, TypeOK
<1>4. ASSUME NEW s \in Sessions, Dispatch(s) PROVE Refusals'
  BY <1>0, <1>4 DEF Dispatch, joiner, TypeOK
<1>5. ASSUME NEW s \in Sessions, Task(s) PROVE Refusals'
  <2> USE DEF files, joiner, TypeOK
  <2>1. ASSUME NEW m \in {"accept", "snapshot", "deny"}, NEW e \in HostPCs,
               mail' = [mail EXCEPT ![s] = Append(@, m)], pc' = [pc EXCEPT ![s] = e],
               UNCHANGED <<spentIn, guest>>, pc[s] \notin {"closed", "done"},
               m = "deny" => e \in {"closed", "done"} /\ spentIn[s] = 0
        PROVE  Refusals'
    <3>1. \A t \in Sessions : t # s => pc'[t] = pc[t] /\ mail'[t] = mail[t] BY <2>1
    <3>2. pc'[s] = e /\ mail'[s] = Append(mail[s], m) BY <2>1
    <3>3. Denies(mail'[s]) => Denies(mail[s]) \/ m = "deny" BY <3>2, DeniesSteps
    <3>4. ~Denies(mail[s]) /\ guest[s] # "refused" BY <2>1 DEF Refusals
    <3> QED BY <2>1, <3>1, <3>2, <3>3, <3>4 DEF Refusals
  <2>2. ASSUME NEW e \in HostPCs, pc' = [pc EXCEPT ![s] = e], UNCHANGED <<spentIn, mail, guest>>,
               pc[s] \notin Ended
        PROVE  Refusals'
    BY <1>0, <2>2
  <2>0. pc[s] \in {"spawned", "checked", "refusing"} => spentIn[s] = 0 BY DEF Windows
  <2>3. CASE CheckArm(s)
    <3>1. CASE armed /\ Goto(s, "checked") /\ UNCHANGED mail BY <2>2, <2>3, <3>1 DEF CheckArm
    <3>2. CASE Refuse(s) BY <2>0, <2>1, <2>2, <2>3, <3>2 DEF CheckArm, Refuse
    <3> QED BY <2>3, <3>1, <3>2 DEF CheckArm
  <2>4. CASE ClearStale(s) BY <1>0, <2>4 DEF ClearStale
  <2>5. CASE RefuseRequest(s) BY <2>0, <2>1, <2>2, <2>5 DEF RefuseRequest, Refuse
  <2>6. CASE LoseRequest(s) BY <1>0, <2>6 DEF LoseRequest
  <2>7. CASE WritePending(s) BY <1>0, <2>7 DEF WritePending
  <2>8. CASE SendPending(s) BY <1>0, <2>8 DEF SendPending
  <2>9. CASE Poll(s) BY <1>0, <2>9 DEF Poll, ReadDecision
  <2>10. CASE LastLook(s) BY <1>0, <2>10 DEF LastLook, ReadDecision
  <2>11. CASE RemoveTaken(s) BY <1>0, <2>11 DEF RemoveTaken
  <2>12. CASE StoreDevice(s)
    <3>1. /\ pc[s] = "accepting" /\ UNCHANGED <<mail, guest>>
          /\ \A t \in Sessions : t # s => pc'[t] = pc[t] /\ spentIn'[t] = spentIn[t]
      BY <2>12 DEF StoreDevice
    <3> QED BY <3>1 DEF Refusals
  <2>13. CASE SendAccept(s) BY <2>1, <2>2, <2>13 DEF SendAccept, SendThen
  <2>14. CASE SendSnapshot(s) BY <2>1, <2>2, <2>14 DEF SendSnapshot, SendThen
  <2>15. CASE DisarmAfterAccept(s) BY <1>0, <2>15 DEF DisarmAfterAccept
  <2>16. CASE ClearPending(s) BY <1>0, <2>16 DEF ClearPending
  <2>17. CASE SendDeny(s) BY <2>0, <2>1, <2>2, <2>17 DEF SendDeny, SendThen
  <2> QED BY <1>5, <2>3, <2>4, <2>5, <2>6, <2>7, <2>8, <2>9, <2>10, <2>11, <2>12,
             <2>13, <2>14, <2>15, <2>16, <2>17 DEF Task
<1>6. ASSUME NEW s \in Sessions, TimeOut(s) \/ PollFails(s) PROVE Refusals'
  BY <1>0, <1>6 DEF TimeOut, PollFails, joiner, TypeOK
<1>7. ASSUME NEW s \in Sessions, GuestDial(s) PROVE Refusals'
  BY <1>7 DEF GuestDial, Refusals, files, host, TypeOK
<1>8. ASSUME NEW s \in Sessions, Guest(s) PROVE Refusals'
  <2>1. CASE GuestReceive(s)
    <3>1. mail[s] \in Seq({"accept", "snapshot", "deny"}) /\ mail[s] # <<>>
      BY <2>1 DEF GuestReceive, TypeOK
    <3>2. (Denies(Tail(mail[s])) => Denies(mail[s])) /\ (Head(mail[s]) = "deny" => Denies(mail[s]))
      BY <3>1, DeniesSteps
    <3>3. /\ mail'[s] = Tail(mail[s]) /\ UNCHANGED <<pc, spentIn>>
          /\ \A t \in Sessions : t # s => mail'[t] = mail[t] /\ guest'[t] = guest[t]
          /\ guest'[s] = "refused" => guest[s] = "refused" \/ Head(mail[s]) = "deny"
      BY <2>1 DEF GuestReceive, host, TypeOK
    <3> QED BY <3>2, <3>3 DEF Refusals
  <2>2. CASE GuestSeesClose(s)
    BY <2>2 DEF GuestSeesClose, GuestStop, Refusals, host, TypeOK
  <2> QED BY <1>8, <2>1, <2>2 DEF Guest
<1>9. ASSUME NEW s \in Sessions, GuestQuits(s) PROVE Refusals'
  <2>1. ~Denies(<<>>) BY NoDenial
  <2>2. /\ \A t \in Sessions : /\ mail'[t] = mail[t] \/ mail'[t] = <<>>
                               /\ guest'[t] = "refused" => guest[t] = "refused"
        /\ UNCHANGED <<pc, spentIn>>
    BY <1>9 DEF GuestQuits, GuestStop, host, TypeOK
  <2> QED BY <2>1, <2>2 DEF Refusals
<1>10. CASE UNCHANGED vars BY <1>0, <1>10 DEF vars, host, joiner
<1> QED BY <1>1, <1>2, <1>3, <1>4, <1>5, <1>6, <1>7, <1>8, <1>9, <1>10 DEF Next

LEMMA AnswersStep == TypeOK /\ Answers /\ [Next]_vars => Answers'
<1> USE JoinGateAssumption
<1> SUFFICES ASSUME TypeOK, Answers, [Next]_vars PROVE Answers' OBVIOUS
<1> DEFINE Quiet == /\ UNCHANGED <<guest, linked>>
                    /\ \A t \in Sessions : pc[t] = "none" /\ guest[t] = "idle" => pc'[t] = "none"
<1> USE DEF Goto, Answers
<1>0. Quiet => Answers' OBVIOUS
<1>1. CASE Operator
  BY <1>0, <1>1 DEF Operator, Arm, Disarm, CliDecide, host, joiner
<1>2. ASSUME NEW p \in Phones, Carrier(p) PROVE Answers'
  BY <1>0, <1>2 DEF Carrier, PairCheck, PairWrite, PairDrop, host, joiner
<1>3. CASE Crash BY <1>0, <1>3 DEF Crash, joiner, TypeOK
<1>4. ASSUME NEW s \in Sessions, Dispatch(s) PROVE Answers'
  BY <1>0, <1>4 DEF Dispatch, joiner, TypeOK
<1>5. ASSUME NEW s \in Sessions, Task(s) PROVE Answers'
  <2>1. UNCHANGED <<guest, linked>>
    BY <1>5 DEF Task, CheckArm, ClearStale, RefuseRequest, LoseRequest, WritePending,
         SendPending, Poll, LastLook, RemoveTaken, StoreDevice, SendAccept, SendSnapshot,
         DisarmAfterAccept, ClearPending, SendDeny, joiner
  <2>2. pc[s] # "none"
    BY <1>5 DEF Task, CheckArm, ClearStale, RefuseRequest, LoseRequest, WritePending,
         SendPending, Poll, LastLook, RemoveTaken, StoreDevice, SendAccept, SendSnapshot,
         DisarmAfterAccept, ClearPending, SendDeny
  <2>3. \A t \in Sessions : t # s => pc'[t] = pc[t]
    BY <1>5 DEF TypeOK, Task, CheckArm, ClearStale, RefuseRequest, LoseRequest, WritePending,
         SendPending, Poll, LastLook, ReadDecision, RemoveTaken, StoreDevice, SendAccept,
         SendSnapshot, DisarmAfterAccept, ClearPending, SendDeny, Refuse, SendThen
  <2> QED BY <1>0, <2>1, <2>2, <2>3
<1>6. ASSUME NEW s \in Sessions, TimeOut(s) \/ PollFails(s) PROVE Answers'
  BY <1>0, <1>6 DEF TimeOut, PollFails, joiner, TypeOK
<1>7. ASSUME NEW s \in Sessions, GuestDial(s) \/ GuestSeesClose(s) \/ GuestQuits(s) PROVE Answers'
  BY <1>7 DEF GuestDial, GuestSeesClose, GuestQuits, GuestActive, GuestStop, host, TypeOK
<1>8. ASSUME NEW s \in Sessions, GuestReceive(s) PROVE Answers'
  <2>1. /\ UNCHANGED pc /\ linked \subseteq linked' /\ guest[s] # "idle"
        /\ \A t \in Sessions : t # s => guest'[t] = guest[t]
    BY <1>8 DEF GuestReceive, GuestActive, host, TypeOK
  <2>2. guest'[s] # "idle" /\ (guest'[s] \in {"accepted", "linked"} => Who[s] \in linked')
    BY <1>8 DEF GuestReceive, GuestActive, TypeOK
  <2> QED BY <2>1, <2>2
<1>9. CASE UNCHANGED vars BY <1>0, <1>9 DEF vars, host, joiner
<1> QED BY <1>1, <1>2, <1>3, <1>4, <1>5, <1>6, <1>7, <1>8, <1>9 DEF Next, Guest

LEMMA BackedStep == TypeOK /\ Backed /\ [Next]_vars => Backed'
<1> USE JoinGateAssumption
<1> SUFFICES ASSUME TypeOK, Backed, [Next]_vars PROVE Backed' OBVIOUS
<1> DEFINE Quiet == /\ UNCHANGED <<window, trusted, spentIn>>
                    /\ armed' => armed
                    /\ \A t \in Sessions : pc'[t] = pc[t] \/ pc'[t] = "closed" \/ window # 0
<1> USE DEF Goto, Backed
<1>0. Quiet => Backed' OBVIOUS
<1>1. CASE Operator
  <2>1. CASE Arm
    <3>1. window' # 0 /\ UNCHANGED <<trusted, spentIn>> BY <2>1 DEF Arm, host, TypeOK
    <3> QED BY <3>1
  <2>2. CASE ~Arm BY <1>0, <1>1, <2>2 DEF Operator, Disarm, CliDecide, host
  <2> QED BY <2>1, <2>2
<1>2. ASSUME NEW p \in Phones, Carrier(p) PROVE Backed'
  BY <1>0, <1>2 DEF Carrier, PairCheck, PairWrite, PairDrop, files, host
<1>3. CASE Crash
  <2>1. \A t \in Sessions : pc'[t] = pc[t] \/ window # 0 BY <1>3 DEF Crash, Ended
  <2> QED BY <1>0, <1>3, <2>1 DEF Crash, files
<1>4. ASSUME NEW s \in Sessions, Dispatch(s) PROVE Backed'
  <2>1. \A t \in Sessions : pc'[t] = pc[t] \/ pc'[t] = "closed" \/ window # 0
    BY <1>4 DEF Dispatch, TypeOK
  <2> QED BY <1>0, <1>4, <2>1 DEF Dispatch, files
<1>5. ASSUME NEW s \in Sessions, Task(s) PROVE Backed'
  <2>1. window # 0
    BY <1>5 DEF Task, CheckArm, ClearStale, RefuseRequest, LoseRequest, WritePending,
         SendPending, Poll, LastLook, RemoveTaken, StoreDevice, SendAccept, SendSnapshot,
         DisarmAfterAccept, ClearPending, SendDeny
  <2>2. CASE StoreDevice(s)
    <3>1. /\ UNCHANGED window /\ trusted' = trusted \cup {Who[s]}
          /\ spentIn'[s] # 0 /\ \A t \in Sessions : spentIn'[t] = spentIn[t] \/ t = s
      BY <2>1, <2>2 DEF StoreDevice, TypeOK
    <3>2. s \in SessionsOf(Who[s]) BY DEF SessionsOf
    <3> QED BY <2>1, <3>1, <3>2 DEF SessionsOf
  <2>3. CASE ~StoreDevice(s)
    <3>1. UNCHANGED <<window, trusted, spentIn>>
      BY <1>5, <2>3 DEF Task, CheckArm, ClearStale, RefuseRequest, LoseRequest, WritePending,
           SendPending, Poll, LastLook, RemoveTaken, SendAccept, SendSnapshot,
           DisarmAfterAccept, ClearPending, SendDeny, files
    <3> QED BY <2>1, <3>1
  <2> QED BY <2>2, <2>3
<1>6. ASSUME NEW s \in Sessions, TimeOut(s) \/ PollFails(s) PROVE Backed'
  <2>1. window # 0 BY <1>6 DEF TimeOut, PollFails
  <2> QED BY <1>6, <2>1 DEF TimeOut, PollFails, files
<1>7. ASSUME NEW s \in Sessions, GuestDial(s) \/ Guest(s) \/ GuestQuits(s) PROVE Backed'
  BY <1>0, <1>7 DEF GuestDial, Guest, GuestReceive, GuestSeesClose, GuestQuits, files, host
<1>8. CASE UNCHANGED vars BY <1>0, <1>8 DEF vars, files, host
<1> QED BY <1>1, <1>2, <1>3, <1>4, <1>5, <1>6, <1>7, <1>8 DEF Next

LEMMA RepeatFound ==
  ASSUME TypeOK, Windows, Refusals, Answers, Backed
  PROVE  OneSidedByRepeat
<1> USE JoinGateAssumption
<1> SUFFICES ASSUME NEW s \in Sessions, guest[s] = "refused", Settled(Who[s]),
                    Who[s] \in trusted \ linked
             PROVE  \E t \in SessionsOf(Who[s]) \ {s} : spentIn[t] # 0 /\ guest[t] = "gone"
  BY DEF OneSidedByRepeat
<1>1. PICK t \in SessionsOf(Who[s]) : spentIn[t] # 0 BY DEF Backed
<1>2. t \in Sessions /\ Who[t] = Who[s] BY <1>1 DEF SessionsOf
<1>3. t # s /\ guest[t] # "refused" BY <1>1, <1>2 DEF Refusals
<1>4. pc[t] \in Stored \cup {"done", "failed"} BY <1>1, <1>2 DEF Windows
<1>5. guest[t] \notin {"idle", "linked", "accepted"} BY <1>2, <1>4 DEF Answers, Stored
<1>6. guest[t] # "dialled" BY <1>1 DEF Settled, GuestActive
<1>7. guest[t] = "gone" BY <1>2, <1>3, <1>5, <1>6 DEF TypeOK, GuestPCs
<1> QED BY <1>1, <1>3, <1>7

\* A joiner that was told no, while the host trusts it and it lacks the host,
\* has repeated its join, and another session of it took the accept: a task
\* says no only where it stores nothing (handle_join_as_host), whatever breaks
\* or stops in between, for any number of devices and of sessions of each.
THEOREM OneSidedByRepeatHolds == Spec => []OneSidedByRepeat
<1>1. Init => Windows /\ Refusals /\ Answers /\ Backed
  <2> SUFFICES ASSUME Init PROVE Windows /\ Refusals /\ Answers /\ Backed OBVIOUS
  <2> USE DEF Init
  <2>1. Windows BY DEF Windows, WindowSpent
  <2>2. Refusals BY NoDenial DEF Refusals
  <2>3. Answers BY DEF Answers
  <2>4. Backed BY DEF Backed
  <2> QED BY <2>1, <2>2, <2>3, <2>4
<1>2. Spec => []Windows
  BY <1>1, WindowsStep, TypeCorrect, PTL DEF Spec
<1> QED BY <1>1, <1>2, RefusalsStep, AnswersStep, BackedStep, RepeatFound, TypeCorrect, PTL
        DEF Spec
=============================================================================
