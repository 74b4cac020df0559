------------------------------ MODULE JoinGate ------------------------------
(***************************************************************************)
(* How a host lets a new device into its mesh.                             *)
(*                                                                         *)
(* Three kinds of process share the host's data directory: the agent,      *)
(* which runs one handle_join_as_host task per connection; the operator's  *)
(* CLI (connect-request allow/deny, requests accept/deny); and the carrier *)
(* HTTP server (pair/v1/decide).  They meet only in files: arm.json,       *)
(* pending/<id>.json, decisions/<id>.json and devices.json.  Every step    *)
(* below is what one process does between two points where another can     *)
(* run, so a check and the write that relies on it are separate steps.     *)
(***************************************************************************)
EXTENDS Naturals, Sequences, FiniteSets

CONSTANTS Joiners,   \* devices that ask to join
          Sessions,  \* join connections; a device that retries has several
          Who,       \* the device that opens each session
          Phones,    \* carrier requests that may be in progress at once
          Kicked,    \* devices of which the host may hold a pending kick
          MaxArms,   \* bound: how often the host is armed in one behaviour
          Faults     \* faults that may happen, see FaultKinds

FaultKinds ==
  { "break",    \* a connection breaks while the host sends
    "quit",     \* the joiner's command is interrupted or times out
    "io",       \* reading a control file fails, e.g. while it is rewritten
    "crash" }   \* the agent process stops, and is started again

ASSUME JoinGateAssumption ==
  /\ Who \in [Sessions -> Joiners]
  /\ Kicked \subseteq Joiners
  /\ MaxArms \in Nat
  /\ Faults \subseteq FaultKinds

VARIABLES armed,     \* arm.json says armed and its deadline is ahead
          window,    \* how many times the host has been armed
          pending,   \* devices with a pending/<id>.json
          decision,  \* content of decisions/<id>.json
          trusted,   \* devices with a Trusted record in devices.json
          pc,        \* progress of the host's task for a session
          verdict,   \* the decision that task acts on
          spentIn,   \* arm window in which the task stored the device, 0: none
          mail,      \* frames on their way to the joiner
          guest,     \* progress of the joiner's command
          linked,    \* devices that stored the host as Trusted
          phone,     \* carrier decide requests in progress
          ticket,    \* history: sessions open when an accept was recorded
          crossed    \* history: sessions that shared their files, see Sharing

files == <<armed, window, pending, decision, trusted>>
host  == <<pc, verdict, spentIn>>
joiner == <<mail, guest, linked>>
history == <<ticket, crossed>>
vars  == <<files, host, joiner, phone, history>>

Verdicts == {"accept", "deny"}

\* A task between clearing old decisions and taking one.
Open == {"cleared", "written", "waiting", "sawOff"}

\* A task that has filed its request and may still change its device's files.
Filed == Open \cup {"took", "denying"}

\* A task that has ended: done, turned away, or returned an error.
Ended == {"done", "closed", "failed"}

HostPCs == {"none", "spawned", "checked", "took", "accepting", "stored",
            "told", "shared", "denying", "refusing"} \cup Open \cup Ended

GuestPCs == {"idle", "dialled", "accepted", "linked", "refused", "gone"}

IdlePhone == [at |-> "idle"]

PhoneStates ==
  {IdlePhone} \cup [at : {"checked", "wrote"}, who : Joiners, says : Verdicts]

SessionsOf(j) == {s \in Sessions : Who[s] = j}

TypeOK ==
  /\ armed \in BOOLEAN
  /\ window \in Nat
  /\ pending \subseteq Joiners
  /\ decision \in [Joiners -> Verdicts \cup {"none"}]
  /\ trusted \subseteq Joiners
  /\ pc \in [Sessions -> HostPCs]
  /\ verdict \in [Sessions -> Verdicts \cup {"none"}]
  /\ spentIn \in [Sessions -> Nat]
  /\ mail \in [Sessions -> Seq({"accept", "snapshot", "deny"})]
  /\ guest \in [Sessions -> GuestPCs]
  /\ linked \subseteq Joiners
  /\ phone \in [Phones -> PhoneStates]
  /\ ticket \subseteq Sessions
  /\ crossed \subseteq Sessions

Init ==
  /\ armed = FALSE /\ window = 0
  /\ pending = {} /\ trusted = {} /\ linked = {} /\ ticket = {} /\ crossed = {}
  /\ decision = [j \in Joiners |-> "none"]
  /\ pc = [s \in Sessions |-> "none"]
  /\ verdict = [s \in Sessions |-> "none"]
  /\ spentIn = [s \in Sessions |-> 0]
  /\ mail = [s \in Sessions |-> <<>>]
  /\ guest = [s \in Sessions |-> "idle"]
  /\ phone = [p \in Phones |-> IdlePhone]

-----------------------------------------------------------------------------
(* The operator and the clock.                                             *)

Arm ==
  /\ window < MaxArms
  /\ armed' = TRUE
  /\ window' = window + 1
  /\ UNCHANGED <<pending, decision, trusted, host, joiner, phone, history>>

\* connect-request deny, or the deadline in arm.json passes.
Disarm ==
  /\ armed
  /\ armed' = FALSE
  /\ UNCHANGED <<window, pending, decision, trusted, host, joiner, phone, history>>

\* JoinStore::write_decision; the ticket records whom the accept is for.
WriteDecision(j, v) ==
  /\ decision' = [decision EXCEPT ![j] = v]
  /\ ticket' = IF v = "accept"
               THEN ticket \cup {s \in SessionsOf(j) : pc[s] \in Open}
               ELSE ticket
  /\ UNCHANGED crossed

\* requests accept | deny: a full hex id needs no pending file.
CliDecide(j, v) ==
  /\ WriteDecision(j, v)
  /\ UNCHANGED <<armed, window, pending, trusted, host, joiner, phone>>

-----------------------------------------------------------------------------
(* The carrier server's decide request: bearer token and pending list are  *)
(* checked, then the decision is written, then the pending file removed.   *)

PairCheck(p, j, v) ==
  /\ phone[p] = IdlePhone
  /\ armed
  /\ j \in pending
  /\ phone' = [phone EXCEPT ![p] = [at |-> "checked", who |-> j, says |-> v]]
  /\ UNCHANGED <<files, host, joiner, history>>

PairWrite(p) ==
  /\ phone[p].at = "checked"
  /\ WriteDecision(phone[p].who, phone[p].says)
  /\ phone' = [phone EXCEPT ![p] =
                 [at |-> "wrote", who |-> phone[p].who, says |-> phone[p].says]]
  /\ UNCHANGED <<armed, window, pending, trusted, host, joiner>>

PairDrop(p) ==
  /\ phone[p].at = "wrote"
  /\ pending' = pending \ {phone[p].who}
  /\ phone' = [phone EXCEPT ![p] = IdlePhone]
  /\ UNCHANGED <<armed, window, decision, trusted, host, joiner, history>>

-----------------------------------------------------------------------------
(* The host's task for one session.                                        *)

Goto(s, at) == pc' = [pc EXCEPT ![s] = at]

\* Sending to a joiner that has left may fail or go unnoticed.
SendCanFail(s) == guest[s] = "gone" \/ "break" \in Faults

\* What `send_frame(m).await?` does: on to the next point, or an error out.
SendThen(s, m, at) ==
  \/ mail' = [mail EXCEPT ![s] = Append(@, m)] /\ Goto(s, at)
  \/ SendCanFail(s) /\ Goto(s, "failed") /\ UNCHANGED mail

\* What `let _ = send_frame(deny).await` and close do.
Refuse(s) ==
  /\ Goto(s, "closed")
  /\ \/ mail' = [mail EXCEPT ![s] = Append(@, "deny")]
     \/ SendCanFail(s) /\ UNCHANGED mail

\* The agent's accept loop: a task for an unknown device while armed.  A
\* trusted device's join frame is no Hello, so its session is closed.  So is
\* that of a device with a pending kick, armed or not: handle_inbound answers
\* with the notice, which ends the joiner's command.
Dispatch(s) ==
  /\ pc[s] = "none" /\ guest[s] # "idle"
  /\ \/ armed /\ Who[s] \notin trusted /\ Goto(s, "spawned")
     \/ (armed => Who[s] \in trusted \cup Kicked) /\ Goto(s, "closed")
  /\ UNCHANGED <<files, verdict, spentIn, joiner, phone, history>>

CheckArm(s) ==
  /\ pc[s] = "spawned"
  /\ \/ armed /\ Goto(s, "checked") /\ UNCHANGED mail
     \/ ~armed /\ Refuse(s)
  /\ UNCHANGED <<files, verdict, spentIn, guest, linked, phone, history>>

\* Files are named by device: sessions of s's device that are under way when s
\* files its request cross with s, and s crosses with a carrier request that
\* answers an earlier one and has yet to drop the pending file.
Sharing(s) ==
  LET others == {t \in SessionsOf(Who[s]) \ {s} : pc[t] \in Filed}
      late == \E p \in Phones : phone[p].at = "wrote" /\ phone[p].who = Who[s]
  IN  others \cup {t \in {s} : others # {} \/ late}

\* Mutant: an old decision is left where it is.
ClearStale_KeepsDecision(s) ==
  /\ pc[s] = "checked"
  /\ crossed' = crossed \cup Sharing(s)
  /\ Goto(s, "cleared")
  /\ UNCHANGED <<files, verdict, spentIn, joiner, phone, ticket>>

\* The JoinRequest is valid; write_pending first removes an old decision.
ClearStale(s) ==
  /\ pc[s] = "checked"
  /\ decision' = [decision EXCEPT ![Who[s]] = "none"]
  /\ crossed' = crossed \cup Sharing(s)
  /\ Goto(s, "cleared")
  /\ UNCHANGED <<armed, window, pending, trusted, verdict, spentIn, joiner,
                 phone, ticket>>

\* The request is refused, for a clock more than an hour apart.
RefuseRequest(s) ==
  /\ pc[s] = "checked"
  /\ Refuse(s)
  /\ UNCHANGED <<files, verdict, spentIn, guest, linked, phone, history>>

\* The joiner left before its request was read.
LoseRequest(s) ==
  /\ pc[s] = "checked" /\ SendCanFail(s)
  /\ Goto(s, "failed")
  /\ UNCHANGED <<files, verdict, spentIn, joiner, phone, history>>

WritePending(s) ==
  /\ pc[s] = "cleared"
  /\ pending' = pending \cup {Who[s]}
  /\ Goto(s, "written")
  /\ UNCHANGED <<armed, window, decision, trusted, verdict, spentIn, joiner,
                 phone, history>>

\* JoinPending only makes the joiner print a line, so no mail is kept.
SendPending(s) ==
  /\ pc[s] = "written"
  /\ \/ Goto(s, "waiting")
     \/ SendCanFail(s) /\ Goto(s, "failed")
  /\ UNCHANGED <<files, verdict, spentIn, joiner, phone, history>>

\* take_decision finds a file and reads it ...
ReadDecision(s) ==
  /\ decision[Who[s]] # "none"
  /\ verdict' = [verdict EXCEPT ![s] = decision[Who[s]]]
  /\ Goto(s, "took")

Poll(s) ==
  /\ pc[s] = "waiting"
  /\ \/ armed /\ ReadDecision(s)
     \/ ~armed /\ Goto(s, "sawOff") /\ UNCHANGED verdict
  /\ UNCHANGED <<files, spentIn, joiner, phone, history>>

\* The last look at the decisions after the host was seen disarmed.
LastLook(s) ==
  /\ pc[s] = "sawOff"
  /\ \/ ReadDecision(s)
     \/ /\ decision[Who[s]] = "none"
        /\ verdict' = [verdict EXCEPT ![s] = "deny"]
        /\ Goto(s, "denying")
  /\ UNCHANGED <<files, spentIn, joiner, phone, history>>

\* ... then it removes the decision and the pending file.
RemoveTaken(s) ==
  /\ pc[s] = "took"
  /\ decision' = [decision EXCEPT ![Who[s]] = "none"]
  /\ pending' = pending \ {Who[s]}
  /\ Goto(s, IF verdict[s] = "accept" THEN "accepting" ELSE "denying")
  /\ UNCHANGED <<armed, window, trusted, verdict, spentIn, joiner, phone, history>>

\* Mutant: the deadline is looked at only once the host is disarmed.
TimeOut_WhenDisarmed(s) ==
  /\ pc[s] = "waiting" /\ ~armed
  /\ verdict' = [verdict EXCEPT ![s] = "deny"]
  /\ Goto(s, "denying")
  /\ UNCHANGED <<files, spentIn, joiner, phone, history>>

\* Mutant: the deadline still counts when a decision has been taken.
TimeOut_AfterTaking(s) ==
  /\ pc[s] \in {"waiting", "accepting"}
  /\ verdict' = [verdict EXCEPT ![s] = "deny"]
  /\ Goto(s, "denying")
  /\ UNCHANGED <<files, spentIn, joiner, phone, history>>

TimeOut(s) ==
  /\ pc[s] = "waiting"
  /\ verdict' = [verdict EXCEPT ![s] = "deny"]
  /\ Goto(s, "denying")
  /\ UNCHANGED <<files, spentIn, joiner, phone, history>>

\* A read of arm.json or of the decision fails and ends the task.
PollFails(s) ==
  /\ "io" \in Faults
  /\ pc[s] \in {"waiting", "sawOff"}
  /\ Goto(s, "failed")
  /\ UNCHANGED <<files, verdict, spentIn, joiner, phone, history>>

\* Mutant: the record is stored under the wrong id.
StoreDevice_WrongId(s) ==
  /\ pc[s] = "accepting"
  /\ trusted' = trusted \cup {s}
  /\ spentIn' = [spentIn EXCEPT ![s] = window]
  /\ Goto(s, "stored")
  /\ UNCHANGED <<armed, window, pending, decision, verdict, joiner, phone, history>>

StoreDevice(s) ==
  /\ pc[s] = "accepting"
  /\ trusted' = trusted \cup {Who[s]}
  /\ spentIn' = [spentIn EXCEPT ![s] = window]
  /\ Goto(s, "stored")
  /\ UNCHANGED <<armed, window, pending, decision, verdict, joiner, phone, history>>

\* Mutant: the accept may be sent before the device is stored.
SendAccept_BeforeStore(s) ==
  /\ pc[s] \in {"accepting", "stored"}
  /\ SendThen(s, "accept", "told")
  /\ UNCHANGED <<files, verdict, spentIn, guest, linked, phone, history>>

\* Mutant: when the accept cannot be sent the task falls back to a denial.
SendAccept_ElseDeny(s) ==
  /\ pc[s] = "stored"
  /\ \/ mail' = [mail EXCEPT ![s] = Append(@, "accept")] /\ Goto(s, "told")
     \/ SendCanFail(s) /\ Goto(s, "denying") /\ UNCHANGED mail
  /\ UNCHANGED <<files, verdict, spentIn, guest, linked, phone, history>>

SendAccept(s) ==
  /\ pc[s] = "stored"
  /\ SendThen(s, "accept", "told")
  /\ UNCHANGED <<files, verdict, spentIn, guest, linked, phone, history>>

SendSnapshot(s) ==
  /\ pc[s] = "told"
  /\ SendThen(s, "snapshot", "shared")
  /\ UNCHANGED <<files, verdict, spentIn, guest, linked, phone, history>>

\* Mutant: arming stays on after the accept.
DisarmAfterAccept_StaysOn(s) ==
  /\ pc[s] = "shared"
  /\ Goto(s, "done")
  /\ UNCHANGED <<files, verdict, spentIn, joiner, phone, history>>

DisarmAfterAccept(s) ==
  /\ pc[s] = "shared"
  /\ armed' = FALSE
  /\ Goto(s, "done")
  /\ UNCHANGED <<window, pending, decision, trusted, verdict, spentIn, joiner,
                 phone, history>>

ClearPending(s) ==
  /\ pc[s] = "denying"
  /\ pending' = pending \ {Who[s]}
  /\ decision' = [decision EXCEPT ![Who[s]] = "none"]
  /\ Goto(s, "refusing")
  /\ UNCHANGED <<armed, window, trusted, verdict, spentIn, joiner, phone, history>>

\* Mutant: a task that has said no drops its device's files once more.
SendDeny_ClearsAgain(s) ==
  /\ pc[s] = "refusing"
  /\ SendThen(s, "deny", "done")
  /\ pending' = pending \ {Who[s]}
  /\ UNCHANGED <<armed, window, decision, trusted, verdict, spentIn, guest,
                 linked, phone, history>>

SendDeny(s) ==
  /\ pc[s] = "refusing"
  /\ SendThen(s, "deny", "done")
  /\ UNCHANGED <<files, verdict, spentIn, guest, linked, phone, history>>

\* The agent stops: its tasks are gone, the files stay.
Crash ==
  /\ "crash" \in Faults
  /\ pc' = [s \in Sessions |->
             IF pc[s] \in Ended \cup {"none"} THEN pc[s] ELSE "failed"]
  /\ UNCHANGED <<files, verdict, spentIn, joiner, phone, history>>

-----------------------------------------------------------------------------
(* The joiner's command, run_join_as_guest.                                *)

GuestDial(s) ==
  /\ guest[s] = "idle"
  /\ guest' = [guest EXCEPT ![s] = "dialled"]
  /\ UNCHANGED <<files, host, mail, linked, phone, history>>

GuestActive(s) == guest[s] \in {"dialled", "accepted"}

GuestReceive(s) ==
  /\ GuestActive(s) /\ mail[s] # <<>>
  /\ mail' = [mail EXCEPT ![s] = Tail(@)]
  /\ \/ /\ Head(mail[s]) = "accept"
        /\ linked' = linked \cup {Who[s]}
        /\ guest' = [guest EXCEPT ![s] = "accepted"]
     \/ /\ Head(mail[s]) = "snapshot"
        /\ linked' = linked \cup {Who[s]}
        /\ guest' = [guest EXCEPT ![s] = IF @ = "accepted" THEN "linked" ELSE @]
     \/ /\ Head(mail[s]) = "deny"
        /\ guest' = [guest EXCEPT ![s] = "refused"]
        /\ UNCHANGED linked
  /\ UNCHANGED <<files, host, phone, history>>

\* Without more frames the command succeeds if it has had the accept.
GuestStop(s) ==
  guest' = [guest EXCEPT ![s] = IF @ = "accepted" THEN "linked" ELSE "gone"]

GuestSeesClose(s) ==
  /\ GuestActive(s) /\ mail[s] = <<>> /\ pc[s] \in Ended
  /\ GuestStop(s)
  /\ UNCHANGED <<files, host, mail, linked, phone, history>>

GuestQuits(s) ==
  /\ "quit" \in Faults
  /\ GuestActive(s)
  /\ GuestStop(s)
  /\ mail' = [mail EXCEPT ![s] = <<>>]
  /\ UNCHANGED <<files, host, linked, phone, history>>

-----------------------------------------------------------------------------
Task(s) ==
  \/ CheckArm(s) \/ ClearStale(s) \/ RefuseRequest(s) \/ LoseRequest(s)
  \/ WritePending(s) \/ SendPending(s)
  \/ Poll(s) \/ LastLook(s) \/ RemoveTaken(s)
  \/ StoreDevice(s) \/ SendAccept(s) \/ SendSnapshot(s) \/ DisarmAfterAccept(s)
  \/ ClearPending(s) \/ SendDeny(s)

Guest(s) == GuestReceive(s) \/ GuestSeesClose(s)

Operator ==
  \/ Arm \/ Disarm
  \/ \E j \in Joiners, v \in Verdicts : CliDecide(j, v)

Carrier(p) ==
  \/ \E j \in Joiners, v \in Verdicts : PairCheck(p, j, v)
  \/ PairWrite(p) \/ PairDrop(p)

Next ==
  \/ Operator
  \/ \E p \in Phones : Carrier(p)
  \/ Crash
  \/ \E s \in Sessions :
       \/ Dispatch(s) \/ Task(s) \/ TimeOut(s) \/ PollFails(s)
       \/ GuestDial(s) \/ Guest(s) \/ GuestQuits(s)

\* The runtime schedules every ready task, deadlines pass, and a joiner that
\* runs reads its connection; nothing obliges operators, phones or joiners.
Fairness ==
  \A s \in Sessions :
    /\ WF_vars(Dispatch(s)) /\ WF_vars(Task(s)) /\ WF_vars(TimeOut(s))
    /\ WF_vars(Guest(s))

Spec == Init /\ [][Next]_vars
FairSpec == Spec /\ Fairness

-----------------------------------------------------------------------------
(* Properties.                                                             *)

\* A task acts on an accept, and the host trusts a device, only if the
\* operator accepted that device while a session of it was open: decisions
\* left behind by earlier sessions, crashes or typed ahead never count.
OnlyApproved ==
  /\ \A s \in Sessions : verdict[s] = "accept" => s \in ticket
  /\ \A j \in trusted : \E s \in ticket : Who[s] = j

\* A joiner stores the host as trusted only after the host stored it, in
\* whatever way connections, tasks and the agent fail on the way.
LinkedBothSides == linked \subseteq trusted

\* Once a task that stored a device has ended normally, the arm window in
\* which it did so is over.
WindowSpent ==
  \A s \in Sessions :
    pc[s] = "done" /\ spentIn[s] # 0 => ~(armed /\ window = spentIn[s])

\* docs/JOIN.md:23, for every way the task can end: after the accept arming
\* turns off, until the host is armed again.  It does not hold (fault break).
ArmingTurnsOff ==
  \A s \in Sessions :
    pc[s] \in Ended /\ spentIn[s] # 0 => ~(armed /\ window = spentIn[s])

\* The operator can see, or has already decided, the request of a device whose
\* task waits for a decision, also when the device repeats its join; only joins
\* of one device that overlap, or a phone that is late, may hide it.
RequestShown ==
  \A s \in Sessions \ crossed :
    pc[s] = "waiting" => Who[s] \in pending \/ decision[Who[s]] # "none"

\* Nothing is under way between the host and device j.
Settled(j) ==
  \A s \in SessionsOf(j) : ~GuestActive(s) /\ pc[s] \in Ended \cup {"none"}

\* docs/JOIN.md:24 has both machines store a Trusted record.  Once things have
\* settled, a joiner that was told no while the host trusts it and it lacks the
\* host has repeated its join: the accept was taken, and the device stored, for
\* another session of it, whose command had stopped waiting.
OneSidedByRepeat ==
  \A s \in Sessions :
    guest[s] = "refused" /\ Settled(Who[s]) /\ Who[s] \in trusted \ linked =>
      \E t \in SessionsOf(Who[s]) \ {s} : spentIn[t] # 0 /\ guest[t] = "gone"

\* Every joiner that has dialled gets an end to its wait: it is linked, told
\* no, or sees its connection end, with no joiner-side timeout needed.
Answered ==
  \A s \in Sessions : guest[s] = "dialled" ~> guest[s] \in {"linked", "refused", "gone"}

\* An accept that a task has taken ends with each side storing the other
\* (docs/JOIN.md:24) and the window closed, unless the task failed or the joiner
\* stopped waiting: no fault elsewhere, nor another session, gets in its way.
AcceptCompletes ==
  \A s \in Sessions :
    verdict[s] = "accept" ~>
      \/ Who[s] \in trusted \cap linked /\ pc[s] = "done"
      \/ pc[s] = "failed" \/ guest[s] = "gone"

\* The gate does no more than JoinContract allows.
Contract == INSTANCE JoinContract
ImplementsContract == Contract!ContractSpec
=============================================================================
