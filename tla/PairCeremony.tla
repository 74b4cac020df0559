---------------------------- MODULE PairCeremony ----------------------------
(***************************************************************************)
(* Linking two devices by a short code: `mymesh link --local` on the host, *)
(* `mymesh link --code` on the guest, over a Mailbox.  Both send a SPAKE2  *)
(* message, each derives a key from its own and the one it receives, the   *)
(* host offers its identity bound to the key, and the guest, having        *)
(* checked it, answers with its own.                                       *)
(*                                                                         *)
(* A code is used by one host command and any number of guest commands: a  *)
(* guest that was interrupted tries again, or a second device is given the *)
(* same code.                                                              *)
(***************************************************************************)
EXTENDS Mailbox

CONSTANTS Device,    \* the device each guest command runs on
          Backends,  \* mailboxes the configuration may name
          FaultSets  \* sets of faults, one of which a behaviour may have

FaultKinds ==
  { "slow",     \* somebody takes longer than a poll, or than the deadline
    "cut",      \* a request fails, before or after the server handled it
    "quit",     \* a command is interrupted
    "io",       \* using the lane's file or storing the record fails
    "restart" } \* the mailbox server is restarted

ASSUME PairAssumption ==
  /\ Host \notin Guests
  /\ None \notin Parties
  /\ Backends \subseteq {"http", "fs"}
  /\ MaxWaiters \in Nat
  /\ \A f \in FaultSets : f \subseteq FaultKinds

VARIABLES faults,    \* the faults this behaviour may have
          pc,        \* the next thing each command does
          failed,    \* commands that returned an error
          peer,      \* whose SPAKE2 message went into the command's key
          hostTrusts,  \* devices the host stored as Trusted
          guestTrusts  \* devices that stored the host as Trusted

setting  == <<backend, faults>>
records  == <<hostTrusts, guestTrusts>>
progress == <<pc, failed, peer>>
vars == <<setting, boxes, progress, records>>

Devices == {Device[g] : g \in Guests}

\* The bug of binding identities to the sender's half only.
Secret_OwnHalf(p) == {Host}

\* A SPAKE2 key is fixed by the two messages it was made from.
Secret(p) == {p, peer[p]}

Spake(p)  == [type |-> "spake", from |-> p]
Offer     == [type |-> "offer", binder |-> Secret(Host)]
Accept(g) == [type |-> "accept", from |-> g, binder |-> Secret(g)]

Message ==
  [type : {"spake"}, from : Parties]
    \cup [type : {"offer"}, binder : SUBSET (Parties \cup {None})]
    \cup [type : {"accept"}, from : Guests, binder : SUBSET (Parties \cup {None})]

ASSUME NoneAssumption == None \notin Message

HostPCs  == {"start", "awaitKey", "sendOffer", "awaitAccept", "done"}
GuestPCs == {"start", "awaitKey", "awaitOffer", "sendAccept", "store", "done"}

\* The guest has checked the host's identity.
Verified == {"sendAccept", "store", "done"}

TypeOK ==
  /\ BoxTypeOK(Message)
  /\ faults \in SUBSET FaultKinds
  /\ pc \in [Parties -> HostPCs \cup GuestPCs]
  /\ pc[Host] \in HostPCs /\ \A g \in Guests : pc[g] \in GuestPCs
  /\ failed \subseteq Parties
  /\ peer \in [Parties -> Parties \cup {None}]
  /\ hostTrusts \subseteq Devices
  /\ guestTrusts \subseteq Devices

Init ==
  /\ BoxInit
  /\ backend \in Backends
  /\ faults \in FaultSets
  /\ pc = [p \in Parties |-> "start"]
  /\ failed = {}
  /\ peer = [p \in Parties |-> None]
  /\ hostTrusts = {} /\ guestTrusts = {}

Active(p) == p \notin failed /\ pc[p] # "done"
Receives(p) == Active(p) /\ pc[p] \in {"awaitKey", "awaitOffer", "awaitAccept"}

GoesTo(p, next) == pc' = [pc EXCEPT ![p] = next] /\ UNCHANGED failed
Fails(p) == failed' = failed \cup {p} /\ UNCHANGED pc

-----------------------------------------------------------------------------
(* rendezvous.send(..).await? and rendezvous.recv(..).await?               *)

Sends(p, at, m, next) ==
  /\ Active(p) /\ pc[p] = at
  /\ \/ Push(Out(p), m) /\ GoesTo(p, next)
     \/ /\ "cut" \in faults /\ backend = "http" /\ Fails(p)
        /\ Push(Out(p), m) \/ UNCHANGED boxes
     \/ /\ "io" \in faults /\ backend = "fs" /\ Fails(p)
        /\ UNCHANGED boxes
  /\ UNCHANGED <<setting, peer, records>>

Receive(p) ==
  /\ Receives(p)
  /\ Get(p) \/ Read(p) \/ Rewrite(p)
  /\ UNCHANGED <<setting, progress, records>>

\* recv returns the message of p's inbox.
Takes(p, at) ==
  /\ Active(p) /\ pc[p] = at /\ inbox[p] # None
  /\ inbox' = [inbox EXCEPT ![p] = None]
  /\ UNCHANGED <<setting, lane, waiters, view>>

\* Any message but the one that is due ends the command.
TakesOther(p, at, due) ==
  /\ Takes(p, at) /\ ~due
  /\ Fails(p)
  /\ UNCHANGED <<peer, records>>

IsSpake(m) == m.type = "spake"

-----------------------------------------------------------------------------
(* The ceremony.                                                           *)

SendSpake(p) == Sends(p, "start", Spake(p), "awaitKey")

TakeSpake(p) ==
  \/ /\ Takes(p, "awaitKey") /\ IsSpake(inbox[p])
     /\ peer' = [peer EXCEPT ![p] = inbox[p].from]
     /\ GoesTo(p, IF p = Host THEN "sendOffer" ELSE "awaitOffer")
     /\ UNCHANGED records
  \/ TakesOther(p, "awaitKey", IsSpake(inbox[p]))

SendOffer == Sends(Host, "sendOffer", Offer, "awaitAccept")

\* The host's offer, bound to g's key; its signature is always good.
GoodOffer(g, m) == m.type = "offer" /\ m.binder = Secret(g)

\* The bug of taking any identity offer.
TakeOffer_AnyBinder(g) ==
  \/ /\ Takes(g, "awaitOffer") /\ inbox[g].type = "offer"
     /\ GoesTo(g, "sendAccept")
     /\ UNCHANGED <<peer, records>>
  \/ TakesOther(g, "awaitOffer", inbox[g].type = "offer")

TakeOffer(g) ==
  \/ /\ Takes(g, "awaitOffer") /\ GoodOffer(g, inbox[g])
     /\ GoesTo(g, "sendAccept")
     /\ UNCHANGED <<peer, records>>
  \/ TakesOther(g, "awaitOffer", GoodOffer(g, inbox[g]))

SendAccept(g) == Sends(g, "sendAccept", Accept(g), "store")

\* store.upsert of the guest, after its answer was sent.
StoreHost(g) ==
  /\ Active(g) /\ pc[g] = "store"
  /\ \/ guestTrusts' = guestTrusts \cup {Device[g]} /\ GoesTo(g, "done")
     \/ "io" \in faults /\ Fails(g) /\ UNCHANGED guestTrusts
  /\ UNCHANGED <<setting, boxes, peer, hostTrusts>>

GoodAccept(m) == m.type = "accept" /\ m.binder = Secret(Host)

\* The bug of storing the peer's session in place of its device.
TakeAccept_WrongId ==
  /\ Takes(Host, "awaitAccept") /\ GoodAccept(inbox[Host])
  /\ hostTrusts' = hostTrusts \cup {inbox[Host].from}
  /\ GoesTo(Host, "done")
  /\ UNCHANGED <<peer, guestTrusts>>

\* The host checks the answer and stores the guest without waiting in between.
TakeAccept ==
  \/ /\ Takes(Host, "awaitAccept") /\ GoodAccept(inbox[Host])
     /\ \/ /\ hostTrusts' = hostTrusts \cup {Device[inbox[Host].from]}
           /\ GoesTo(Host, "done")
        \/ "io" \in faults /\ Fails(Host) /\ UNCHANGED hostTrusts
     /\ UNCHANGED <<peer, guestTrusts>>
  \/ TakesOther(Host, "awaitAccept", GoodAccept(inbox[Host]))

-----------------------------------------------------------------------------
(* Time and failures.                                                      *)

\* Nobody has sent or is about to send what p waits for.
Idle(p) ==
  \/ ~Active(p)
  \/ Receives(p) /\ inbox[p] = None /\ view[p] = <<>> /\ lane[In(p)] = <<>>

\* Without the fault "slow", time passes only when nothing else can happen.
TimePasses == "slow" \in faults \/ \A p \in Parties : Idle(p)

PollEnds(p) ==
  /\ Receives(p) /\ TimePasses
  /\ PollExpires(p)
  /\ UNCHANGED <<setting, progress, records>>

\* The bug of a file reader that waits for ever.
Deadline_HttpOnly(p) ==
  /\ backend = "http"
  /\ Receives(p) /\ AtLoopTop(p) /\ TimePasses
  /\ Fails(p)
  /\ UNCHANGED <<setting, boxes, peer, records>>

\* recv looks at its deadline between two polls.
Deadline(p) ==
  /\ Receives(p) /\ AtLoopTop(p) /\ TimePasses
  /\ Fails(p)
  /\ UNCHANGED <<setting, boxes, peer, records>>

\* A command is interrupted; a request of recv fails; reading the file does.
Breaks(p) ==
  /\ \/ "quit" \in faults /\ Active(p)
     \/ "cut" \in faults /\ backend = "http" /\ Receives(p)
     \/ "io" \in faults /\ backend = "fs" /\ Receives(p)
  /\ Fails(p) /\ Abandon(p)
  /\ UNCHANGED <<setting, peer, records>>

\* A lane is dropped when unused for 900 s.  The host sends at once when it
\* shows the code and no recv lasts that long, so it has given up by then.
Expire(l) ==
  /\ "slow" \in faults /\ ~Active(Host)
  /\ Collect(l)
  /\ UNCHANGED <<setting, progress, records>>

\* The server's boxes are in memory; the polls that wait fail.
Restart ==
  /\ "restart" \in faults /\ backend = "http"
  /\ lane' = [l \in Lanes |-> <<>>]
  /\ waiters' = [l \in Lanes |-> <<>>]
  /\ failed' = failed \cup {p \in Parties : Waiting(p)}
  /\ UNCHANGED <<setting, view, inbox, pc, peer, records>>

-----------------------------------------------------------------------------
HostStep == SendOffer \/ TakeAccept
GuestStep(g) == TakeOffer(g) \/ SendAccept(g) \/ StoreHost(g)
Run(p) == Receive(p) \/ TakeSpake(p)

\* All commands have ended; nothing has to happen any more.
Ended == (\A p \in Parties : ~Active(p)) /\ UNCHANGED vars

Trouble(p) == PollEnds(p) \/ Deadline(p) \/ Breaks(p)

Next ==
  \/ HostStep
  \/ \E g \in Guests : GuestStep(g)
  \/ \E p \in Parties : SendSpake(p) \/ Run(p) \/ Trouble(p)
  \/ \E l \in Lanes : Expire(l)
  \/ Restart
  \/ Ended

\* Commands that were started go on, polls end, and a recv that goes on
\* polling passes its deadline in the end.
Fairness ==
  /\ WF_vars(HostStep)
  /\ \A g \in Guests : WF_vars(GuestStep(g))
  /\ \A p \in Parties :
       WF_vars(Run(p)) /\ WF_vars(PollEnds(p)) /\ SF_vars(Deadline(p))

Spec == Init /\ [][Next]_vars
FairSpec == Spec /\ Fairness

-----------------------------------------------------------------------------
(* Properties.                                                             *)

\* A device trusts another only if a guest command of the one and the host
\* command hold the same key and the guest has checked the host's identity:
\* repeated commands, stolen, duplicated and lost messages never mix parties.
MutualKey ==
  /\ \A d \in hostTrusts \cup guestTrusts :
       \E g \in Guests :
         Device[g] = d /\ Secret(g) = Secret(Host) /\ pc[g] \in Verified
  /\ hostTrusts # {} => pc[Host] = "done"

\* The ceremony does no more than PairContract allows.
Contract == INSTANCE PairContract WITH
  partner <- peer[Host], confirmed <- {g \in Guests : pc[g] \in Verified}
ImplementsContract == Contract!ContractSpec

\* Every command ends, whatever was lost, as the mailbox gives up after its
\* deadline.
PairEnds ==
  \A p \in Parties : pc[p] # "start" /\ "slow" \in faults ~> ~Active(p)

Alone(g) == \A o \in Guests \ {g} : pc[o] = "start"
Linked(g) == pc[Host] = "done" /\ pc[g] = "done"

\* With the HTTP mailbox, nothing failing and both sides in time, the first
\* guest and the host link unless another guest joins in.
PairCompletes ==
  \A g \in Guests :
    (backend = "http" /\ faults = {} /\ Alone(g) /\ pc[Host] # "start" /\ pc[g] # "start")
      ~> (Linked(g) /\ Device[g] \in hostTrusts \cap guestTrusts) \/ ~Alone(g)

\* docs/M1-M3.md:31 and rendezvous.rs:19: recv waits for the next message, so
\* while the host does, a message posted for it is there.  It does not hold for
\* the box of the HTTP server, where a poll that has ended still waits.
PostedArrives ==
  Receives(Host) /\ pc[Host] = "awaitKey" /\ (\E g \in Guests : pc[g] # "start")
    => lane["g2h"] # <<>> \/ view[Host] # <<>> \/ inbox[Host] # None
=============================================================================
