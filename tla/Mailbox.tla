------------------------------ MODULE Mailbox ------------------------------
(***************************************************************************)
(* The box of one pairing code, with a lane in each direction, kept either *)
(* by the HTTP server (mymesh mailbox) in its memory or in two files of a  *)
(* shared directory.  A step is one request the server handles under its   *)
(* lock, or one access to a file.                                          *)
(*                                                                         *)
(* An HTTP client that finds its lane empty leaves a waiter behind; when   *)
(* its request is over, the waiter stays in the lane and is None below.    *)
(***************************************************************************)
EXTENDS Naturals, Sequences, FiniteSets

CONSTANTS Host,      \* the command that shows the code
          Guests,    \* the commands that enter it
          None,
          MaxWaiters \* bound: waiters a lane may hold when another is added

Parties == Guests \cup {Host}
Lanes == {"h2g", "g2h"}

Out(p) == IF p = Host THEN "h2g" ELSE "g2h"
In(p)  == IF p = Host THEN "g2h" ELSE "h2g"

VARIABLES backend,   \* which mailbox the configuration names
          lane,      \* messages queued, or lines of the lane's file
          waiters,   \* oneshot senders of the lane's waiting requests
          view,      \* what a reader of the file has read and not yet rewritten
          inbox      \* message that recv is about to return

boxes == <<lane, waiters, view, inbox>>

BoxTypeOK(Message) ==
  /\ backend \in {"http", "fs"}
  /\ lane \in [Lanes -> Seq(Message)]
  /\ waiters \in [Lanes -> Seq(Parties \cup {None})]
  /\ view \in [Parties -> Seq(Message)]
  /\ inbox \in [Parties -> Message \cup {None}]

BoxInit ==
  /\ lane = [l \in Lanes |-> <<>>]
  /\ waiters = [l \in Lanes |-> <<>>]
  /\ view = [p \in Parties |-> <<>>]
  /\ inbox = [p \in Parties |-> None]

Waiting(p) == \E i \in DOMAIN waiters[In(p)] : waiters[In(p)][i] = p

\* p has no request under way and has not read the file.
AtLoopTop(p) == inbox[p] = None /\ view[p] = <<>> /\ ~Waiting(p)

-----------------------------------------------------------------------------
(* Sending.                                                                *)

Queue(l, m) ==
  /\ waiters[l] = <<>>
  /\ lane' = [lane EXCEPT ![l] = Append(@, m)]
  /\ UNCHANGED <<waiters, inbox>>

\* The oldest waiter gets the message; w.send fails silently if its request
\* is over.
HandOver(l, m) ==
  /\ waiters[l] # <<>>
  /\ waiters' = [waiters EXCEPT ![l] = Tail(@)]
  /\ inbox' = [p \in Parties |-> IF p = Head(waiters[l]) THEN m ELSE inbox[p]]
  /\ UNCHANGED lane

Push(l, m) == (Queue(l, m) \/ HandOver(l, m)) /\ UNCHANGED view

-----------------------------------------------------------------------------
(* Receiving over HTTP.                                                    *)

GetQueued(p) ==
  /\ lane[In(p)] # <<>>
  /\ lane' = [lane EXCEPT ![In(p)] = Tail(@)]
  /\ inbox' = [inbox EXCEPT ![p] = Head(lane[In(p)])]
  /\ UNCHANGED waiters

GetWaits(p) ==
  /\ lane[In(p)] = <<>>
  /\ Len(waiters[In(p)]) < MaxWaiters
  /\ waiters' = [waiters EXCEPT ![In(p)] = Append(@, p)]
  /\ UNCHANGED <<lane, inbox>>

\* The bug of looking at the queue only after the wait.
Get_WaitsFirst(p) ==
  /\ backend = "http" /\ AtLoopTop(p)
  /\ Len(waiters[In(p)]) < MaxWaiters
  /\ waiters' = [waiters EXCEPT ![In(p)] = Append(@, p)]
  /\ UNCHANGED <<lane, inbox, view>>

Get(p) ==
  /\ backend = "http" /\ AtLoopTop(p)
  /\ GetQueued(p) \/ GetWaits(p)
  /\ UNCHANGED view

WithoutReceiver(p, ws) == [i \in DOMAIN ws |-> IF ws[i] = p THEN None ELSE ws[i]]

\* The request is answered 204 after wait_ms; its sender stays in the lane.
PollExpires(p) ==
  /\ Waiting(p)
  /\ waiters' = [waiters EXCEPT ![In(p)] = WithoutReceiver(p, @)]
  /\ UNCHANGED <<lane, view, inbox>>

\* The garbage collector drops a lane that nobody has used for 900 s; requests
\* that still wait are answered 204.
Collect(l) ==
  /\ backend = "http"
  /\ lane' = [lane EXCEPT ![l] = <<>>]
  /\ waiters' = [waiters EXCEPT ![l] = <<>>]
  /\ UNCHANGED <<view, inbox>>

-----------------------------------------------------------------------------
(* Receiving from the file: read it, then write it without its first line. *)

Read(p) ==
  /\ backend = "fs" /\ AtLoopTop(p)
  /\ lane[In(p)] # <<>>
  /\ view' = [view EXCEPT ![p] = lane[In(p)]]
  /\ UNCHANGED <<lane, waiters, inbox>>

Rewrite(p) ==
  /\ view[p] # <<>>
  /\ lane' = [lane EXCEPT ![In(p)] = Tail(view[p])]
  /\ inbox' = [inbox EXCEPT ![p] = Head(view[p])]
  /\ view' = [view EXCEPT ![p] = <<>>]
  /\ UNCHANGED waiters

-----------------------------------------------------------------------------
\* The command ends inside recv: what it was handed is gone, its waiter is
\* closed, and a file it had truncated to write the rest stays empty.
Abandon(p) ==
  /\ waiters' = [waiters EXCEPT ![In(p)] = WithoutReceiver(p, @)]
  /\ view' = [view EXCEPT ![p] = <<>>]
  /\ inbox' = [inbox EXCEPT ![p] = None]
  /\ \/ UNCHANGED lane
     \/ Len(view[p]) > 1 /\ lane' = [lane EXCEPT ![In(p)] = <<>>]
=============================================================================
