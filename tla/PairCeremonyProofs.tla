------------------------- MODULE PairCeremonyProofs -------------------------
(***************************************************************************)
(* Proofs about the code ceremony over either mailbox, for any number of   *)
(* guest commands and devices, every bound on waiters and every set of     *)
(* faults.                                                                 *)
(***************************************************************************)
EXTENDS PairCeremony, TLAPS

\* Message m is on its way in lane l: queued, read from the file or returned.
Carries(l, m) ==
  \/ \E i \in 1 .. Len(lane[l]) : lane[l][i] = m
  \/ \E p \in Parties : In(p) = l /\ \E i \in 1 .. Len(view[p]) : view[p][i] = m
  \/ \E p \in Parties : In(p) = l /\ inbox[p] = m

\* Requests wait in the lane they read.
WaitersOK ==
  \A l \in Lanes : \A i \in 1 .. Len(waiters[l]) :
    waiters[l][i] # None => In(waiters[l][i]) = l

\* Points of the host at and after which its key is fixed.
Keyed == {"sendOffer", "awaitAccept", "done"}

\* What a message says of its sender is so.
Truthful(l, m) ==
  /\ m.type = "spake" => Out(m.from) = l
  /\ m.type = "offer" =>
       l = "h2g" /\ pc[Host] \in Keyed /\ m.binder = Secret(Host)
  /\ m.type = "accept" =>
       l = "g2h" /\ pc[m.from] \in Verified /\ m.binder = Secret(m.from)

Honest == \A l \in Lanes : \A m \in Message : Carries(l, m) => Truthful(l, m)

\* Whose key each command holds at each of its points.
Keys ==
  /\ \A p \in Parties : pc[p] \in {"start", "awaitKey"} => peer[p] = None
  /\ pc[Host] \in Keyed => peer[Host] \in Guests
  /\ \A g \in Guests : pc[g] \notin {"start", "awaitKey"} => peer[g] = Host
  /\ \A g \in Guests :
       pc[g] \in Verified => pc[Host] \in Keyed /\ peer[Host] = g

Stored ==
  /\ \A d \in hostTrusts \cup guestTrusts :
       \E g \in Guests : Device[g] = d /\ pc[g] \in Verified
  /\ hostTrusts # {} => pc[Host] = "done"

PairInv == TypeOK /\ WaitersOK /\ Honest /\ Keys /\ Stored

-----------------------------------------------------------------------------
(* The mailbox: its types, and that it invents and redirects nothing.      *)

LEMMA LaneFacts ==
  /\ "h2g" \in Lanes /\ "g2h" \in Lanes
  /\ \A p \in Parties : In(p) \in Lanes /\ Out(p) \in Lanes
  /\ Host \in Parties /\ \A g \in Guests : g \in Parties /\ g # Host
  /\ \A p \in Parties : p # None
BY PairAssumption DEF Lanes, Parties, In, Out

LEMMA AppendFacts ==
  ASSUME NEW S, NEW q \in Seq(S), NEW m \in S
  PROVE  /\ Append(q, m) \in Seq(S)
         /\ \A i \in 1 .. Len(Append(q, m)) :
              \/ i = Len(q) + 1 /\ Append(q, m)[i] = m
              \/ i \in 1 .. Len(q) /\ Append(q, m)[i] = q[i]
OBVIOUS

LEMMA TailFacts ==
  ASSUME NEW S, NEW q \in Seq(S), q # <<>>
  PROVE  /\ Tail(q) \in Seq(S) /\ Head(q) \in S
         /\ 1 \in 1 .. Len(q) /\ Head(q) = q[1]
         /\ \A i \in 1 .. Len(Tail(q)) :
              i + 1 \in 1 .. Len(q) /\ Tail(q)[i] = q[i + 1]
OBVIOUS

LEMMA QueuePush ==
  ASSUME BoxTypeOK(Message), WaitersOK, NEW l \in Lanes, NEW x \in Message,
         Queue(l, x), UNCHANGED <<backend, view>>
  PROVE  /\ BoxTypeOK(Message)' /\ WaitersOK'
         /\ \A k \in Lanes, m \in Message :
              Carries(k, m)' => Carries(k, m) \/ (k = l /\ m = x)
<1>1. lane[l] \in Seq(Message) /\ lane' = [lane EXCEPT ![l] = Append(lane[l], x)]
  BY DEF BoxTypeOK, Queue
<1>2. BoxTypeOK(Message)'
  <2>1. lane' \in [Lanes -> Seq(Message)]
    BY <1>1, AppendFacts DEF BoxTypeOK
  <2> QED BY <2>1 DEF BoxTypeOK, Queue
<1>3. WaitersOK' BY DEF WaitersOK, Queue
<1>4. ASSUME NEW k \in Lanes, NEW m \in Message, Carries(k, m)'
      PROVE  Carries(k, m) \/ (k = l /\ m = x)
  <2>1. CASE \E i \in 1 .. Len(lane'[k]) : lane'[k][i] = m
    <3>1. CASE k = l
      <4>1. lane'[l] = Append(lane[l], x) BY <1>1 DEF BoxTypeOK
      <4> QED BY <1>1, <2>1, <3>1, <4>1, AppendFacts DEF Carries
    <3>2. CASE k # l
      BY <1>1, <2>1, <3>2 DEF Carries, BoxTypeOK
    <3> QED BY <3>1, <3>2
  <2>2. CASE ~\E i \in 1 .. Len(lane'[k]) : lane'[k][i] = m
    BY <1>4, <2>2 DEF Carries, Queue
  <2> QED BY <2>1, <2>2
<1> QED BY <1>2, <1>3, <1>4

LEMMA HandOverPush ==
  ASSUME BoxTypeOK(Message), WaitersOK, NEW l \in Lanes, NEW x \in Message,
         HandOver(l, x), UNCHANGED <<backend, view>>
  PROVE  /\ BoxTypeOK(Message)' /\ WaitersOK'
         /\ \A k \in Lanes, m \in Message :
              Carries(k, m)' => Carries(k, m) \/ (k = l /\ m = x)
<1> DEFINE w == waiters[l]
<1>1. w \in Seq(Parties \cup {None}) /\ w # <<>>
  BY DEF BoxTypeOK, HandOver
<1>2. /\ waiters' = [waiters EXCEPT ![l] = Tail(w)]
      /\ inbox' = [p \in Parties |-> IF p = Head(w) THEN x ELSE inbox[p]]
      /\ lane' = lane /\ view' = view
  BY DEF HandOver
<1>3. /\ Tail(w) \in Seq(Parties \cup {None})
      /\ 1 \in 1 .. Len(w) /\ Head(w) = w[1]
      /\ \A i \in 1 .. Len(Tail(w)) : i + 1 \in 1 .. Len(w) /\ Tail(w)[i] = w[i + 1]
  BY <1>1, TailFacts
<1>4. BoxTypeOK(Message)'
  BY <1>2, <1>3 DEF BoxTypeOK
<1>5. WaitersOK'
  BY <1>2, <1>3 DEF WaitersOK, BoxTypeOK
<1>6. Head(w) # None => In(Head(w)) = l
  BY <1>3 DEF WaitersOK
<1>7. ASSUME NEW k \in Lanes, NEW m \in Message, Carries(k, m)'
      PROVE  Carries(k, m) \/ (k = l /\ m = x)
  <2>1. CASE \E p \in Parties : In(p) = k /\ inbox'[p] = m
    <3>1. PICK p \in Parties : In(p) = k /\ inbox'[p] = m BY <2>1
    <3>2. CASE p = Head(w)
      BY <1>2, <1>6, <3>1, <3>2, LaneFacts
    <3>3. CASE p # Head(w)
      BY <1>2, <3>1, <3>3 DEF Carries
    <3> QED BY <3>2, <3>3
  <2>2. CASE ~\E p \in Parties : In(p) = k /\ inbox'[p] = m
    BY <1>2, <1>7, <2>2 DEF Carries, In
  <2> QED BY <2>1, <2>2
<1> QED BY <1>4, <1>5, <1>7

LEMMA PushBox ==
  ASSUME BoxTypeOK(Message), WaitersOK, NEW l \in Lanes, NEW x \in Message,
         Push(l, x), UNCHANGED backend
  PROVE  /\ BoxTypeOK(Message)' /\ WaitersOK'
         /\ \A k \in Lanes, m \in Message :
              Carries(k, m)' => Carries(k, m) \/ (k = l /\ m = x)
BY QueuePush, HandOverPush DEF Push

\* Nothing new is on its way.
NothingNew == \A k \in Lanes, m \in Message : Carries(k, m)' => Carries(k, m)

LEMMA GetQueuedBox ==
  ASSUME BoxTypeOK(Message), WaitersOK, NEW p \in Parties,
         GetQueued(p), UNCHANGED <<backend, view>>
  PROVE  BoxTypeOK(Message)' /\ WaitersOK' /\ NothingNew
<1> DEFINE l == In(p)
           q == lane[l]
<1>1. l \in Lanes BY LaneFacts
<1>2. q \in Seq(Message) /\ q # <<>> BY <1>1 DEF BoxTypeOK, GetQueued
<1>3. /\ lane' = [lane EXCEPT ![l] = Tail(q)]
      /\ inbox' = [inbox EXCEPT ![p] = Head(q)]
      /\ waiters' = waiters /\ view' = view
  BY DEF GetQueued
<1>4. /\ Tail(q) \in Seq(Message) /\ Head(q) \in Message
      /\ 1 \in 1 .. Len(q) /\ Head(q) = q[1]
      /\ \A i \in 1 .. Len(Tail(q)) : i + 1 \in 1 .. Len(q) /\ Tail(q)[i] = q[i + 1]
  BY <1>2, TailFacts
<1>5. BoxTypeOK(Message)' BY <1>1, <1>3, <1>4 DEF BoxTypeOK
<1>6. WaitersOK' BY <1>3 DEF WaitersOK
<1>7. ASSUME NEW k \in Lanes, NEW m \in Message, Carries(k, m)'
      PROVE  Carries(k, m)
  <2>1. CASE \E i \in 1 .. Len(lane'[k]) : lane'[k][i] = m
    <3>1. CASE k = l
      <4>1. lane'[l] = Tail(q) BY <1>1, <1>3 DEF BoxTypeOK
      <4> QED BY <1>4, <2>1, <3>1, <4>1 DEF Carries
    <3>2. CASE k # l
      BY <1>3, <2>1, <3>2 DEF Carries, BoxTypeOK
    <3> QED BY <3>1, <3>2
  <2>2. CASE \E r \in Parties : In(r) = k /\ \E i \in 1 .. Len(view'[r]) : view'[r][i] = m
    BY <1>3, <2>2 DEF Carries
  <2>3. CASE \E r \in Parties : In(r) = k /\ inbox'[r] = m
    <3>1. PICK r \in Parties : In(r) = k /\ inbox'[r] = m BY <2>3
    <3>2. CASE r = p
      <4>1. inbox'[p] = q[1] BY <1>3, <1>4 DEF BoxTypeOK
      <4> QED BY <1>4, <3>1, <3>2, <4>1 DEF Carries
    <3>3. CASE r # p
      <4>1. inbox'[r] = inbox[r] BY <1>3, <3>3 DEF BoxTypeOK
      <4> QED BY <3>1, <4>1 DEF Carries
    <3> QED BY <3>2, <3>3
  <2> QED BY <1>7, <2>1, <2>2, <2>3 DEF Carries, In
<1> QED BY <1>5, <1>6, <1>7 DEF NothingNew

LEMMA GetWaitsBox ==
  ASSUME BoxTypeOK(Message), WaitersOK, NEW p \in Parties,
         GetWaits(p), UNCHANGED <<backend, view>>
  PROVE  BoxTypeOK(Message)' /\ WaitersOK' /\ NothingNew
<1> DEFINE l == In(p)
           w == waiters[l]
<1>1. l \in Lanes BY LaneFacts
<1>2. w \in Seq(Parties \cup {None}) BY <1>1 DEF BoxTypeOK
<1>3. /\ waiters' = [waiters EXCEPT ![l] = Append(w, p)]
      /\ lane' = lane /\ inbox' = inbox /\ view' = view
  BY DEF GetWaits
<1>4. /\ Append(w, p) \in Seq(Parties \cup {None})
      /\ \A i \in 1 .. Len(Append(w, p)) :
           \/ i = Len(w) + 1 /\ Append(w, p)[i] = p
           \/ i \in 1 .. Len(w) /\ Append(w, p)[i] = w[i]
  BY <1>2, AppendFacts
<1>5. BoxTypeOK(Message)' BY <1>1, <1>3, <1>4 DEF BoxTypeOK
<1>6. WaitersOK' BY <1>1, <1>3, <1>4 DEF WaitersOK, BoxTypeOK
<1>7. NothingNew BY <1>3 DEF NothingNew, Carries, In
<1> QED BY <1>5, <1>6, <1>7

LEMMA ReadBox ==
  ASSUME BoxTypeOK(Message), WaitersOK, NEW p \in Parties,
         Read(p), UNCHANGED backend
  PROVE  BoxTypeOK(Message)' /\ WaitersOK' /\ NothingNew
<1>1. In(p) \in Lanes BY LaneFacts
<1>2. /\ view' = [view EXCEPT ![p] = lane[In(p)]]
      /\ lane' = lane /\ inbox' = inbox /\ waiters' = waiters
  BY DEF Read
<1>3. BoxTypeOK(Message)' BY <1>1, <1>2 DEF BoxTypeOK
<1>4. WaitersOK' BY <1>2 DEF WaitersOK
<1>5. ASSUME NEW k \in Lanes, NEW m \in Message, Carries(k, m)'
      PROVE  Carries(k, m)
  <2>1. CASE \E r \in Parties : In(r) = k /\ \E i \in 1 .. Len(view'[r]) : view'[r][i] = m
    <3>1. PICK r \in Parties : In(r) = k /\ \E i \in 1 .. Len(view'[r]) : view'[r][i] = m
      BY <2>1
    <3>2. CASE r = p
      <4>1. view'[p] = lane[In(p)] BY <1>2 DEF BoxTypeOK
      <4> QED BY <3>1, <3>2, <4>1 DEF Carries
    <3>3. CASE r # p
      <4>1. view'[r] = view[r] BY <1>2, <3>3 DEF BoxTypeOK
      <4> QED BY <3>1, <4>1 DEF Carries
    <3> QED BY <3>2, <3>3
  <2>2. CASE ~\E r \in Parties : In(r) = k /\ \E i \in 1 .. Len(view'[r]) : view'[r][i] = m
    BY <1>2, <1>5, <2>2 DEF Carries, In
  <2> QED BY <2>1, <2>2
<1> QED BY <1>3, <1>4, <1>5 DEF NothingNew

LEMMA RewriteBox ==
  ASSUME BoxTypeOK(Message), WaitersOK, NEW p \in Parties,
         Rewrite(p), UNCHANGED backend
  PROVE  BoxTypeOK(Message)' /\ WaitersOK' /\ NothingNew
<1> DEFINE l == In(p)
           q == view[p]
<1>1. l \in Lanes BY LaneFacts
<1>2. q \in Seq(Message) /\ q # <<>> BY DEF BoxTypeOK, Rewrite
<1>3. /\ lane' = [lane EXCEPT ![l] = Tail(q)]
      /\ inbox' = [inbox EXCEPT ![p] = Head(q)]
      /\ view' = [view EXCEPT ![p] = <<>>]
      /\ waiters' = waiters
  BY DEF Rewrite
<1>4. /\ Tail(q) \in Seq(Message) /\ Head(q) \in Message
      /\ 1 \in 1 .. Len(q) /\ Head(q) = q[1]
      /\ \A i \in 1 .. Len(Tail(q)) : i + 1 \in 1 .. Len(q) /\ Tail(q)[i] = q[i + 1]
  BY <1>2, TailFacts
<1>5. BoxTypeOK(Message)' BY <1>1, <1>3, <1>4 DEF BoxTypeOK
<1>6. WaitersOK' BY <1>3 DEF WaitersOK
<1>7. ASSUME NEW k \in Lanes, NEW m \in Message, Carries(k, m)'
      PROVE  Carries(k, m)
  <2>1. CASE \E i \in 1 .. Len(lane'[k]) : lane'[k][i] = m
    <3>1. CASE k = l
      <4>1. lane'[l] = Tail(q) BY <1>1, <1>3 DEF BoxTypeOK
      <4> QED BY <1>4, <2>1, <3>1, <4>1 DEF Carries
    <3>2. CASE k # l
      BY <1>3, <2>1, <3>2 DEF Carries, BoxTypeOK
    <3> QED BY <3>1, <3>2
  <2>2. CASE \E r \in Parties : In(r) = k /\ \E i \in 1 .. Len(view'[r]) : view'[r][i] = m
    <3>1. PICK r \in Parties : In(r) = k /\ \E i \in 1 .. Len(view'[r]) : view'[r][i] = m
      BY <2>2
    <3>2. r # p BY <1>3, <3>1 DEF BoxTypeOK
    <3>3. view'[r] = view[r] BY <1>3, <3>2 DEF BoxTypeOK
    <3> QED BY <3>1, <3>3 DEF Carries
  <2>3. CASE \E r \in Parties : In(r) = k /\ inbox'[r] = m
    <3>1. PICK r \in Parties : In(r) = k /\ inbox'[r] = m BY <2>3
    <3>2. CASE r = p
      <4>1. inbox'[p] = q[1] BY <1>3, <1>4 DEF BoxTypeOK
      <4> QED BY <1>4, <3>1, <3>2, <4>1 DEF Carries
    <3>3. CASE r # p
      <4>1. inbox'[r] = inbox[r] BY <1>3, <3>3 DEF BoxTypeOK
      <4> QED BY <3>1, <4>1 DEF Carries
    <3> QED BY <3>2, <3>3
  <2> QED BY <1>7, <2>1, <2>2, <2>3 DEF Carries, In
<1> QED BY <1>5, <1>6, <1>7 DEF NothingNew

LEMMA WithoutReceiverFacts ==
  ASSUME NEW w \in Seq(Parties \cup {None}), NEW p \in Parties
  PROVE  /\ WithoutReceiver(p, w) \in Seq(Parties \cup {None})
         /\ Len(WithoutReceiver(p, w)) = Len(w)
         /\ \A i \in 1 .. Len(w) :
              WithoutReceiver(p, w)[i] = w[i] \/ WithoutReceiver(p, w)[i] = None
<1>1. DOMAIN w = 1 .. Len(w) /\ \A i \in 1 .. Len(w) : w[i] \in Parties \cup {None}
  OBVIOUS
<1> DEFINE f == [i \in 1 .. Len(w) |-> IF w[i] = p THEN None ELSE w[i]]
<1>2. WithoutReceiver(p, w) = f BY <1>1 DEF WithoutReceiver
<1>3. Len(w) \in Nat OBVIOUS
<1>4. f \in [1 .. Len(w) -> Parties \cup {None}] BY <1>1
<1>5. f \in Seq(Parties \cup {None}) BY <1>3, <1>4
<1>6. Len(f) = Len(w) BY <1>3, <1>5, <1>4
<1> HIDE DEF f
<1>7. \A i \in 1 .. Len(w) : f[i] = w[i] \/ f[i] = None BY DEF f
<1> QED BY <1>2, <1>5, <1>6, <1>7

\* A step that only empties things: lanes, inboxes, views, or waiters' ends.
LEMMA AbandonBox ==
  ASSUME BoxTypeOK(Message), WaitersOK, NEW p \in Parties,
         Abandon(p), UNCHANGED backend
  PROVE  BoxTypeOK(Message)' /\ WaitersOK' /\ NothingNew
<1> DEFINE l == In(p)
           w == waiters[l]
<1>1. l \in Lanes BY LaneFacts
<1>2. w \in Seq(Parties \cup {None}) BY <1>1 DEF BoxTypeOK
<1>3. waiters' = [waiters EXCEPT ![l] = WithoutReceiver(p, w)] BY DEF Abandon
<1>4. /\ WithoutReceiver(p, w) \in Seq(Parties \cup {None})
      /\ Len(WithoutReceiver(p, w)) = Len(w)
      /\ \A i \in 1 .. Len(w) :
           WithoutReceiver(p, w)[i] = w[i] \/ WithoutReceiver(p, w)[i] = None
  BY <1>2, WithoutReceiverFacts
<1>5. lane' = lane \/ lane' = [lane EXCEPT ![l] = <<>>] BY DEF Abandon
<1>6. /\ view' = [view EXCEPT ![p] = <<>>]
      /\ inbox' = [inbox EXCEPT ![p] = None]
  BY DEF Abandon
<1>7. BoxTypeOK(Message)'
  <2>1. lane' \in [Lanes -> Seq(Message)]
    <3>1. lane \in [Lanes -> Seq(Message)] /\ <<>> \in Seq(Message) BY DEF BoxTypeOK
    <3> QED BY <1>1, <1>5, <3>1
  <2>2. waiters' \in [Lanes -> Seq(Parties \cup {None})]
    BY <1>1, <1>3, <1>4 DEF BoxTypeOK
  <2>3. view' \in [Parties -> Seq(Message)] /\ inbox' \in [Parties -> Message \cup {None}]
    BY <1>6 DEF BoxTypeOK
  <2> QED BY <2>1, <2>2, <2>3 DEF BoxTypeOK
<1>8. WaitersOK' BY <1>1, <1>3, <1>4 DEF WaitersOK, BoxTypeOK
<1>9. ASSUME NEW k \in Lanes, NEW m \in Message, Carries(k, m)'
      PROVE  Carries(k, m)
  <2>1. CASE \E i \in 1 .. Len(lane'[k]) : lane'[k][i] = m
    BY <1>5, <2>1 DEF Carries, BoxTypeOK
  <2>2. CASE \E r \in Parties : In(r) = k /\ \E i \in 1 .. Len(view'[r]) : view'[r][i] = m
    BY <1>6, <2>2 DEF Carries, BoxTypeOK
  <2>3. CASE \E r \in Parties : In(r) = k /\ inbox'[r] = m
    BY <1>6, <2>3, NoneAssumption DEF Carries, BoxTypeOK
  <2> QED BY <1>9, <2>1, <2>2, <2>3 DEF Carries, In
<1> QED BY <1>7, <1>8, <1>9 DEF NothingNew

LEMMA PollExpiresBox ==
  ASSUME BoxTypeOK(Message), WaitersOK, NEW p \in Parties,
         PollExpires(p), UNCHANGED backend
  PROVE  BoxTypeOK(Message)' /\ WaitersOK' /\ NothingNew
<1> DEFINE l == In(p)
           w == waiters[l]
<1>1. l \in Lanes BY LaneFacts
<1>2. w \in Seq(Parties \cup {None}) BY <1>1 DEF BoxTypeOK
<1>3. /\ waiters' = [waiters EXCEPT ![l] = WithoutReceiver(p, w)]
      /\ lane' = lane /\ inbox' = inbox /\ view' = view
  BY DEF PollExpires
<1>4. /\ WithoutReceiver(p, w) \in Seq(Parties \cup {None})
      /\ Len(WithoutReceiver(p, w)) = Len(w)
      /\ \A i \in 1 .. Len(w) :
           WithoutReceiver(p, w)[i] = w[i] \/ WithoutReceiver(p, w)[i] = None
  BY <1>2, WithoutReceiverFacts
<1>5. BoxTypeOK(Message)' BY <1>1, <1>3, <1>4 DEF BoxTypeOK
<1>6. WaitersOK' BY <1>1, <1>3, <1>4 DEF WaitersOK, BoxTypeOK
<1>7. NothingNew BY <1>3 DEF NothingNew, Carries, In
<1> QED BY <1>5, <1>6, <1>7

\* Lanes and waiters are dropped, by the collector or with the server.
LEMMA DropBox ==
  ASSUME BoxTypeOK(Message), WaitersOK, UNCHANGED <<backend, view, inbox>>,
         NEW D \in SUBSET Lanes,
         lane' = [l \in Lanes |-> IF l \in D THEN <<>> ELSE lane[l]],
         waiters' = [l \in Lanes |-> IF l \in D THEN <<>> ELSE waiters[l]]
  PROVE  BoxTypeOK(Message)' /\ WaitersOK' /\ NothingNew
<1>1. BoxTypeOK(Message)' BY DEF BoxTypeOK
<1>2. WaitersOK' BY DEF WaitersOK, BoxTypeOK
<1>3. NothingNew BY DEF NothingNew, Carries, BoxTypeOK, In
<1> QED BY <1>1, <1>2, <1>3

\* recv returns p's message.
LEMMA TakeBox ==
  ASSUME BoxTypeOK(Message), WaitersOK, NEW p \in Parties,
         inbox' = [inbox EXCEPT ![p] = None],
         UNCHANGED <<backend, lane, waiters, view>>
  PROVE  BoxTypeOK(Message)' /\ WaitersOK' /\ NothingNew
<1>1. BoxTypeOK(Message)' BY DEF BoxTypeOK
<1>2. WaitersOK' BY DEF WaitersOK
<1>3. NothingNew BY NoneAssumption DEF NothingNew, Carries, BoxTypeOK, In
<1> QED BY <1>1, <1>2, <1>3

-----------------------------------------------------------------------------
(* The ceremony: what no step takes back, and what follows for messages.   *)

\* A key once made, and an offer once checked, stay.
Steady ==
  /\ pc[Host] \in Keyed => pc'[Host] \in Keyed /\ peer'[Host] = peer[Host]
  /\ \A g \in Guests :
       pc[g] \in Verified => pc'[g] \in Verified /\ peer'[g] = peer[g]

LEMMA MessageFacts ==
  /\ \A p \in Parties : Spake(p) \in Message
  /\ peer \in [Parties -> Parties \cup {None}] =>
       Offer \in Message /\ \A g \in Guests : Accept(g) \in Message
  /\ \A m \in Message :
       /\ m.type \in {"spake", "offer", "accept"}
       /\ m.type = "spake" => m.from \in Parties
       /\ m.type = "accept" => m.from \in Guests
<1>1. \A p \in Parties : Spake(p) \in Message BY DEF Spake, Message
<1>2. ASSUME peer \in [Parties -> Parties \cup {None}]
      PROVE  Offer \in Message /\ \A g \in Guests : Accept(g) \in Message
  <2>1. \A p \in Parties : Secret(p) \in SUBSET (Parties \cup {None})
    BY <1>2 DEF Secret
  <2>2. Offer \in Message BY <2>1, LaneFacts DEF Offer, Message
  <2>3. \A g \in Guests : Accept(g) \in Message BY <2>1, LaneFacts DEF Accept, Message
  <2> QED BY <2>2, <2>3
<1>3. ASSUME NEW m \in Message
      PROVE  /\ m.type \in {"spake", "offer", "accept"}
             /\ m.type = "spake" => m.from \in Parties
             /\ m.type = "accept" => m.from \in Guests
  BY DEF Message
<1> QED BY <1>1, <1>2, <1>3

LEMMA TruthStays ==
  ASSUME Steady, NEW l, NEW m \in Message, Truthful(l, m)
  PROVE  Truthful(l, m)'
BY MessageFacts DEF Steady, Truthful, Secret

LEMMA NothingSent ==
  ASSUME PairInv, BoxTypeOK(Message)', WaitersOK', NothingNew,
         UNCHANGED <<setting, pc, peer, records>>, failed' \subseteq Parties
  PROVE  PairInv'
<1>1. TypeOK' BY DEF PairInv, TypeOK, setting, records
<1>2. Steady BY DEF Steady
<1>3. Honest' BY <1>2, TruthStays DEF PairInv, Honest, NothingNew
<1>4. Keys' BY DEF PairInv, Keys
<1>5. Stored' BY DEF PairInv, Stored, records
<1> QED BY <1>1, <1>3, <1>4, <1>5 DEF PairInv

\* A request of send that reached the mailbox, whether its command learns of
\* it or fails.
LEMMA SomethingSent ==
  ASSUME PairInv, NEW p \in Parties, NEW x \in Message, Push(Out(p), x),
         UNCHANGED <<setting, peer, records>>, failed' \subseteq Parties,
         NEW next \in HostPCs \cup GuestPCs,
         pc' = pc \/ pc' = [pc EXCEPT ![p] = next],
         p = Host => next \in HostPCs, p # Host => next \in GuestPCs,
         Steady, Truthful(Out(p), x)', Keys', Stored'
  PROVE  PairInv'
<1>1. /\ BoxTypeOK(Message)' /\ WaitersOK'
      /\ \A k \in Lanes, m \in Message :
           Carries(k, m)' => Carries(k, m) \/ (k = Out(p) /\ m = x)
  BY PushBox, LaneFacts DEF PairInv, TypeOK, setting
<1>2. TypeOK'
  <2>1. pc' \in [Parties -> HostPCs \cup GuestPCs]
    BY DEF PairInv, TypeOK
  <2>2. pc'[Host] \in HostPCs /\ \A g \in Guests : pc'[g] \in GuestPCs
    BY LaneFacts DEF PairInv, TypeOK, Parties
  <2> QED BY <1>1, <2>1, <2>2 DEF PairInv, TypeOK, setting, records
<1>3. Honest'
  <2>1. ASSUME NEW k \in Lanes, NEW m \in Message, Carries(k, m)'
        PROVE  Truthful(k, m)'
    <3>1. CASE Carries(k, m)
      BY <3>1, TruthStays DEF PairInv, Honest
    <3>2. CASE k = Out(p) /\ m = x
      BY <3>2
    <3> QED BY <1>1, <2>1, <3>1, <3>2
  <2> QED BY <2>1 DEF Honest
<1> QED BY <1>1, <1>2, <1>3 DEF PairInv

\* A send that fails before the mailbox has the message.
LEMMA SendFails ==
  ASSUME PairInv, NEW p \in Parties, Fails(p), UNCHANGED boxes,
         UNCHANGED <<setting, peer, records>>
  PROVE  PairInv'
<1>1. BoxTypeOK(Message)' BY DEF PairInv, TypeOK, BoxTypeOK, boxes, setting
<1>2. WaitersOK' BY DEF PairInv, WaitersOK, boxes
<1>3. NothingNew BY DEF NothingNew, Carries, boxes, In
<1>4. failed' \subseteq Parties /\ UNCHANGED pc BY DEF Fails, PairInv, TypeOK
<1> QED BY <1>1, <1>2, <1>3, <1>4, NothingSent

-----------------------------------------------------------------------------
(* One lemma per action.                                                   *)

LEMMA InitInv == Init => PairInv
<1> SUFFICES ASSUME Init PROVE PairInv OBVIOUS
<1>1. TypeOK
  <2>1. BoxTypeOK(Message) BY PairAssumption DEF Init, BoxInit, BoxTypeOK
  <2>2. faults \in SUBSET FaultKinds BY PairAssumption DEF Init
  <2> QED BY <2>1, <2>2, LaneFacts DEF Init, TypeOK, HostPCs, GuestPCs
<1>2. WaitersOK BY DEF Init, BoxInit, WaitersOK
<1>3. Honest
  <2>1. \A l \in Lanes, m \in Message : ~Carries(l, m)
    BY NoneAssumption DEF Init, BoxInit, Carries, In, Lanes
  <2> QED BY <2>1 DEF Honest
<1>4. Keys BY LaneFacts DEF Init, Keys, Keyed, Verified
<1>5. Stored BY DEF Init, Stored
<1> QED BY <1>1, <1>2, <1>3, <1>4, <1>5 DEF PairInv

LEMMA SendSpakeInv ==
  ASSUME PairInv, NEW p \in Parties, SendSpake(p)
  PROVE  PairInv'
<1>1. /\ pc[p] = "start" /\ UNCHANGED <<setting, peer, records>>
      /\ failed \subseteq Parties
  BY DEF SendSpake, Sends, PairInv, TypeOK
<1>2. CASE Push(Out(p), Spake(p)) /\ (GoesTo(p, "awaitKey") \/ Fails(p))
  <2>1. PICK x \in Message : x = Spake(p) BY MessageFacts
  <2>2. "awaitKey" \in HostPCs \cap GuestPCs BY DEF HostPCs, GuestPCs
  <2>3. /\ pc' = pc \/ pc' = [pc EXCEPT ![p] = "awaitKey"]
        /\ failed' \subseteq Parties
    BY <1>1, <1>2 DEF GoesTo, Fails
  <2>4. /\ pc'[p] \in {"start", "awaitKey"}
        /\ \A q \in Parties : q # p => pc'[q] = pc[q]
    BY <1>1, <2>3 DEF PairInv, TypeOK
  <2>5. Steady BY <1>1, <2>4, LaneFacts DEF Steady, Keyed, Verified
  <2>6. Truthful(Out(p), x)' BY <2>1 DEF Truthful, Spake
  <2>7. Keys'
    BY <1>1, <2>4, LaneFacts DEF PairInv, Keys, Keyed, Verified
  <2>8. Stored'
    BY <1>1, <2>4, LaneFacts DEF PairInv, Stored, Verified, records
  <2> HIDE DEF Verified, Keyed
  <2> QED BY <1>1, <1>2, <2>1, <2>2, <2>3, <2>5, <2>6, <2>7, <2>8, SomethingSent
<1>3. CASE Fails(p) /\ UNCHANGED boxes
  BY <1>1, <1>3, SendFails
<1> QED BY <1>2, <1>3 DEF SendSpake, Sends

LEMMA SendOfferInv ==
  ASSUME PairInv, SendOffer
  PROVE  PairInv'
<1>1. /\ pc[Host] = "sendOffer" /\ UNCHANGED <<setting, peer, records>>
      /\ failed \subseteq Parties /\ Host \in Parties
  BY LaneFacts DEF SendOffer, Sends, PairInv, TypeOK
<1>2. CASE Push(Out(Host), Offer) /\ (GoesTo(Host, "awaitAccept") \/ Fails(Host))
  <2>1. PICK x \in Message : x = Offer
    BY MessageFacts DEF PairInv, TypeOK
  <2>2. "awaitAccept" \in HostPCs BY DEF HostPCs
  <2>3. /\ pc' = pc \/ pc' = [pc EXCEPT ![Host] = "awaitAccept"]
        /\ failed' \subseteq Parties
    BY <1>1, <1>2 DEF GoesTo, Fails
  <2>4. /\ pc'[Host] \in {"sendOffer", "awaitAccept"}
        /\ \A q \in Parties : q # Host => pc'[q] = pc[q]
    BY <1>1, <2>3 DEF PairInv, TypeOK
  <2>5. Steady BY <1>1, <2>4, LaneFacts DEF Steady, Keyed
  <2>6. Truthful(Out(Host), x)'
    BY <1>1, <2>1, <2>4 DEF Truthful, Offer, Keyed, Secret, Out
  <2>7. Keys' BY <1>1, <2>4, LaneFacts DEF PairInv, Keys, Keyed
  <2>8. Stored' BY <1>1, <2>4, LaneFacts DEF PairInv, Stored, records
  <2> QED BY <1>1, <1>2, <2>1, <2>2, <2>3, <2>5, <2>6, <2>7, <2>8, SomethingSent
<1>3. CASE Fails(Host) /\ UNCHANGED boxes
  BY <1>1, <1>3, SendFails
<1> QED BY <1>2, <1>3 DEF SendOffer, Sends

LEMMA SendAcceptInv ==
  ASSUME PairInv, NEW g \in Guests, SendAccept(g)
  PROVE  PairInv'
<1>1. /\ pc[g] = "sendAccept" /\ UNCHANGED <<setting, peer, records>>
      /\ failed \subseteq Parties /\ g \in Parties /\ g # Host
  BY LaneFacts DEF SendAccept, Sends, PairInv, TypeOK
<1>2. CASE Push(Out(g), Accept(g)) /\ (GoesTo(g, "store") \/ Fails(g))
  <2>1. PICK x \in Message : x = Accept(g)
    BY MessageFacts DEF PairInv, TypeOK
  <2>2. "store" \in GuestPCs BY DEF GuestPCs
  <2>3. /\ pc' = pc \/ pc' = [pc EXCEPT ![g] = "store"]
        /\ failed' \subseteq Parties
    BY <1>1, <1>2 DEF GoesTo, Fails
  <2>4. /\ pc'[g] \in {"sendAccept", "store"}
        /\ \A q \in Parties : q # g => pc'[q] = pc[q]
    BY <1>1, <2>3 DEF PairInv, TypeOK
  <2>5. Steady BY <1>1, <2>4, LaneFacts DEF Steady, Verified
  <2>6. Truthful(Out(g), x)'
    BY <1>1, <2>1, <2>4 DEF Truthful, Accept, Verified, Secret, Out
  <2>7. Keys' BY <1>1, <2>4, LaneFacts DEF PairInv, Keys, Verified
  <2>8. Stored' BY <1>1, <2>4, LaneFacts DEF PairInv, Stored, Verified, records
  <2> QED BY <1>1, <1>2, <2>1, <2>2, <2>3, <2>5, <2>6, <2>7, <2>8, SomethingSent
<1>3. CASE Fails(g) /\ UNCHANGED boxes
  BY <1>1, <1>3, SendFails
<1> QED BY <1>2, <1>3 DEF SendAccept, Sends

LEMMA ReceiveInv ==
  ASSUME PairInv, NEW p \in Parties, Receive(p)
  PROVE  PairInv'
<1>1. /\ UNCHANGED <<setting, pc, peer, records>> /\ failed' = failed
      /\ UNCHANGED backend /\ BoxTypeOK(Message) /\ WaitersOK
      /\ failed \subseteq Parties
  BY DEF Receive, progress, setting, PairInv, TypeOK
<1>2. BoxTypeOK(Message)' /\ WaitersOK' /\ NothingNew
  <2>1. CASE Get(p) BY <1>1, <2>1, GetQueuedBox, GetWaitsBox DEF Get
  <2>2. CASE Read(p) BY <1>1, <2>2, ReadBox
  <2>3. CASE Rewrite(p) BY <1>1, <2>3, RewriteBox
  <2> QED BY <2>1, <2>2, <2>3 DEF Receive
<1> QED BY <1>1, <1>2, NothingSent

LEMMA TakesOtherInv ==
  ASSUME PairInv, NEW p \in Parties, NEW at, Takes(p, at), Fails(p),
         UNCHANGED <<peer, records>>
  PROVE  PairInv'
<1>1. BoxTypeOK(Message)' /\ WaitersOK' /\ NothingNew
  BY TakeBox DEF Takes, PairInv, TypeOK, setting
<1>2. UNCHANGED <<setting, pc>> /\ failed' \subseteq Parties
  BY DEF Takes, Fails, PairInv, TypeOK
<1> QED BY <1>1, <1>2, NothingSent

\* What recv returns was on its way, so it is true.
LEMMA TakenFacts ==
  ASSUME PairInv, NEW p \in Parties, NEW at, Takes(p, at)
  PROVE  /\ inbox[p] \in Message /\ Truthful(In(p), inbox[p])
         /\ BoxTypeOK(Message)' /\ WaitersOK' /\ NothingNew
         /\ UNCHANGED setting /\ pc[p] = at
<1>1. inbox[p] \in Message BY DEF Takes, PairInv, TypeOK, BoxTypeOK
<1>2. In(p) \in Lanes /\ Carries(In(p), inbox[p]) BY LaneFacts DEF Carries
<1>3. Truthful(In(p), inbox[p]) BY <1>1, <1>2 DEF PairInv, Honest
<1>4. BoxTypeOK(Message)' /\ WaitersOK' /\ NothingNew
  BY TakeBox DEF Takes, PairInv, TypeOK, setting
<1> QED BY <1>1, <1>3, <1>4 DEF Takes

LEMMA HonestStays == PairInv /\ Steady /\ NothingNew => Honest'
BY TruthStays DEF PairInv, Honest, NothingNew

LEMMA TakeSpakeInv ==
  ASSUME PairInv, NEW p \in Parties, TakeSpake(p)
  PROVE  PairInv'
<1>1. CASE /\ Takes(p, "awaitKey") /\ IsSpake(inbox[p])
           /\ peer' = [peer EXCEPT ![p] = inbox[p].from]
           /\ GoesTo(p, IF p = Host THEN "sendOffer" ELSE "awaitOffer")
           /\ UNCHANGED records
  <2>1. /\ inbox[p] \in Message /\ Truthful(In(p), inbox[p])
        /\ BoxTypeOK(Message)' /\ WaitersOK' /\ NothingNew
        /\ UNCHANGED setting /\ pc[p] = "awaitKey"
    BY <1>1, TakenFacts
  <2>2. PICK q \in Parties : q = inbox[p].from /\ Out(q) = In(p)
    BY <1>1, <2>1, MessageFacts DEF IsSpake, Truthful
  <2>3. IF p = Host THEN q \in Guests ELSE q = Host
    BY <2>2, LaneFacts DEF In, Out, Parties
  <2>4. /\ peer' \in [Parties -> Parties \cup {None}]
        /\ pc' \in [Parties -> HostPCs \cup GuestPCs]
        /\ peer'[p] = q /\ pc'[p] = IF p = Host THEN "sendOffer" ELSE "awaitOffer"
        /\ \A o \in Parties : o # p => peer'[o] = peer[o] /\ pc'[o] = pc[o]
    BY <1>1, <2>2 DEF PairInv, TypeOK, GoesTo, HostPCs, GuestPCs
  <2>5. TypeOK'
    <3>1. pc'[Host] \in HostPCs /\ \A g \in Guests : pc'[g] \in GuestPCs
      BY <2>4, LaneFacts DEF PairInv, TypeOK, HostPCs, GuestPCs
    <3> QED BY <1>1, <2>1, <2>4, <3>1 DEF PairInv, TypeOK, GoesTo, setting, records
  <2>6. Steady BY <2>1, <2>4, LaneFacts DEF Steady, Keyed, Verified
  <2>7. Keys'
    <3>1. p = Host => \A g \in Guests : pc[g] \notin Verified
      BY <2>1 DEF PairInv, Keys, Keyed
    <3> QED BY <2>1, <2>3, <2>4, <3>1, LaneFacts DEF PairInv, Keys, Keyed, Verified
  <2>8. Stored'
    BY <1>1, <2>1, <2>4, LaneFacts DEF PairInv, Stored, Verified, records
  <2> QED BY <2>1, <2>5, <2>6, <2>7, <2>8, HonestStays DEF PairInv
<1>2. CASE TakesOther(p, "awaitKey", IsSpake(inbox[p]))
  BY <1>2, TakesOtherInv DEF TakesOther
<1> QED BY <1>1, <1>2 DEF TakeSpake

LEMMA TakeOfferInv ==
  ASSUME PairInv, NEW g \in Guests, TakeOffer(g)
  PROVE  PairInv'
<1>0. g \in Parties /\ g # Host BY LaneFacts
<1>1. CASE /\ Takes(g, "awaitOffer") /\ GoodOffer(g, inbox[g])
           /\ GoesTo(g, "sendAccept")
           /\ UNCHANGED <<peer, records>>
  <2>1. /\ inbox[g] \in Message /\ Truthful(In(g), inbox[g])
        /\ BoxTypeOK(Message)' /\ WaitersOK' /\ NothingNew
        /\ UNCHANGED setting /\ pc[g] = "awaitOffer"
    BY <1>0, <1>1, TakenFacts
  <2>2. pc[Host] \in Keyed /\ Secret(g) = Secret(Host)
    BY <1>1, <2>1 DEF GoodOffer, Truthful
  <2>3. peer[Host] = g
    <3>1. peer[Host] \in Guests /\ peer[g] = Host
      BY <2>1, <2>2 DEF PairInv, Keys
    <3> QED BY <1>0, <2>2, <3>1 DEF Secret
  <2>4. /\ pc' \in [Parties -> HostPCs \cup GuestPCs]
        /\ pc'[g] = "sendAccept" /\ \A o \in Parties : o # g => pc'[o] = pc[o]
    BY <1>0, <1>1 DEF PairInv, TypeOK, GoesTo, GuestPCs
  <2>5. TypeOK'
    <3>1. pc'[Host] \in HostPCs /\ \A o \in Guests : pc'[o] \in GuestPCs
      BY <1>0, <2>4, LaneFacts DEF PairInv, TypeOK, GuestPCs
    <3> QED BY <1>1, <2>1, <2>4, <3>1 DEF PairInv, TypeOK, GoesTo, setting, records
  <2>6. Steady BY <1>0, <1>1, <2>1, <2>4, LaneFacts DEF Steady, Verified
  <2>7. Keys'
    BY <1>0, <1>1, <2>1, <2>2, <2>3, <2>4, LaneFacts DEF PairInv, Keys
  <2>8. Stored'
    BY <1>0, <1>1, <2>1, <2>4, LaneFacts DEF PairInv, Stored, Verified, records
  <2> QED BY <2>1, <2>5, <2>6, <2>7, <2>8, HonestStays DEF PairInv
<1>2. CASE TakesOther(g, "awaitOffer", GoodOffer(g, inbox[g]))
  BY <1>0, <1>2, TakesOtherInv DEF TakesOther
<1> QED BY <1>1, <1>2 DEF TakeOffer

LEMMA StoreHostInv ==
  ASSUME PairInv, NEW g \in Guests, StoreHost(g)
  PROVE  PairInv'
<1>0. g \in Parties /\ g # Host BY LaneFacts
<1>1. /\ pc[g] = "store" /\ UNCHANGED <<setting, boxes, peer, hostTrusts>>
      /\ BoxTypeOK(Message)' /\ WaitersOK' /\ NothingNew
  <2>1. pc[g] = "store" /\ UNCHANGED <<setting, boxes, peer, hostTrusts>>
    BY DEF StoreHost
  <2>2. BoxTypeOK(Message)' BY <2>1 DEF PairInv, TypeOK, BoxTypeOK, boxes, setting
  <2>3. WaitersOK' BY <2>1 DEF PairInv, WaitersOK, boxes
  <2>4. NothingNew BY <2>1 DEF NothingNew, Carries, boxes, In
  <2> QED BY <2>1, <2>2, <2>3, <2>4
<1>2. CASE guestTrusts' = guestTrusts \cup {Device[g]} /\ GoesTo(g, "done")
  <2>1. /\ pc' \in [Parties -> HostPCs \cup GuestPCs]
        /\ pc'[g] = "done" /\ \A o \in Parties : o # g => pc'[o] = pc[o]
    BY <1>0, <1>2 DEF PairInv, TypeOK, GoesTo, GuestPCs
  <2>2. TypeOK'
    <3>1. pc'[Host] \in HostPCs /\ \A o \in Guests : pc'[o] \in GuestPCs
      BY <1>0, <2>1, LaneFacts DEF PairInv, TypeOK, GuestPCs
    <3>2. guestTrusts' \subseteq Devices BY <1>2 DEF PairInv, TypeOK, Devices
    <3> QED BY <1>1, <1>2, <2>1, <3>1, <3>2 DEF PairInv, TypeOK, GoesTo, setting
  <2>3. Steady BY <1>0, <1>1, <2>1, LaneFacts DEF Steady, Verified
  <2>4. Keys' BY <1>0, <1>1, <2>1, LaneFacts DEF PairInv, Keys, Verified
  <2>5. Stored'
    BY <1>0, <1>1, <1>2, <2>1, LaneFacts DEF PairInv, Stored, Verified
  <2> QED BY <1>1, <2>2, <2>3, <2>4, <2>5, HonestStays DEF PairInv
<1>3. CASE Fails(g) /\ UNCHANGED guestTrusts
  BY <1>0, <1>1, <1>3, SendFails DEF records
<1> QED BY <1>2, <1>3 DEF StoreHost

LEMMA TakeAcceptInv ==
  ASSUME PairInv, TakeAccept
  PROVE  PairInv'
<1>0. Host \in Parties BY LaneFacts
<1>1. CASE /\ Takes(Host, "awaitAccept") /\ GoodAccept(inbox[Host])
           /\ hostTrusts' = hostTrusts \cup {Device[inbox[Host].from]}
           /\ GoesTo(Host, "done")
           /\ UNCHANGED <<peer, guestTrusts>>
  <2>1. /\ inbox[Host] \in Message /\ Truthful(In(Host), inbox[Host])
        /\ BoxTypeOK(Message)' /\ WaitersOK' /\ NothingNew
        /\ UNCHANGED setting /\ pc[Host] = "awaitAccept"
    BY <1>0, <1>1, TakenFacts
  <2>2. PICK g \in Guests : g = inbox[Host].from /\ pc[g] \in Verified
    BY <1>1, <2>1, MessageFacts DEF GoodAccept, Truthful
  <2>3. /\ pc' \in [Parties -> HostPCs \cup GuestPCs]
        /\ pc'[Host] = "done" /\ \A o \in Parties : o # Host => pc'[o] = pc[o]
    BY <1>0, <1>1 DEF PairInv, TypeOK, GoesTo, HostPCs
  <2>4. TypeOK'
    <3>1. pc'[Host] \in HostPCs /\ \A o \in Guests : pc'[o] \in GuestPCs
      BY <2>3, LaneFacts DEF PairInv, TypeOK, HostPCs
    <3>2. hostTrusts' \subseteq Devices BY <1>1, <2>2 DEF PairInv, TypeOK, Devices
    <3> QED BY <1>1, <2>1, <2>3, <3>1, <3>2 DEF PairInv, TypeOK, GoesTo, setting
  <2>5. Steady BY <1>1, <2>1, <2>3, LaneFacts DEF Steady, Keyed
  <2>6. Keys' BY <1>1, <2>1, <2>3, LaneFacts DEF PairInv, Keys, Keyed
  <2>7. Stored'
    BY <1>1, <2>1, <2>2, <2>3, LaneFacts DEF PairInv, Stored
  <2> QED BY <2>1, <2>4, <2>5, <2>6, <2>7, HonestStays DEF PairInv
<1>2. CASE /\ Takes(Host, "awaitAccept") /\ Fails(Host)
           /\ UNCHANGED <<peer, records>>
  BY <1>0, <1>2, TakesOtherInv
<1> QED BY <1>1, <1>2 DEF TakeAccept, TakesOther, records

LEMMA TroubleInv ==
  ASSUME PairInv, NEW p \in Parties, Trouble(p)
  PROVE  PairInv'
<1>0. BoxTypeOK(Message) /\ WaitersOK /\ failed \subseteq Parties
  BY DEF PairInv, TypeOK
<1>1. CASE PollEnds(p)
  BY <1>0, <1>1, PollExpiresBox, NothingSent DEF PollEnds, setting, progress
<1>2. CASE Deadline(p)
  BY <1>2, SendFails DEF Deadline
<1>3. CASE Breaks(p)
  BY <1>0, <1>3, AbandonBox, NothingSent DEF Breaks, Fails, setting
<1> QED BY <1>1, <1>2, <1>3 DEF Trouble

LEMMA DroppedInv ==
  ASSUME PairInv, Restart \/ \E l \in Lanes : Expire(l)
  PROVE  PairInv'
<1>0. BoxTypeOK(Message) /\ WaitersOK /\ failed \subseteq Parties
  BY DEF PairInv, TypeOK
<1>1. CASE Restart
  <2>1. BoxTypeOK(Message)' /\ WaitersOK' /\ NothingNew
    <3>1. /\ lane' = [l \in Lanes |-> IF l \in Lanes THEN <<>> ELSE lane[l]]
          /\ waiters' = [l \in Lanes |-> IF l \in Lanes THEN <<>> ELSE waiters[l]]
      BY <1>1 DEF Restart
    <3> QED BY <1>0, <1>1, <3>1, DropBox DEF Restart, setting
  <2> QED BY <1>0, <1>1, <2>1, NothingSent DEF Restart
<1>2. ASSUME NEW l \in Lanes, Expire(l)
      PROVE  PairInv'
  <2>1. BoxTypeOK(Message)' /\ WaitersOK' /\ NothingNew
    <3>1. /\ lane' = [k \in Lanes |-> IF k \in {l} THEN <<>> ELSE lane[k]]
          /\ waiters' = [k \in Lanes |-> IF k \in {l} THEN <<>> ELSE waiters[k]]
      BY <1>0, <1>2 DEF Expire, Collect, BoxTypeOK
    <3>2. UNCHANGED <<backend, view, inbox>>
      BY <1>2 DEF Expire, Collect, setting
    <3>3. {l} \in SUBSET Lanes OBVIOUS
    <3> QED BY <1>0, <3>1, <3>2, <3>3, DropBox
  <2> QED BY <1>0, <1>2, <2>1, NothingSent DEF Expire, progress
<1> QED BY <1>1, <1>2

LEMMA StutterInv ==
  ASSUME PairInv, UNCHANGED vars
  PROVE  PairInv'
<1>1. BoxTypeOK(Message)'
  BY DEF vars, setting, boxes, PairInv, TypeOK, BoxTypeOK
<1>2. WaitersOK' BY DEF vars, boxes, PairInv, WaitersOK
<1>3. NothingNew BY DEF vars, boxes, NothingNew, Carries, In
<1>4. UNCHANGED <<setting, pc, peer, records>> /\ failed' \subseteq Parties
  BY DEF vars, progress, PairInv, TypeOK
<1> QED BY <1>1, <1>2, <1>3, <1>4, NothingSent

LEMMA StepInv == PairInv /\ [Next]_vars => PairInv'
<1> SUFFICES ASSUME PairInv, [Next]_vars PROVE PairInv' OBVIOUS
<1>1. CASE HostStep BY <1>1, SendOfferInv, TakeAcceptInv DEF HostStep
<1>2. CASE \E g \in Guests : GuestStep(g)
  BY <1>2, TakeOfferInv, SendAcceptInv, StoreHostInv DEF GuestStep
<1>3. CASE \E p \in Parties : SendSpake(p) \/ Run(p) \/ Trouble(p)
  BY <1>3, SendSpakeInv, ReceiveInv, TakeSpakeInv, TroubleInv DEF Run
<1>4. CASE Restart \/ \E l \in Lanes : Expire(l)
  BY <1>4, DroppedInv
<1>5. CASE Ended \/ UNCHANGED vars
  BY <1>5, StutterInv DEF Ended
<1> QED BY <1>1, <1>2, <1>3, <1>4, <1>5 DEF Next

LEMMA Invariance == Spec => []PairInv
BY InitInv, StepInv, PTL DEF Spec

-----------------------------------------------------------------------------
\* Every variable of the mailbox and the commands keeps its type; messages
\* only ever come from the commands.
THEOREM TypeCorrect == Spec => []TypeOK
<1>1. PairInv => TypeOK BY DEF PairInv
<1> QED BY <1>1, Invariance, PTL

\* Whatever is lost, duplicated, reordered or repeated, a record is stored only
\* between a host and a guest that hold the same key, after the guest has
\* checked the host: run_host_pair_code and run_guest_pair never mix parties.
THEOREM MutualKeyHolds == Spec => []MutualKey
<1>1. PairInv => MutualKey
  <2> SUFFICES ASSUME PairInv, NEW d \in hostTrusts \cup guestTrusts
               PROVE  \E g \in Guests :
                        Device[g] = d /\ Secret(g) = Secret(Host) /\ pc[g] \in Verified
    BY DEF MutualKey, PairInv, Stored
  <2>1. PICK g \in Guests : Device[g] = d /\ pc[g] \in Verified
    BY DEF PairInv, Stored
  <2>2. peer[g] = Host /\ peer[Host] = g
    BY <2>1 DEF PairInv, Keys, Verified
  <2> QED BY <2>1, <2>2 DEF Secret
<1> QED BY <1>1, Invariance, PTL

-----------------------------------------------------------------------------
(* PairContract sees the partner, who confirmed, and the records.          *)

LEMMA SameView ==
  ASSUME UNCHANGED records, peer'[Host] = peer[Host],
         \A g \in Guests : pc'[g] \in Verified <=> pc[g] \in Verified
  PROVE  UNCHANGED Contract!contractVars
<1>1. {g \in Guests : pc[g] \in Verified}' = {g \in Guests : pc[g] \in Verified}
  OBVIOUS
<1> QED BY <1>1 DEF Contract!contractVars, records

LEMMA SendSeen ==
  ASSUME PairInv, NEW p \in Parties, NEW at, NEW m, NEW next, Sends(p, at, m, next),
         p # Host => (at \in Verified <=> next \in Verified)
  PROVE  UNCHANGED Contract!contractVars
<1>1. UNCHANGED <<peer, records>> BY DEF Sends
<1>2. pc[p] = at /\ (pc' = pc \/ pc' = [pc EXCEPT ![p] = next])
  BY DEF Sends, GoesTo, Fails
<1>3. \A g \in Guests : pc'[g] \in Verified <=> pc[g] \in Verified
  BY <1>2, LaneFacts DEF PairInv, TypeOK
<1> QED BY <1>1, <1>3, SameView

LEMMA HostSeen ==
  ASSUME PairInv, HostStep
  PROVE  [Contract!ContractNext]_Contract!contractVars
<1>0. Host \in Parties BY LaneFacts
<1>1. CASE SendOffer
  BY <1>0, <1>1, SendSeen DEF SendOffer
<1>2. CASE /\ Takes(Host, "awaitAccept") /\ GoodAccept(inbox[Host])
           /\ hostTrusts' = hostTrusts \cup {Device[inbox[Host].from]}
           /\ GoesTo(Host, "done")
           /\ UNCHANGED <<peer, guestTrusts>>
  <2>1. inbox[Host] \in Message /\ Truthful(In(Host), inbox[Host])
    BY <1>0, <1>2, TakenFacts
  <2>2. PICK g \in Guests : g = inbox[Host].from /\ pc[g] \in Verified
    BY <1>2, <2>1, MessageFacts DEF GoodAccept, Truthful
  <2>3. peer[Host] = g BY <2>2 DEF PairInv, Keys
  <2>4. {o \in Guests : pc[o] \in Verified}' = {o \in Guests : pc[o] \in Verified}
    BY <1>0, <1>2, LaneFacts DEF GoesTo, PairInv, TypeOK
  <2>5. Contract!HostTrusts(g)
    BY <1>2, <2>2, <2>3, <2>4 DEF Contract!HostTrusts
  <2> QED BY <2>5 DEF Contract!ContractNext
<1>3. CASE Fails(Host) /\ UNCHANGED <<peer, records>>
  BY <1>3, SameView DEF Fails
<1> QED BY <1>1, <1>2, <1>3 DEF HostStep, TakeAccept, TakesOther, records

LEMMA GuestSeen ==
  ASSUME PairInv, NEW g \in Guests, GuestStep(g)
  PROVE  [Contract!ContractNext]_Contract!contractVars
<1>0. g \in Parties /\ g # Host BY LaneFacts
<1>1. CASE SendAccept(g)
  BY <1>0, <1>1, SendSeen DEF SendAccept, Verified
<1>2. CASE /\ Takes(g, "awaitOffer") /\ GoodOffer(g, inbox[g])
           /\ GoesTo(g, "sendAccept")
           /\ UNCHANGED <<peer, records>>
  <2>1. /\ inbox[g] \in Message /\ Truthful(In(g), inbox[g])
        /\ pc[g] = "awaitOffer"
    BY <1>0, <1>2, TakenFacts
  <2>2. pc[Host] \in Keyed /\ Secret(g) = Secret(Host)
    BY <1>2, <2>1 DEF GoodOffer, Truthful
  <2>3. peer[Host] = g
    <3>1. peer[Host] \in Guests /\ peer[g] = Host
      BY <2>1, <2>2 DEF PairInv, Keys
    <3> QED BY <1>0, <2>2, <3>1 DEF Secret
  <2>4. {o \in Guests : pc[o] \in Verified}'
          = {o \in Guests : pc[o] \in Verified} \cup {g}
    BY <1>0, <1>2, LaneFacts DEF GoesTo, PairInv, TypeOK, Verified
  <2>5. Contract!Confirm(g)
    BY <1>2, <2>3, <2>4 DEF Contract!Confirm, records
  <2> QED BY <2>5 DEF Contract!ContractNext
<1>3. CASE Fails(g) /\ UNCHANGED <<peer, records>>
  BY <1>3, SameView DEF Fails
<1>4. CASE /\ pc[g] = "store" /\ GoesTo(g, "done")
           /\ guestTrusts' = guestTrusts \cup {Device[g]}
           /\ UNCHANGED <<peer, hostTrusts>>
  <2>1. pc[g] \in Verified /\ peer[Host] = g
    BY <1>4 DEF PairInv, Keys, Verified
  <2>2. {o \in Guests : pc[o] \in Verified}' = {o \in Guests : pc[o] \in Verified}
    BY <1>0, <1>4, LaneFacts DEF GoesTo, PairInv, TypeOK, Verified
  <2>3. Contract!GuestTrusts(g)
    BY <1>4, <2>1, <2>2 DEF Contract!GuestTrusts
  <2> QED BY <2>3 DEF Contract!ContractNext
<1> QED BY <1>1, <1>2, <1>3, <1>4
        DEF GuestStep, TakeOffer, TakesOther, StoreHost, records

LEMMA TakeSpakeSeen ==
  ASSUME PairInv, NEW p \in Parties, TakeSpake(p)
  PROVE  [Contract!ContractNext]_Contract!contractVars
<1>1. CASE /\ Takes(p, "awaitKey") /\ IsSpake(inbox[p])
           /\ peer' = [peer EXCEPT ![p] = inbox[p].from]
           /\ GoesTo(p, IF p = Host THEN "sendOffer" ELSE "awaitOffer")
           /\ UNCHANGED records
  <2>1. /\ inbox[p] \in Message /\ Truthful(In(p), inbox[p])
        /\ pc[p] = "awaitKey"
    BY <1>1, TakenFacts
  <2>2. {o \in Guests : pc[o] \in Verified}' = {o \in Guests : pc[o] \in Verified}
    BY <1>1, <2>1, LaneFacts DEF GoesTo, PairInv, TypeOK, Verified
  <2>3. CASE p = Host
    <3>1. PICK g \in Guests : g = inbox[p].from
      BY <1>1, <2>1, <2>3, MessageFacts, LaneFacts DEF IsSpake, Truthful, In, Out, Parties
    <3>2. peer[Host] = None /\ peer'[Host] = g
      BY <1>1, <2>1, <2>3, <3>1 DEF PairInv, TypeOK, Keys
    <3>3. Contract!Agree(g)
      BY <1>1, <2>2, <3>2 DEF Contract!Agree, records
    <3> QED BY <3>3 DEF Contract!ContractNext
  <2>4. CASE p # Host
    <3>1. peer'[Host] = peer[Host] BY <1>1, <2>4, LaneFacts DEF PairInv, TypeOK
    <3> QED BY <1>1, <2>2, <3>1 DEF Contract!contractVars, records
  <2> QED BY <2>3, <2>4
<1>2. CASE Fails(p) /\ UNCHANGED <<peer, records>>
  BY <1>2, SameView DEF Fails
<1> QED BY <1>1, <1>2 DEF TakeSpake, TakesOther

LEMMA ContractStep ==
  PairInv /\ [Next]_vars => [Contract!ContractNext]_Contract!contractVars
<1> SUFFICES ASSUME PairInv, [Next]_vars
             PROVE  [Contract!ContractNext]_Contract!contractVars
  OBVIOUS
<1>1. CASE HostStep BY <1>1, HostSeen
<1>2. CASE \E g \in Guests : GuestStep(g) BY <1>2, GuestSeen
<1>3. ASSUME NEW p \in Parties, SendSpake(p)
      PROVE  UNCHANGED Contract!contractVars
  BY <1>3, SendSeen DEF SendSpake, Verified
<1>4. CASE \E p \in Parties : TakeSpake(p) BY <1>4, TakeSpakeSeen
<1>5. CASE UNCHANGED <<pc, peer, records>>
  BY <1>5, SameView
<1>6. ASSUME \/ \E p \in Parties : Receive(p) \/ Trouble(p)
             \/ \E l \in Lanes : Expire(l)
             \/ Restart \/ Ended \/ UNCHANGED vars
      PROVE  UNCHANGED <<pc, peer, records>>
  BY <1>6 DEF Receive, Trouble, PollEnds, Deadline, Breaks, Fails, Expire, Restart,
              Ended, vars, progress
<1> QED BY <1>1, <1>2, <1>3, <1>4, <1>5, <1>6 DEF Next, Run

\* Linking by a code is a behaviour of PairContract: one guest agrees on a key
\* with the host, confirms it, and only then either side stores the other.
THEOREM ImplementsContractHolds == Spec => ImplementsContract
<1>1. Init => Contract!ContractInit
  BY LaneFacts DEF Init, Contract!ContractInit, Verified
<1> QED BY <1>1, ContractStep, Invariance, PTL
        DEF Spec, ImplementsContract, Contract!ContractSpec
=============================================================================
