---------------------------- MODULE CarrierProofs ----------------------------
(***************************************************************************)
(* Proofs about the carrier's tokens, for every number of servers, phones' *)
(* requests and arm windows, and every set of faults.                      *)
(***************************************************************************)
EXTENDS Carrier, TLAPS

\* A window that can never be the open one again.
Closed(w) == w # 0 /\ w # arm /\ w <= wins

\* Only windows that were opened are open, or have tokens.
Past ==
  /\ arm <= wins
  /\ \A t \in Tokens : minted[t] <= wins
  /\ \A s \in Servers : call[s].win <= wins

\* Who holds a lock, and at what point of its life the server then is.
Locks ==
  /\ \A s \in Servers : call[s].by = "none" <=> call[s].step = "free"
  /\ \A s \in Servers : call[s].by = "start" => at[s] = "start"
  /\ \A s \in Servers : call[s].by = "status" => at[s] = "up"
  /\ \A s \in Servers, r \in Requests :
       call[s].by = r => at[s] = "up" /\ req[r] = "auth"
  /\ \A s, o \in Servers : at[s] = "up" /\ at[o] = "up" => s = o

\* The token in memory is of the window its holder read, unless it read none.
MemOfWin ==
  \A s \in Servers :
    call[s].step \in {"persist", "check", "recheck"} /\ call[s].win # 0
      => WinOf(mem[s]) = call[s].win

\* A request at its second look has presented the token in memory.
Held ==
  \A s \in Servers : call[s].step = "recheck" =>
    /\ call[s].win # 0
    /\ \A r \in Requests : call[s].by = r => bearer[r] = mem[s] /\ mem[s] # 0

\* The window read for a request was open while it was under way.
Seen ==
  \A s \in Servers, r \in Requests :
    call[s].by = r /\ call[s].step # "load" => call[s].win \in seen[r]

\* The history of a request that is under way has the present in it.
Current == \A r \in Requests : req[r] \notin Over => arm \in seen[r]

\* A server gives up the token it shows only when its window is over.
Screen ==
  /\ \A s \in Servers : at[s] = "bind" => mem[s] # 0 /\ WinOf(mem[s]) # 0
  /\ \A s \in Servers : at[s] = "up" =>
       /\ shown[s] # 0 /\ WinOf(shown[s]) # 0
       /\ mem[s] = shown[s] \/ Closed(WinOf(shown[s]))
       /\ call[s].step \notin {"free", "load"} /\ call[s].win # WinOf(shown[s])
            => Closed(WinOf(shown[s]))

CarrierInv ==
  /\ TypeOK /\ Past /\ Locks /\ MemOfWin /\ Held /\ Seen /\ Current /\ Screen
  /\ ServedInWindow /\ ShownAccepted

-----------------------------------------------------------------------------
LEMMA FreeType == Free \in Calls
BY CarrierAssumption DEF Free, Calls, Others, Steps

LEMMA CallTypes ==
  ASSUME TypeOK, NEW s \in Servers
  PROVE  /\ [call EXCEPT ![s] = Free] \in [Servers -> Calls]
         /\ \A p \in Steps : [call EXCEPT ![s].step = p] \in [Servers -> Calls]
         /\ call[s].win \in 0..MaxWindows
         /\ [call EXCEPT ![s].step = "act", ![s].win = arm] \in [Servers -> Calls]
         /\ \A by \in Others \cup Requests :
              [call EXCEPT ![s] = [by |-> by, step |-> "load", win |-> 0]] \in [Servers -> Calls]
<1>1. call \in [Servers -> Calls] /\ arm \in 0..MaxWindows BY DEF TypeOK
<1>2. \A p \in Steps : [call[s] EXCEPT !.step = p] \in Calls BY <1>1 DEF Calls
<1>3. [call[s] EXCEPT !.step = "act", !.win = arm] \in Calls BY <1>1 DEF Calls, Steps
<1>4. \A by \in Others \cup Requests : [by |-> by, step |-> "load", win |-> 0] \in Calls
  BY CarrierAssumption DEF Calls, Steps
<1>5. call[s].win \in 0..MaxWindows BY <1>1 DEF Calls
<1> QED BY <1>1, <1>2, <1>3, <1>4, <1>5, FreeType

LEMMA TypeInit == Init => TypeOK
<1> SUFFICES ASSUME Init PROVE TypeOK OBVIOUS
<1>1. call \in [Servers -> Calls] BY FreeType DEF Init
<1>2. post \in [file : {"none", "empty", "uri"}, poll : {"idle", "sees", "got", "void"}]
  BY DEF Init
<1>3. arm \in 0..MaxWindows /\ wins \in 0..MaxWindows BY CarrierAssumption DEF Init
<1>4. minted \in [Tokens -> 0..MaxWindows] /\ file \in Tokens \cup {0}
  BY CarrierAssumption DEF Init
<1>5. /\ at \in [Servers -> {"off", "look", "arm", "start", "bind", "up", "down"}]
      /\ mem \in [Servers -> Tokens \cup {0}]
      /\ shown \in [Servers -> Tokens \cup {0}]
  BY DEF Init
<1>6. /\ req \in [Requests -> ReqPoints]
      /\ bearer \in [Requests -> Tokens \cup {0}]
      /\ seen \in [Requests -> SUBSET (0..MaxWindows)]
  BY DEF Init, ReqPoints
<1> QED BY <1>1, <1>2, <1>3, <1>4, <1>5, <1>6 DEF Init, TypeOK

LEMMA TypeStep == TypeOK /\ [Next]_vars => TypeOK'
<1> USE CarrierAssumption
<1> SUFFICES ASSUME TypeOK, [Next]_vars PROVE TypeOK' OBVIOUS
<1> USE DEF TypeOK, tokens, lives, phones, Steps, Others, ReqPoints, Windows
<1>1. CASE OperatorArms
  BY <1>1 DEF OperatorArms, NewWindow, SetArm
<1>2. CASE WindowEnds
  BY <1>2 DEF WindowEnds, SetArm
<1>3. CASE PollReads
  BY <1>3 DEF PollReads
<1>4. CASE PollRemoves
  BY <1>4 DEF PollRemoves, DropsPost
<1>5. ASSUME NEW s \in Servers, LoadArm(s) PROVE TypeOK'
  BY <1>5, CallTypes DEF LoadArm
<1>6. ASSUME NEW s \in Servers, Unarmed(s) PROVE TypeOK'
  BY <1>6, CallTypes DEF Unarmed, Step, Touches
<1>7. ASSUME NEW s \in Servers, Keep(s) PROVE TypeOK'
  BY <1>7, CallTypes DEF Keep, Step
<1>8. ASSUME NEW s \in Servers, Mint(s) PROVE TypeOK'
  <2>1. call' \in [Servers -> Calls] BY <1>8, CallTypes DEF Mint, Step
  <2>2. minted' \in [Tokens -> 0..MaxWindows] /\ mem' \in [Servers -> Tokens \cup {0}]
    <3>1. PICK t \in Tokens : minted' = [minted EXCEPT ![t] = call[s].win] /\ mem' = [mem EXCEPT ![s] = t]
      BY <1>8 DEF Mint
    <3>2. call[s].win \in 0..MaxWindows BY CallTypes
    <3> QED BY <3>1, <3>2
  <2> QED BY <1>8, <2>1, <2>2 DEF Mint
<1>9. ASSUME NEW s \in Servers, Persist(s) PROVE TypeOK'
  <2>1. call' \in [Servers -> Calls] BY <1>9, CallTypes DEF Persist, Step
  <2>2. file' \in Tokens \cup {0}
    <3>1. file' = mem[s] \/ file' = file BY <1>9 DEF Persist
    <3> QED BY <3>1
  <2>3. mixed' \in BOOLEAN
    <3> HIDE DEF TypeOK
    <3>1. CASE mixed' = (mixed \/ Crowded(s)) BY <3>1, Zenon
    <3>2. CASE mixed' = TRUE BY <3>2, Zenon
    <3> QED BY <1>9, <3>1, <3>2, Zenon DEF Persist, Touches
  <2>4. UNCHANGED <<arm, wins, minted, mem, at, shown, req, bearer, seen, post>>
    BY <1>9 DEF Persist
  <2> QED BY <2>1, <2>2, <2>3, <2>4
<1>10. ASSUME NEW s \in Servers, StartUi(s) PROVE TypeOK'
  BY <1>10 DEF StartUi, NewWindow, SetArm, Becomes, DropsPost
<1>11. ASSUME NEW s \in Servers, StartCommand(s) PROVE TypeOK'
  BY <1>11 DEF StartCommand, Becomes, DropsPost
<1>11a. ASSUME NEW s \in Servers, StartLooks(s) PROVE TypeOK'
  <2>1. call' \in [Servers -> Calls]
    <3>1. CASE arm # 0
      <4>1. call' = [call EXCEPT ![s] = [by |-> "start", step |-> "load", win |-> 0]]
        BY <1>11a, <3>1 DEF StartLooks, Enters
      <4>2. "start" \in Others \cup Requests OBVIOUS
      <4> HIDE DEF TypeOK
      <4> QED BY <4>1, <4>2, CallTypes
    <3>2. CASE arm = 0 BY <1>11a, <3>2 DEF StartLooks
    <3> QED BY <3>1, <3>2
  <2>2. at' \in [Servers -> {"off", "look", "arm", "start", "bind", "up", "down"}]
    BY <1>11a DEF StartLooks, Becomes
  <2> QED BY <1>11a, <2>1, <2>2 DEF StartLooks
<1>12. ASSUME NEW s \in Servers, StartArms(s) PROVE TypeOK'
  <2>1. call' \in [Servers -> Calls] BY <1>12, CallTypes DEF StartArms, NewWindow, SetArm, Becomes, Enters
  <2> QED BY <1>12, <2>1 DEF StartArms, NewWindow, SetArm, Becomes, Enters
<1>13. ASSUME NEW s \in Servers, Minted(s) PROVE TypeOK'
  <2>1. call' \in [Servers -> Calls] BY <1>13, CallTypes DEF Minted, Becomes
  <2> QED BY <1>13, <2>1 DEF Minted, Becomes
<1>14. ASSUME NEW s \in Servers, Bind(s) PROVE TypeOK'
  BY <1>14 DEF Bind, Becomes
<1>15. ASSUME NEW s \in Servers, Status(s) PROVE TypeOK'
  BY <1>15, CallTypes DEF Status, Enters
<1>16. ASSUME NEW s \in Servers, StatusDone(s) PROVE TypeOK'
  BY <1>16, CallTypes DEF StatusDone
<1>17. ASSUME NEW s \in Servers, Crash(s) PROVE TypeOK'
  BY <1>17, CallTypes DEF Crash, Becomes
<1>18. ASSUME NEW r \in Requests, AuthArrives(r) PROVE TypeOK'
  BY <1>18 DEF AuthArrives, Arrives
<1>19. ASSUME NEW r \in Requests, PeerArrives(r) PROVE TypeOK'
  BY <1>19 DEF PeerArrives, Arrives, Moves
<1>20. ASSUME NEW r \in Requests, PeerLooks(r) PROVE TypeOK'
  BY <1>20 DEF PeerLooks, Moves
<1>21. ASSUME NEW r \in Requests, PeerArms(r) PROVE TypeOK'
  BY <1>21 DEF PeerArms, NewWindow, SetArm, Moves
<1>22. ASSUME NEW r \in Requests, PeerCreates(r) PROVE TypeOK'
  BY <1>22 DEF PeerCreates, Moves
<1>23. ASSUME NEW r \in Requests, PeerWrites(r) PROVE TypeOK'
  BY <1>23 DEF PeerWrites, Moves
<1>24. ASSUME NEW r \in Requests, NEW s \in Servers, Auth(r, s) PROVE TypeOK'
  BY <1>24, CallTypes DEF Auth, Enters
<1>25. ASSUME NEW r \in Requests, NEW s \in Servers, Match(r, s) PROVE TypeOK'
  <2>1. call' \in [Servers -> Calls]
    <3>1. CASE call' = [call EXCEPT ![s] = Free] BY <3>1, CallTypes
    <3>2. CASE call' = [call EXCEPT ![s].step = "recheck"] BY <3>2, CallTypes
    <3> QED BY <1>25, <3>1, <3>2 DEF Match, Step, Answered
  <2>2. req' \in [Requests -> ReqPoints] BY <1>25 DEF Match, Answered
  <2> QED BY <1>25, <2>1, <2>2 DEF Match
<1>26. ASSUME NEW r \in Requests, NEW s \in Servers, Recheck(r, s) PROVE TypeOK'
  <2>1. call' \in [Servers -> Calls]
    <3>1. CASE call' = [call EXCEPT ![s] = Free] BY <3>1, CallTypes
    <3>2. CASE call' = [call EXCEPT ![s].step = "recheck"] BY <3>2, CallTypes
    <3> QED BY <1>26, <3>1, <3>2 DEF Recheck, Answered
  <2>2. req' \in [Requests -> ReqPoints] BY <1>26 DEF Recheck, Answered
  <2> QED BY <1>26, <2>1, <2>2 DEF Recheck, Touches
<1>27. CASE UNCHANGED vars BY <1>27 DEF vars
<1> QED
  BY <1>1, <1>2, <1>3, <1>4, <1>5, <1>6, <1>7, <1>8, <1>9, <1>10, <1>11, <1>11a, <1>12, <1>13,
     <1>14, <1>15, <1>16, <1>17, <1>18, <1>19, <1>20, <1>21, <1>22, <1>23, <1>24, <1>25, <1>26, <1>27
  DEF Next, Ensure, Server, Phone

-----------------------------------------------------------------------------
(* Each action keeps each part of the invariant.                           *)

LEMMA PastStep == TypeOK /\ Past /\ [Next]_vars => Past'
<1> USE CarrierAssumption
<1> SUFFICES ASSUME TypeOK /\ Past, [Next]_vars PROVE Past' OBVIOUS
<1> USE DEF TypeOK, Past, tokens, lives, phones, Windows, Calls, Free
<1>1. CASE OperatorArms
  BY <1>1 DEF OperatorArms, NewWindow, SetArm
<1>2. CASE WindowEnds
  BY <1>2 DEF WindowEnds, SetArm
<1>3. CASE PollReads
  BY <1>3 DEF PollReads
<1>4. CASE PollRemoves
  BY <1>4 DEF PollRemoves, DropsPost
<1>5. ASSUME NEW s \in Servers, LoadArm(s) PROVE Past'
  BY <1>5 DEF LoadArm
<1>6. ASSUME NEW s \in Servers, Unarmed(s) PROVE Past'
  BY <1>6 DEF Unarmed, Step, Touches
<1>7. ASSUME NEW s \in Servers, Keep(s) PROVE Past'
  BY <1>7 DEF Keep, Step
<1>8. ASSUME NEW s \in Servers, Mint(s) PROVE Past'
  BY <1>8 DEF Mint, Step
<1>9. ASSUME NEW s \in Servers, Persist(s) PROVE Past'
  BY <1>9 DEF Persist, Step, Touches
<1>10. ASSUME NEW s \in Servers, StartUi(s) PROVE Past'
  BY <1>10 DEF StartUi, NewWindow, SetArm, Becomes, DropsPost
<1>11. ASSUME NEW s \in Servers, StartCommand(s) PROVE Past'
  BY <1>11 DEF StartCommand, Becomes, DropsPost
<1>11a. ASSUME NEW s \in Servers, StartLooks(s) PROVE Past'
  BY <1>11a DEF StartLooks, Becomes, Enters
<1>12. ASSUME NEW s \in Servers, StartArms(s) PROVE Past'
  BY <1>12 DEF StartArms, NewWindow, SetArm, Becomes, Enters
<1>13. ASSUME NEW s \in Servers, Minted(s) PROVE Past'
  BY <1>13 DEF Minted, Becomes
<1>14. ASSUME NEW s \in Servers, Bind(s) PROVE Past'
  BY <1>14 DEF Bind, Becomes
<1>15. ASSUME NEW s \in Servers, Status(s) PROVE Past'
  BY <1>15 DEF Status, Enters
<1>16. ASSUME NEW s \in Servers, StatusDone(s) PROVE Past'
  BY <1>16 DEF StatusDone
<1>17. ASSUME NEW s \in Servers, Crash(s) PROVE Past'
  BY <1>17 DEF Crash, Becomes
<1>18. ASSUME NEW r \in Requests, AuthArrives(r) PROVE Past'
  BY <1>18 DEF AuthArrives, Arrives
<1>19. ASSUME NEW r \in Requests, PeerArrives(r) PROVE Past'
  BY <1>19 DEF PeerArrives, Arrives, Moves
<1>20. ASSUME NEW r \in Requests, PeerLooks(r) PROVE Past'
  BY <1>20 DEF PeerLooks, Moves
<1>21. ASSUME NEW r \in Requests, PeerArms(r) PROVE Past'
  BY <1>21 DEF PeerArms, NewWindow, SetArm, Moves
<1>22. ASSUME NEW r \in Requests, PeerCreates(r) PROVE Past'
  BY <1>22 DEF PeerCreates, Moves
<1>23. ASSUME NEW r \in Requests, PeerWrites(r) PROVE Past'
  BY <1>23 DEF PeerWrites, Moves
<1>24. ASSUME NEW r \in Requests, NEW s \in Servers, Auth(r, s) PROVE Past'
  BY <1>24 DEF Auth, Enters
<1>25. ASSUME NEW r \in Requests, NEW s \in Servers, Match(r, s) PROVE Past'
  <2>1. CASE call' = [call EXCEPT ![s].step = "recheck"] /\ UNCHANGED req
    BY <1>25, <2>1 DEF Match
  <2>2. CASE Answered(r, s, "refused")
    BY <1>25, <2>2 DEF Match, Answered
  <2> QED BY <1>25, <2>1, <2>2 DEF Match, Step
<1>26. ASSUME NEW r \in Requests, NEW s \in Servers, Recheck(r, s) PROVE Past'
  BY <1>26 DEF Recheck, Answered, Touches
<1>27. CASE UNCHANGED vars BY <1>27 DEF vars
<1> QED
  BY <1>1, <1>2, <1>3, <1>4, <1>5, <1>6, <1>7, <1>8, <1>9, <1>10, <1>11, <1>11a, <1>12, <1>13,
     <1>14, <1>15, <1>16, <1>17, <1>18, <1>19, <1>20, <1>21, <1>22, <1>23, <1>24, <1>25, <1>26, <1>27
  DEF Next, Ensure, Server, Phone

LEMMA LocksStep == TypeOK /\ Locks /\ [Next]_vars => Locks'
<1> USE CarrierAssumption
<1> SUFFICES ASSUME TypeOK /\ Locks, [Next]_vars PROVE Locks' OBVIOUS
<1> USE DEF TypeOK, Locks, tokens, lives, phones, Calls, Free, Steps, Others
<1>1. CASE OperatorArms
  BY <1>1 DEF OperatorArms, NewWindow, SetArm
<1>2. CASE WindowEnds
  BY <1>2 DEF WindowEnds, SetArm
<1>3. CASE PollReads
  BY <1>3 DEF PollReads
<1>4. CASE PollRemoves
  BY <1>4 DEF PollRemoves, DropsPost
<1>5. ASSUME NEW s \in Servers, LoadArm(s) PROVE Locks'
  <2>1. call'[s].by = call[s].by /\ call'[s].step = "act" BY <1>5 DEF LoadArm
  <2>2. \A o \in Servers \ {s} : call'[o] = call[o] BY <1>5 DEF LoadArm
  <2>3. call[s].step = "load" /\ UNCHANGED <<at, req>> BY <1>5 DEF LoadArm, lives, phones
  <2> HIDE DEF TypeOK, Calls
  <2> QED BY <2>1, <2>2, <2>3
<1>6. ASSUME NEW s \in Servers, Unarmed(s) PROVE Locks'
  BY <1>6 DEF Unarmed, Step, Touches
<1>7. ASSUME NEW s \in Servers, Keep(s) PROVE Locks'
  BY <1>7 DEF Keep, Step
<1>8. ASSUME NEW s \in Servers, Mint(s) PROVE Locks'
  BY <1>8 DEF Mint, Step
<1>9. ASSUME NEW s \in Servers, Persist(s) PROVE Locks'
  BY <1>9 DEF Persist, Step, Touches
<1>10. ASSUME NEW s \in Servers, StartUi(s) PROVE Locks'
  BY <1>10 DEF StartUi, NewWindow, SetArm, Becomes, DropsPost
<1>11. ASSUME NEW s \in Servers, StartCommand(s) PROVE Locks'
  BY <1>11 DEF StartCommand, Becomes, DropsPost
<1>11a. ASSUME NEW s \in Servers, StartLooks(s) PROVE Locks'
  <2>1. CASE arm # 0
    <3>1. call'[s].by = "start" /\ call'[s].step = "load" /\ at'[s] = "start" /\ at[s] = "look"
      BY <1>11a, <2>1 DEF StartLooks, Becomes, Enters
    <3>2. \A o \in Servers \ {s} : call'[o] = call[o] /\ at'[o] = at[o]
      BY <1>11a, <2>1 DEF StartLooks, Becomes, Enters
    <3>3. \A r \in Requests : req[r] = "auth" => req'[r] = "auth"
      BY <1>11a DEF StartLooks
    <3> HIDE DEF TypeOK, Calls
    <3> QED BY <3>1, <3>2, <3>3
  <2>2. CASE arm = 0 BY <1>11a, <2>2 DEF StartLooks, Becomes
  <2> QED BY <2>1, <2>2
<1>12. ASSUME NEW s \in Servers, StartArms(s) PROVE Locks'
  BY <1>12 DEF StartArms, NewWindow, SetArm, Becomes, Enters
<1>13. ASSUME NEW s \in Servers, Minted(s) PROVE Locks'
  BY <1>13 DEF Minted, Becomes
<1>14. ASSUME NEW s \in Servers, Bind(s) PROVE Locks'
  BY <1>14 DEF Bind, Becomes
<1>15. ASSUME NEW s \in Servers, Status(s) PROVE Locks'
  BY <1>15 DEF Status, Enters
<1>16. ASSUME NEW s \in Servers, StatusDone(s) PROVE Locks'
  BY <1>16 DEF StatusDone
<1>17. ASSUME NEW s \in Servers, Crash(s) PROVE Locks'
  BY <1>17 DEF Crash, Becomes
<1>18. ASSUME NEW r \in Requests, AuthArrives(r) PROVE Locks'
  BY <1>18 DEF AuthArrives, Arrives
<1>19. ASSUME NEW r \in Requests, PeerArrives(r) PROVE Locks'
  BY <1>19 DEF PeerArrives, Arrives, Moves
<1>20. ASSUME NEW r \in Requests, PeerLooks(r) PROVE Locks'
  BY <1>20 DEF PeerLooks, Moves
<1>21. ASSUME NEW r \in Requests, PeerArms(r) PROVE Locks'
  BY <1>21 DEF PeerArms, NewWindow, SetArm, Moves
<1>22. ASSUME NEW r \in Requests, PeerCreates(r) PROVE Locks'
  BY <1>22 DEF PeerCreates, Moves
<1>23. ASSUME NEW r \in Requests, PeerWrites(r) PROVE Locks'
  BY <1>23 DEF PeerWrites, Moves
<1>24. ASSUME NEW r \in Requests, NEW s \in Servers, Auth(r, s) PROVE Locks'
  BY <1>24 DEF Auth, Enters
<1>25. ASSUME NEW r \in Requests, NEW s \in Servers, Match(r, s) PROVE Locks'
  <2>1. CASE call' = [call EXCEPT ![s].step = "recheck"] /\ UNCHANGED req
    BY <1>25, <2>1 DEF Match
  <2>2. CASE Answered(r, s, "refused")
    BY <1>25, <2>2 DEF Match, Answered
  <2> QED BY <1>25, <2>1, <2>2 DEF Match, Step
<1>26. ASSUME NEW r \in Requests, NEW s \in Servers, Recheck(r, s) PROVE Locks'
  <2>1. call' = [call EXCEPT ![s] = Free] /\ UNCHANGED at
    BY <1>26 DEF Recheck, Answered, lives
  <2>2. \A q \in Requests \ {r} : req'[q] = req[q]
    BY <1>26 DEF Recheck, Answered
  <2>3. \A q \in Requests \ {r}, o \in Servers : call'[o].by = q => call[o].by = q
    BY <2>1
  <2>4. \A o \in Servers : call'[o].by # r
    BY <1>26, <2>1 DEF Recheck
  <2> QED BY <1>26, <2>1, <2>2, <2>3, <2>4
<1>27. CASE UNCHANGED vars BY <1>27 DEF vars
<1> QED
  BY <1>1, <1>2, <1>3, <1>4, <1>5, <1>6, <1>7, <1>8, <1>9, <1>10, <1>11, <1>11a, <1>12, <1>13,
     <1>14, <1>15, <1>16, <1>17, <1>18, <1>19, <1>20, <1>21, <1>22, <1>23, <1>24, <1>25, <1>26, <1>27
  DEF Next, Ensure, Server, Phone

LEMMA CurrentStep == TypeOK /\ Current /\ [Next]_vars => Current'
<1> USE CarrierAssumption
<1> SUFFICES ASSUME TypeOK /\ Current, [Next]_vars PROVE Current' OBVIOUS
<1> USE DEF TypeOK, Current, Over, tokens, lives, phones
<1>1. CASE OperatorArms
  BY <1>1 DEF OperatorArms, NewWindow, SetArm
<1>2. CASE WindowEnds
  BY <1>2 DEF WindowEnds, SetArm
<1>3. CASE PollReads
  BY <1>3 DEF PollReads
<1>4. CASE PollRemoves
  BY <1>4 DEF PollRemoves, DropsPost
<1>5. ASSUME NEW s \in Servers, LoadArm(s) PROVE Current'
  BY <1>5 DEF LoadArm
<1>6. ASSUME NEW s \in Servers, Unarmed(s) PROVE Current'
  BY <1>6 DEF Unarmed, Step, Touches
<1>7. ASSUME NEW s \in Servers, Keep(s) PROVE Current'
  BY <1>7 DEF Keep, Step
<1>8. ASSUME NEW s \in Servers, Mint(s) PROVE Current'
  BY <1>8 DEF Mint, Step
<1>9. ASSUME NEW s \in Servers, Persist(s) PROVE Current'
  BY <1>9 DEF Persist, Step, Touches
<1>10. ASSUME NEW s \in Servers, StartUi(s) PROVE Current'
  BY <1>10 DEF StartUi, NewWindow, SetArm, Becomes, DropsPost
<1>11. ASSUME NEW s \in Servers, StartCommand(s) PROVE Current'
  BY <1>11 DEF StartCommand, Becomes, DropsPost
<1>11a. ASSUME NEW s \in Servers, StartLooks(s) PROVE Current'
  BY <1>11a DEF StartLooks, Becomes, Enters
<1>12. ASSUME NEW s \in Servers, StartArms(s) PROVE Current'
  BY <1>12 DEF StartArms, NewWindow, SetArm, Becomes, Enters
<1>13. ASSUME NEW s \in Servers, Minted(s) PROVE Current'
  BY <1>13 DEF Minted, Becomes
<1>14. ASSUME NEW s \in Servers, Bind(s) PROVE Current'
  BY <1>14 DEF Bind, Becomes
<1>15. ASSUME NEW s \in Servers, Status(s) PROVE Current'
  BY <1>15 DEF Status, Enters
<1>16. ASSUME NEW s \in Servers, StatusDone(s) PROVE Current'
  BY <1>16 DEF StatusDone
<1>17. ASSUME NEW s \in Servers, Crash(s) PROVE Current'
  BY <1>17 DEF Crash, Becomes
<1>18. ASSUME NEW r \in Requests, AuthArrives(r) PROVE Current'
  BY <1>18 DEF AuthArrives, Arrives
<1>19. ASSUME NEW r \in Requests, PeerArrives(r) PROVE Current'
  BY <1>19 DEF PeerArrives, Arrives, Moves
<1>20. ASSUME NEW r \in Requests, PeerLooks(r) PROVE Current'
  BY <1>20 DEF PeerLooks, Moves
<1>21. ASSUME NEW r \in Requests, PeerArms(r) PROVE Current'
  BY <1>21 DEF PeerArms, NewWindow, SetArm, Moves
<1>22. ASSUME NEW r \in Requests, PeerCreates(r) PROVE Current'
  BY <1>22 DEF PeerCreates, Moves
<1>23. ASSUME NEW r \in Requests, PeerWrites(r) PROVE Current'
  BY <1>23 DEF PeerWrites, Moves
<1>24. ASSUME NEW r \in Requests, NEW s \in Servers, Auth(r, s) PROVE Current'
  BY <1>24 DEF Auth, Enters
<1>25. ASSUME NEW r \in Requests, NEW s \in Servers, Match(r, s) PROVE Current'
  BY <1>25 DEF Match, Answered, Step
<1>26. ASSUME NEW r \in Requests, NEW s \in Servers, Recheck(r, s) PROVE Current'
  BY <1>26 DEF Recheck, Answered, Touches
<1>27. CASE UNCHANGED vars BY <1>27 DEF vars
<1> QED
  BY <1>1, <1>2, <1>3, <1>4, <1>5, <1>6, <1>7, <1>8, <1>9, <1>10, <1>11, <1>11a, <1>12, <1>13,
     <1>14, <1>15, <1>16, <1>17, <1>18, <1>19, <1>20, <1>21, <1>22, <1>23, <1>24, <1>25, <1>26, <1>27
  DEF Next, Ensure, Server, Phone

\* The window of a token never changes.
LEMMA MintedStays ==
  TypeOK /\ [Next]_vars => \A t \in Tokens : minted[t] # 0 => minted'[t] = minted[t]
<1> SUFFICES ASSUME TypeOK, [Next]_vars,
                    NEW t \in Tokens, minted[t] # 0
             PROVE  minted'[t] = minted[t]
  OBVIOUS
<1>1. ASSUME NEW s \in Servers, Mint(s) PROVE minted'[t] = minted[t]
  BY <1>1 DEF Mint, TypeOK
<1>2. CASE UNCHANGED minted BY <1>2
<1>3. UNCHANGED minted \/ \E s \in Servers : Mint(s)
  BY DEF Next, Ensure, Server, Phone, vars, tokens, OperatorArms, WindowEnds, PollReads,
     PollRemoves, LoadArm, Unarmed, Keep, Persist, StartUi, StartCommand, StartLooks, StartArms,
     Minted, Bind, Status, StatusDone, Crash, AuthArrives, PeerArrives, PeerLooks,
     PeerArms, PeerCreates, PeerWrites, Auth, Match, Recheck
<1> QED BY <1>1, <1>2, <1>3

LEMMA NoToken == 0 \notin Tokens
BY DEF Tokens

LEMMA MemStep == TypeOK /\ Locks /\ MemOfWin /\ [Next]_vars => MemOfWin'
<1> USE CarrierAssumption, MintedStays, NoToken
<1> SUFFICES ASSUME TypeOK /\ Locks /\ MemOfWin, [Next]_vars PROVE MemOfWin' OBVIOUS
<1> USE DEF TypeOK, Locks, MemOfWin, WinOf, tokens, lives, phones, Calls, Free, Others
<1>1. CASE OperatorArms
  BY <1>1 DEF OperatorArms, NewWindow, SetArm
<1>2. CASE WindowEnds
  BY <1>2 DEF WindowEnds, SetArm
<1>3. CASE PollReads
  BY <1>3 DEF PollReads
<1>4. CASE PollRemoves
  BY <1>4 DEF PollRemoves, DropsPost
<1>5. ASSUME NEW s \in Servers, LoadArm(s) PROVE MemOfWin'
  BY <1>5 DEF LoadArm
<1>6. ASSUME NEW s \in Servers, Unarmed(s) PROVE MemOfWin'
  BY <1>6 DEF Unarmed, Step, Touches
<1>7. ASSUME NEW s \in Servers, Keep(s) PROVE MemOfWin'
  BY <1>7 DEF Keep, Step
<1>8. ASSUME NEW s \in Servers, Mint(s) PROVE MemOfWin'
  BY <1>8 DEF Mint, Step
<1>9. ASSUME NEW s \in Servers, Persist(s) PROVE MemOfWin'
  BY <1>9 DEF Persist, Step, Touches
<1>a. ASSUME NEW s \in Servers, NEW by, Enters(s, by), mem' = mem, minted' = minted
      PROVE  MemOfWin'
  <2>1. call' = [call EXCEPT ![s] = [by |-> by, step |-> "load", win |-> 0]]
    BY <1>a DEF Enters
  <2>2. call'[s].step = "load" BY <2>1
  <2>3. \A o \in Servers \ {s} : call'[o] = call[o] BY <2>1
  <2> QED BY <1>a, <2>2, <2>3
<1>10. ASSUME NEW s \in Servers, StartUi(s) PROVE MemOfWin'
  BY <1>10 DEF StartUi
<1>11. ASSUME NEW s \in Servers, StartCommand(s) PROVE MemOfWin'
  BY <1>11 DEF StartCommand
<1>11a. ASSUME NEW s \in Servers, StartLooks(s) PROVE MemOfWin'
  <2>1. Enters(s, "start") \/ call' = call BY <1>11a DEF StartLooks
  <2>2. mem' = mem /\ minted' = minted BY <1>11a DEF StartLooks
  <2> QED BY <1>a, <2>1, <2>2
<1>12. ASSUME NEW s \in Servers, StartArms(s) PROVE MemOfWin'
  <2>1. Enters(s, "start") /\ mem' = mem /\ minted' = minted BY <1>12 DEF StartArms
  <2> QED BY <1>a, <2>1
<1>13. ASSUME NEW s \in Servers, Minted(s) PROVE MemOfWin'
  BY <1>13 DEF Minted, Becomes
<1>14. ASSUME NEW s \in Servers, Bind(s) PROVE MemOfWin'
  BY <1>14 DEF Bind, Becomes
<1>15. ASSUME NEW s \in Servers, Status(s) PROVE MemOfWin'
  BY <1>15 DEF Status, Enters
<1>16. ASSUME NEW s \in Servers, StatusDone(s) PROVE MemOfWin'
  BY <1>16 DEF StatusDone
<1>17. ASSUME NEW s \in Servers, Crash(s) PROVE MemOfWin'
  BY <1>17 DEF Crash, Becomes
<1>18. ASSUME NEW r \in Requests, AuthArrives(r) PROVE MemOfWin'
  BY <1>18 DEF AuthArrives, Arrives
<1>19. ASSUME NEW r \in Requests, PeerArrives(r) PROVE MemOfWin'
  BY <1>19 DEF PeerArrives, Arrives, Moves
<1>20. ASSUME NEW r \in Requests, PeerLooks(r) PROVE MemOfWin'
  BY <1>20 DEF PeerLooks, Moves
<1>21. ASSUME NEW r \in Requests, PeerArms(r) PROVE MemOfWin'
  BY <1>21 DEF PeerArms, NewWindow, SetArm, Moves
<1>22. ASSUME NEW r \in Requests, PeerCreates(r) PROVE MemOfWin'
  BY <1>22 DEF PeerCreates, Moves
<1>23. ASSUME NEW r \in Requests, PeerWrites(r) PROVE MemOfWin'
  BY <1>23 DEF PeerWrites, Moves
<1>24. ASSUME NEW r \in Requests, NEW s \in Servers, Auth(r, s) PROVE MemOfWin'
  BY <1>24 DEF Auth, Enters
<1>25. ASSUME NEW r \in Requests, NEW s \in Servers, Match(r, s) PROVE MemOfWin'
  BY <1>25 DEF Match, Answered, Step
<1>26. ASSUME NEW r \in Requests, NEW s \in Servers, Recheck(r, s) PROVE MemOfWin'
  BY <1>26 DEF Recheck, Answered, Touches
<1>27. CASE UNCHANGED vars BY <1>27 DEF vars
<1> QED
  BY <1>1, <1>2, <1>3, <1>4, <1>5, <1>6, <1>7, <1>8, <1>9, <1>10, <1>11, <1>11a, <1>12, <1>13,
     <1>14, <1>15, <1>16, <1>17, <1>18, <1>19, <1>20, <1>21, <1>22, <1>23, <1>24, <1>25, <1>26, <1>27
  DEF Next, Ensure, Server, Phone

LEMMA HeldStep == TypeOK /\ Locks /\ MemOfWin /\ Held /\ [Next]_vars => Held'
<1> USE CarrierAssumption, MintedStays, NoToken
<1> SUFFICES ASSUME TypeOK /\ Locks /\ MemOfWin /\ Held, [Next]_vars PROVE Held' OBVIOUS
<1> USE DEF TypeOK, Locks, MemOfWin, Held, WinOf, tokens, lives, phones, Calls, Free, Others
<1>1. CASE OperatorArms
  BY <1>1 DEF OperatorArms, NewWindow, SetArm
<1>2. CASE WindowEnds
  BY <1>2 DEF WindowEnds, SetArm
<1>3. CASE PollReads
  BY <1>3 DEF PollReads
<1>4. CASE PollRemoves
  BY <1>4 DEF PollRemoves, DropsPost
<1>5. ASSUME NEW s \in Servers, LoadArm(s) PROVE Held'
  BY <1>5 DEF LoadArm
<1>6. ASSUME NEW s \in Servers, Unarmed(s) PROVE Held'
  BY <1>6 DEF Unarmed, Step, Touches
<1>7. ASSUME NEW s \in Servers, Keep(s) PROVE Held'
  BY <1>7 DEF Keep, Step
<1>8. ASSUME NEW s \in Servers, Mint(s) PROVE Held'
  BY <1>8 DEF Mint, Step
<1>9. ASSUME NEW s \in Servers, Persist(s) PROVE Held'
  BY <1>9 DEF Persist, Step, Touches
<1>10. ASSUME NEW s \in Servers, StartUi(s) PROVE Held'
  BY <1>10 DEF StartUi, NewWindow, SetArm, Becomes, DropsPost
<1>11. ASSUME NEW s \in Servers, StartCommand(s) PROVE Held'
  BY <1>11 DEF StartCommand, Becomes, DropsPost
<1>11a. ASSUME NEW s \in Servers, StartLooks(s) PROVE Held'
  BY <1>11a DEF StartLooks, Becomes, Enters
<1>12. ASSUME NEW s \in Servers, StartArms(s) PROVE Held'
  BY <1>12 DEF StartArms, NewWindow, SetArm, Becomes, Enters
<1>13. ASSUME NEW s \in Servers, Minted(s) PROVE Held'
  BY <1>13 DEF Minted, Becomes
<1>14. ASSUME NEW s \in Servers, Bind(s) PROVE Held'
  BY <1>14 DEF Bind, Becomes
<1>15. ASSUME NEW s \in Servers, Status(s) PROVE Held'
  BY <1>15 DEF Status, Enters
<1>16. ASSUME NEW s \in Servers, StatusDone(s) PROVE Held'
  BY <1>16 DEF StatusDone
<1>17. ASSUME NEW s \in Servers, Crash(s) PROVE Held'
  BY <1>17 DEF Crash, Becomes
<1>18. ASSUME NEW r \in Requests, AuthArrives(r) PROVE Held'
  BY <1>18 DEF AuthArrives, Arrives
<1>19. ASSUME NEW r \in Requests, PeerArrives(r) PROVE Held'
  BY <1>19 DEF PeerArrives, Arrives, Moves
<1>20. ASSUME NEW r \in Requests, PeerLooks(r) PROVE Held'
  BY <1>20 DEF PeerLooks, Moves
<1>21. ASSUME NEW r \in Requests, PeerArms(r) PROVE Held'
  BY <1>21 DEF PeerArms, NewWindow, SetArm, Moves
<1>22. ASSUME NEW r \in Requests, PeerCreates(r) PROVE Held'
  BY <1>22 DEF PeerCreates, Moves
<1>23. ASSUME NEW r \in Requests, PeerWrites(r) PROVE Held'
  BY <1>23 DEF PeerWrites, Moves
<1>24. ASSUME NEW r \in Requests, NEW s \in Servers, Auth(r, s) PROVE Held'
  BY <1>24 DEF Auth, Enters
<1>25. ASSUME NEW r \in Requests, NEW s \in Servers, Match(r, s) PROVE Held'
  BY <1>25 DEF Match, Answered, Step
<1>26. ASSUME NEW r \in Requests, NEW s \in Servers, Recheck(r, s) PROVE Held'
  BY <1>26 DEF Recheck, Answered, Touches
<1>27. CASE UNCHANGED vars BY <1>27 DEF vars
<1> QED
  BY <1>1, <1>2, <1>3, <1>4, <1>5, <1>6, <1>7, <1>8, <1>9, <1>10, <1>11, <1>11a, <1>12, <1>13,
     <1>14, <1>15, <1>16, <1>17, <1>18, <1>19, <1>20, <1>21, <1>22, <1>23, <1>24, <1>25, <1>26, <1>27
  DEF Next, Ensure, Server, Phone

LEMMA SeenStep == TypeOK /\ Locks /\ Current /\ Seen /\ [Next]_vars => Seen'
<1> USE CarrierAssumption
<1> SUFFICES ASSUME TypeOK /\ Locks /\ Current /\ Seen, [Next]_vars PROVE Seen' OBVIOUS
<1> USE DEF TypeOK, Locks, Current, Seen, Over, tokens, lives, phones, Calls, Free, Others
<1>1. CASE OperatorArms
  BY <1>1 DEF OperatorArms, NewWindow, SetArm
<1>2. CASE WindowEnds
  BY <1>2 DEF WindowEnds, SetArm
<1>3. CASE PollReads
  BY <1>3 DEF PollReads
<1>4. CASE PollRemoves
  BY <1>4 DEF PollRemoves, DropsPost
<1>5. ASSUME NEW s \in Servers, LoadArm(s) PROVE Seen'
  BY <1>5 DEF LoadArm
<1>6. ASSUME NEW s \in Servers, Unarmed(s) PROVE Seen'
  BY <1>6 DEF Unarmed, Step, Touches
<1>7. ASSUME NEW s \in Servers, Keep(s) PROVE Seen'
  BY <1>7 DEF Keep, Step
<1>8. ASSUME NEW s \in Servers, Mint(s) PROVE Seen'
  BY <1>8 DEF Mint, Step
<1>9. ASSUME NEW s \in Servers, Persist(s) PROVE Seen'
  BY <1>9 DEF Persist, Step, Touches
<1>10. ASSUME NEW s \in Servers, StartUi(s) PROVE Seen'
  BY <1>10 DEF StartUi, NewWindow, SetArm, Becomes, DropsPost
<1>11. ASSUME NEW s \in Servers, StartCommand(s) PROVE Seen'
  BY <1>11 DEF StartCommand, Becomes, DropsPost
<1>11a. ASSUME NEW s \in Servers, StartLooks(s) PROVE Seen'
  BY <1>11a DEF StartLooks, Becomes, Enters
<1>12. ASSUME NEW s \in Servers, StartArms(s) PROVE Seen'
  BY <1>12 DEF StartArms, NewWindow, SetArm, Becomes, Enters
<1>13. ASSUME NEW s \in Servers, Minted(s) PROVE Seen'
  BY <1>13 DEF Minted, Becomes
<1>14. ASSUME NEW s \in Servers, Bind(s) PROVE Seen'
  BY <1>14 DEF Bind, Becomes
<1>15. ASSUME NEW s \in Servers, Status(s) PROVE Seen'
  BY <1>15 DEF Status, Enters
<1>16. ASSUME NEW s \in Servers, StatusDone(s) PROVE Seen'
  BY <1>16 DEF StatusDone
<1>17. ASSUME NEW s \in Servers, Crash(s) PROVE Seen'
  BY <1>17 DEF Crash, Becomes
<1>18. ASSUME NEW r \in Requests, AuthArrives(r) PROVE Seen'
  BY <1>18 DEF AuthArrives, Arrives
<1>19. ASSUME NEW r \in Requests, PeerArrives(r) PROVE Seen'
  BY <1>19 DEF PeerArrives, Arrives, Moves
<1>20. ASSUME NEW r \in Requests, PeerLooks(r) PROVE Seen'
  BY <1>20 DEF PeerLooks, Moves
<1>21. ASSUME NEW r \in Requests, PeerArms(r) PROVE Seen'
  BY <1>21 DEF PeerArms, NewWindow, SetArm, Moves
<1>22. ASSUME NEW r \in Requests, PeerCreates(r) PROVE Seen'
  BY <1>22 DEF PeerCreates, Moves
<1>23. ASSUME NEW r \in Requests, PeerWrites(r) PROVE Seen'
  BY <1>23 DEF PeerWrites, Moves
<1>24. ASSUME NEW r \in Requests, NEW s \in Servers, Auth(r, s) PROVE Seen'
  BY <1>24 DEF Auth, Enters
<1>25. ASSUME NEW r \in Requests, NEW s \in Servers, Match(r, s) PROVE Seen'
  BY <1>25 DEF Match, Answered, Step
<1>26. ASSUME NEW r \in Requests, NEW s \in Servers, Recheck(r, s) PROVE Seen'
  BY <1>26 DEF Recheck, Answered, Touches
<1>27. CASE UNCHANGED vars BY <1>27 DEF vars
<1> QED
  BY <1>1, <1>2, <1>3, <1>4, <1>5, <1>6, <1>7, <1>8, <1>9, <1>10, <1>11, <1>11a, <1>12, <1>13,
     <1>14, <1>15, <1>16, <1>17, <1>18, <1>19, <1>20, <1>21, <1>22, <1>23, <1>24, <1>25, <1>26, <1>27
  DEF Next, Ensure, Server, Phone

LEMMA ScreenStep == TypeOK /\ Past /\ Locks /\ MemOfWin /\ Screen /\ [Next]_vars => Screen'
<1> USE CarrierAssumption, MintedStays, NoToken
<1> SUFFICES ASSUME TypeOK /\ Past /\ Locks /\ MemOfWin /\ Screen,
                    [Next]_vars
             PROVE  Screen'
  OBVIOUS
<1> USE DEF TypeOK, Past, Locks, MemOfWin, Screen, WinOf, Closed, tokens, lives, phones,
         Calls, Free, Others
<1>1. CASE OperatorArms
  BY <1>1 DEF OperatorArms, NewWindow, SetArm
<1>2. CASE WindowEnds
  BY <1>2 DEF WindowEnds, SetArm
<1>3. CASE PollReads
  BY <1>3 DEF PollReads
<1>4. CASE PollRemoves
  BY <1>4 DEF PollRemoves, DropsPost
<1>5. ASSUME NEW s \in Servers, LoadArm(s) PROVE Screen'
  BY <1>5 DEF LoadArm
<1>6. ASSUME NEW s \in Servers, Unarmed(s) PROVE Screen'
  BY <1>6 DEF Unarmed, Step, Touches
<1>7. ASSUME NEW s \in Servers, Keep(s) PROVE Screen'
  BY <1>7 DEF Keep, Step
<1>8. ASSUME NEW s \in Servers, Mint(s) PROVE Screen'
  BY <1>8 DEF Mint, Step
<1>9. ASSUME NEW s \in Servers, Persist(s) PROVE Screen'
  BY <1>9 DEF Persist, Step, Touches
<1>10. ASSUME NEW s \in Servers, StartUi(s) PROVE Screen'
  BY <1>10 DEF StartUi, NewWindow, SetArm, Becomes, DropsPost
<1>11. ASSUME NEW s \in Servers, StartCommand(s) PROVE Screen'
  BY <1>11 DEF StartCommand, Becomes, DropsPost
<1>11a. ASSUME NEW s \in Servers, StartLooks(s) PROVE Screen'
  BY <1>11a DEF StartLooks, Becomes, Enters
<1>12. ASSUME NEW s \in Servers, StartArms(s) PROVE Screen'
  BY <1>12 DEF StartArms, NewWindow, SetArm, Becomes, Enters
<1>13. ASSUME NEW s \in Servers, Minted(s) PROVE Screen'
  BY <1>13 DEF Minted, Becomes
<1>14. ASSUME NEW s \in Servers, Bind(s) PROVE Screen'
  BY <1>14 DEF Bind, Becomes
<1>15. ASSUME NEW s \in Servers, Status(s) PROVE Screen'
  BY <1>15 DEF Status, Enters
<1>16. ASSUME NEW s \in Servers, StatusDone(s) PROVE Screen'
  BY <1>16 DEF StatusDone
<1>17. ASSUME NEW s \in Servers, Crash(s) PROVE Screen'
  BY <1>17 DEF Crash, Becomes
<1>18. ASSUME NEW r \in Requests, AuthArrives(r) PROVE Screen'
  BY <1>18 DEF AuthArrives, Arrives
<1>19. ASSUME NEW r \in Requests, PeerArrives(r) PROVE Screen'
  BY <1>19 DEF PeerArrives, Arrives, Moves
<1>20. ASSUME NEW r \in Requests, PeerLooks(r) PROVE Screen'
  BY <1>20 DEF PeerLooks, Moves
<1>21. ASSUME NEW r \in Requests, PeerArms(r) PROVE Screen'
  BY <1>21 DEF PeerArms, NewWindow, SetArm, Moves
<1>22. ASSUME NEW r \in Requests, PeerCreates(r) PROVE Screen'
  BY <1>22 DEF PeerCreates, Moves
<1>23. ASSUME NEW r \in Requests, PeerWrites(r) PROVE Screen'
  BY <1>23 DEF PeerWrites, Moves
<1>24. ASSUME NEW r \in Requests, NEW s \in Servers, Auth(r, s) PROVE Screen'
  BY <1>24 DEF Auth, Enters
<1>25. ASSUME NEW r \in Requests, NEW s \in Servers, Match(r, s) PROVE Screen'
  <2>1. CASE Answered(r, s, "refused") BY <1>25, <2>1 DEF Match, Answered
  <2>2. CASE Step(s, "recheck")
    <3>1. call'[s].step = "recheck" /\ call'[s].win = call[s].win /\ call[s].step = "check"
      BY <1>25, <2>2 DEF Match, Step
    <3>2. \A o \in Servers \ {s} : call'[o] = call[o] BY <2>2 DEF Step
    <3>3. UNCHANGED <<arm, wins, minted, at, shown, mem>> BY <1>25 DEF Match
    <3> QED BY <3>1, <3>2, <3>3
  <2> QED BY <1>25, <2>1, <2>2 DEF Match
<1>26. ASSUME NEW r \in Requests, NEW s \in Servers, Recheck(r, s) PROVE Screen'
  <2>1. call' = [call EXCEPT ![s] = Free] /\ UNCHANGED <<arm, wins, minted, at, shown>>
    BY <1>26 DEF Recheck, Answered
  <2>2. call'[s].step = "free" /\ \A o \in Servers \ {s} : call'[o] = call[o] BY <2>1
  <2>3. CASE arm # 0 BY <1>26, <2>1, <2>2, <2>3 DEF Recheck
  <2>4. CASE arm = 0
    <3>1. \A o \in Servers \ {s} : mem'[o] = mem[o] BY <1>26, <2>4 DEF Recheck
    <3>2. at[s] = "up" BY <1>26 DEF Recheck
    <3>3. Closed(WinOf(shown[s])) BY <2>4, <3>2, NoToken DEF Closed, Past
    <3> QED BY <2>1, <2>2, <3>1, <3>2, <3>3
  <2> QED BY <2>3, <2>4
<1>27. CASE UNCHANGED vars BY <1>27 DEF vars
<1> QED
  BY <1>1, <1>2, <1>3, <1>4, <1>5, <1>6, <1>7, <1>8, <1>9, <1>10, <1>11, <1>11a, <1>12, <1>13,
     <1>14, <1>15, <1>16, <1>17, <1>18, <1>19, <1>20, <1>21, <1>22, <1>23, <1>24, <1>25, <1>26, <1>27
  DEF Next, Ensure, Server, Phone

LEMMA ServedStep ==
  TypeOK /\ Locks /\ MemOfWin /\ Held /\ Seen /\ ServedInWindow /\ [Next]_vars => ServedInWindow'
<1> USE CarrierAssumption, MintedStays, NoToken
<1> SUFFICES ASSUME TypeOK /\ Locks /\ MemOfWin /\ Held /\ Seen /\ ServedInWindow,
                    [Next]_vars
             PROVE  ServedInWindow'
  OBVIOUS
<1> USE DEF TypeOK, Locks, MemOfWin, Held, Seen, ServedInWindow, WinOf, Over, tokens,
         lives, phones, Calls, Free, Others
<1>1. CASE OperatorArms
  BY <1>1 DEF OperatorArms, NewWindow, SetArm
<1>2. CASE WindowEnds
  BY <1>2 DEF WindowEnds, SetArm
<1>3. CASE PollReads
  BY <1>3 DEF PollReads
<1>4. CASE PollRemoves
  BY <1>4 DEF PollRemoves, DropsPost
<1>5. ASSUME NEW s \in Servers, LoadArm(s) PROVE ServedInWindow'
  BY <1>5 DEF LoadArm
<1>6. ASSUME NEW s \in Servers, Unarmed(s) PROVE ServedInWindow'
  BY <1>6 DEF Unarmed, Step, Touches
<1>7. ASSUME NEW s \in Servers, Keep(s) PROVE ServedInWindow'
  BY <1>7 DEF Keep, Step
<1>8. ASSUME NEW s \in Servers, Mint(s) PROVE ServedInWindow'
  BY <1>8 DEF Mint, Step
<1>9. ASSUME NEW s \in Servers, Persist(s) PROVE ServedInWindow'
  BY <1>9 DEF Persist, Step, Touches
<1>10. ASSUME NEW s \in Servers, StartUi(s) PROVE ServedInWindow'
  BY <1>10 DEF StartUi, NewWindow, SetArm, Becomes, DropsPost
<1>11. ASSUME NEW s \in Servers, StartCommand(s) PROVE ServedInWindow'
  BY <1>11 DEF StartCommand, Becomes, DropsPost
<1>11a. ASSUME NEW s \in Servers, StartLooks(s) PROVE ServedInWindow'
  BY <1>11a DEF StartLooks, Becomes, Enters
<1>12. ASSUME NEW s \in Servers, StartArms(s) PROVE ServedInWindow'
  BY <1>12 DEF StartArms, NewWindow, SetArm, Becomes, Enters
<1>13. ASSUME NEW s \in Servers, Minted(s) PROVE ServedInWindow'
  BY <1>13 DEF Minted, Becomes
<1>14. ASSUME NEW s \in Servers, Bind(s) PROVE ServedInWindow'
  BY <1>14 DEF Bind, Becomes
<1>15. ASSUME NEW s \in Servers, Status(s) PROVE ServedInWindow'
  BY <1>15 DEF Status, Enters
<1>16. ASSUME NEW s \in Servers, StatusDone(s) PROVE ServedInWindow'
  BY <1>16 DEF StatusDone
<1>17. ASSUME NEW s \in Servers, Crash(s) PROVE ServedInWindow'
  BY <1>17 DEF Crash, Becomes
<1>18. ASSUME NEW r \in Requests, AuthArrives(r) PROVE ServedInWindow'
  BY <1>18 DEF AuthArrives, Arrives
<1>19. ASSUME NEW r \in Requests, PeerArrives(r) PROVE ServedInWindow'
  BY <1>19 DEF PeerArrives, Arrives, Moves
<1>20. ASSUME NEW r \in Requests, PeerLooks(r) PROVE ServedInWindow'
  BY <1>20 DEF PeerLooks, Moves
<1>21. ASSUME NEW r \in Requests, PeerArms(r) PROVE ServedInWindow'
  BY <1>21 DEF PeerArms, NewWindow, SetArm, Moves
<1>22. ASSUME NEW r \in Requests, PeerCreates(r) PROVE ServedInWindow'
  BY <1>22 DEF PeerCreates, Moves
<1>23. ASSUME NEW r \in Requests, PeerWrites(r) PROVE ServedInWindow'
  BY <1>23 DEF PeerWrites, Moves
<1>24. ASSUME NEW r \in Requests, NEW s \in Servers, Auth(r, s) PROVE ServedInWindow'
  BY <1>24 DEF Auth, Enters
<1>25. ASSUME NEW r \in Requests, NEW s \in Servers, Match(r, s) PROVE ServedInWindow'
  BY <1>25 DEF Match, Answered, Step
<1>26. ASSUME NEW r \in Requests, NEW s \in Servers, Recheck(r, s) PROVE ServedInWindow'
  BY <1>26 DEF Recheck, Answered, Touches
<1>27. CASE UNCHANGED vars BY <1>27 DEF vars
<1> QED
  BY <1>1, <1>2, <1>3, <1>4, <1>5, <1>6, <1>7, <1>8, <1>9, <1>10, <1>11, <1>11a, <1>12, <1>13,
     <1>14, <1>15, <1>16, <1>17, <1>18, <1>19, <1>20, <1>21, <1>22, <1>23, <1>24, <1>25, <1>26, <1>27
  DEF Next, Ensure, Server, Phone

-----------------------------------------------------------------------------
LEMMA InvInit == Init => CarrierInv
<1> SUFFICES ASSUME Init PROVE CarrierInv OBVIOUS
<1>1. TypeOK BY TypeInit
<1>2. Past BY <1>1, CarrierAssumption DEF Init, Past, Free, TypeOK
<1>3. Locks /\ MemOfWin /\ Held /\ Seen
  BY CarrierAssumption DEF Init, Locks, MemOfWin, Held, Seen, Free, Others
<1>4. Current /\ Screen /\ ServedInWindow /\ ShownAccepted
  BY DEF Init, Current, Over, Screen, ServedInWindow, ShownAccepted
<1> QED BY <1>1, <1>2, <1>3, <1>4 DEF CarrierInv

LEMMA InvStep == CarrierInv /\ [Next]_vars => CarrierInv'
<1> SUFFICES ASSUME CarrierInv, [Next]_vars PROVE CarrierInv' OBVIOUS
<1> USE DEF CarrierInv
<1>1. TypeOK' /\ Past' /\ Locks' BY TypeStep, PastStep, LocksStep
<1>2. MemOfWin' /\ Held' /\ Seen' BY MemStep, HeldStep, SeenStep
<1>3. Current' /\ Screen' /\ ServedInWindow' BY CurrentStep, ScreenStep, ServedStep
<1>4. ShownAccepted' BY <1>1, <1>3 DEF Past, Screen, ShownAccepted, Closed, WinOf
<1> QED BY <1>1, <1>2, <1>3, <1>4

LEMMA CarrierInvariant == Spec => []CarrierInv
BY InvInit, InvStep, PTL DEF Spec

\* Every variable keeps its type.
THEOREM CarrierTypeCorrect == Spec => []TypeOK
<1>1. CarrierInv => TypeOK BY DEF CarrierInv
<1> QED BY <1>1, CarrierInvariant, PTL

\* A token opens the host to a request only in a window that was open during it.
THEOREM ServedInWindowHolds == Spec => []ServedInWindow
<1>1. CarrierInv => ServedInWindow BY DEF CarrierInv
<1> QED BY <1>1, CarrierInvariant, PTL

\* A QR on a screen is good for as long as its window is open.
THEOREM ShownAcceptedHolds == Spec => []ShownAccepted
<1>1. CarrierInv => ShownAccepted BY DEF CarrierInv
<1> QED BY <1>1, CarrierInvariant, PTL
-----------------------------------------------------------------------------
(* A server that is started again shows the token shown before.            *)

\* The open window is the last one.
Newest == arm \in {0, wins}

\* A server has no token before it has looked for one.
Unminted ==
  \A s \in Servers :
    at[s] \in {"off", "look", "arm"} \/ (at[s] = "start" /\ call[s].step \in {"load", "act"}) => mem[s] = 0

\* A token that is saved, held or shown has been minted, and for a window.
Issued ==
  /\ file # 0 => minted[file] # 0
  /\ \A s \in Servers :
       /\ mem[s] # 0 => minted[mem[s]] # 0
       /\ shown[s] # 0 => minted[shown[s]] # 0
       /\ call[s].step = "persist" => call[s].win # 0

\* No token of window w will be saved any more.
Settled(w) ==
  /\ Closed(w) /\ w # WinOf(file)
  /\ \A s \in Servers : call[s].step \in {"act", "persist"} => call[s].win # w

\* A token that is shown is the saved one until its window is settled.
Showing ==
  \A s \in Servers : shown[s] # 0 => file = shown[s] \/ Settled(WinOf(shown[s]))

\* So is the token a server is about to show.
Ready ==
  \A s \in Servers :
    at[s] = "bind" \/ (at[s] = "start" /\ call[s].step = "check" /\ call[s].win # 0)
      => mem[s] = file /\ file # 0

\* What a server is about to do to the saved token costs no open window its own.
Holding ==
  \A s \in Servers : call[s].step \in {"act", "persist"} =>
    /\ call[s].win = 0 => file = 0 \/ Closed(WinOf(file))
    /\ call[s].win # 0 =>
         WinOf(file) <= call[s].win /\ (call[s].step = "persist" => WinOf(file) # call[s].win)

Undisturbed == Showing /\ Ready /\ Holding /\ RestartKeepsQr

RestartInv ==
  /\ Newest /\ Unminted /\ Issued
  /\ ~mixed => Undisturbed

\* A step that leaves the tokens alone, and no server nearer to changing them.
Quiet ==
  /\ UNCHANGED <<minted, file, mem, shown, mixed>>
  /\ \A s \in Servers :
       /\ call'[s] = call[s] \/ call'[s].step \in {"free", "load", "recheck"}
       /\ at'[s] = at[s] \/ (at[s] \in {"off", "look", "arm"} /\ at'[s] \in {"look", "arm", "start"})
       /\ at[s] \in {"start", "bind"} => call'[s] = call[s]

\* The steps of server s that are not quiet.
Drops(r, s) == Recheck(r, s) /\ arm = 0
Loud(s) ==
  \/ LoadArm(s) \/ Unarmed(s) \/ Keep(s) \/ Mint(s) \/ Persist(s)
  \/ Minted(s) \/ Bind(s) \/ Crash(s)
  \/ \E r \in Requests : Drops(r, s)

LEMMA NextArm ==
  [Next]_vars => \/ UNCHANGED <<arm, wins>>
                 \/ arm' = 0 /\ wins' = wins
                 \/ arm' = wins + 1 /\ wins' = wins + 1
BY DEF Next, Ensure, Server, Phone, vars, OperatorArms, WindowEnds, PollReads, NewWindow, SetArm,
   PollRemoves, LoadArm, Unarmed, Keep, Mint, Persist, StartUi, StartCommand, StartLooks, StartArms,
   Minted, Bind, Status, StatusDone, Crash, AuthArrives, PeerArrives, PeerLooks,
   PeerArms, PeerCreates, PeerWrites, Auth, Match, Recheck

\* A server that is called is starting or up.
LEMMA Called ==
  ASSUME TypeOK, Locks, NEW s \in Servers, call[s].step # "free"
  PROVE  at[s] \in {"start", "up"}
<1>1. call[s].by \in Others \cup Requests BY DEF TypeOK, Calls
<1>2. call[s].by # "none" BY DEF Locks
<1> QED BY <1>1, <1>2 DEF Locks, Others

LEMMA EnterQuiet ==
  ASSUME TypeOK, NEW s \in Servers, NEW by, Enters(s, by), at[s] \notin {"start", "bind"},
         \A o \in Servers :
           at'[o] = at[o] \/ (at[o] \in {"off", "look", "arm"} /\ at'[o] \in {"look", "arm", "start"}),
         UNCHANGED <<minted, file, mem, shown, mixed>>
  PROVE  Quiet
<1>1. call' = [call EXCEPT ![s] = [by |-> by, step |-> "load", win |-> 0]] BY DEF Enters
<1>2. call'[s].step = "load" BY <1>1 DEF TypeOK
<1>3. \A o \in Servers \ {s} : call'[o] = call[o] BY <1>1 DEF TypeOK
<1> QED BY <1>2, <1>3 DEF Quiet

LEMMA AnswerQuiet ==
  ASSUME TypeOK, NEW s \in Servers, at[s] = "up",
         \/ call' = [call EXCEPT ![s] = Free]
         \/ call' = [call EXCEPT ![s].step = "recheck"],
         UNCHANGED <<at, minted, file, mem, shown, mixed>>
  PROVE  Quiet
<1>1. call'[s].step \in {"free", "recheck"} BY DEF TypeOK, Free, Calls
<1>2. \A o \in Servers \ {s} : call'[o] = call[o] BY DEF TypeOK
<1> QED BY <1>1, <1>2 DEF Quiet

LEMMA Kinds ==
  ASSUME TypeOK, Locks, [Next]_vars
  PROVE  Quiet \/ \E s \in Servers : Loud(s)
<1> USE DEF tokens, lives, phones
<1>1. CASE OperatorArms \/ WindowEnds \/ PollReads \/ PollRemoves \/ UNCHANGED vars
  BY <1>1 DEF OperatorArms, WindowEnds, PollReads, PollRemoves, vars, Quiet
<1>2. ASSUME NEW s \in Servers, Ensure(s) PROVE Loud(s) BY <1>2 DEF Ensure, Loud
<1>3. ASSUME NEW s \in Servers, Server(s) PROVE Quiet \/ Loud(s)
  <2>1. CASE StartUi(s) \/ StartCommand(s)
    <3>1. at[s] = "off" /\ at' = [at EXCEPT ![s] = "look"]
          /\ UNCHANGED <<call, minted, file, mem, shown, mixed>>
      BY <2>1 DEF StartUi, StartCommand, Becomes
    <3>2. \A o \in Servers : at'[o] = at[o] \/ (at[o] = "off" /\ at'[o] = "look")
      BY <3>1 DEF TypeOK
    <3> QED BY <3>1, <3>2 DEF Quiet
  <2>2. CASE StartLooks(s) \/ StartArms(s)
    <3>1. at[s] \in {"look", "arm"} /\ UNCHANGED <<minted, file, mem, shown, mixed>>
      BY <2>2 DEF StartLooks, StartArms
    <3>2. \A o \in Servers :
            \/ at'[o] = at[o]
            \/ at[o] \in {"off", "look", "arm"} /\ at'[o] \in {"look", "arm", "start"}
      BY <2>2, <3>1 DEF TypeOK, StartLooks, StartArms, Becomes
    <3>3. CASE Enters(s, "start") BY <3>1, <3>2, <3>3, EnterQuiet
    <3>4. CASE UNCHANGED call BY <3>1, <3>2, <3>4 DEF Quiet
    <3> QED BY <2>2, <3>3, <3>4 DEF StartLooks, StartArms
  <2>3. CASE Status(s)
    <3>1. at[s] = "up" /\ Enters(s, "status") /\ UNCHANGED <<at, minted, file, mem, shown, mixed>>
      BY <2>3 DEF Status
    <3> QED BY <3>1, EnterQuiet
  <2>4. CASE StatusDone(s)
    <3>1. at[s] = "up" BY <2>4 DEF StatusDone, Locks
    <3> QED BY <2>4, <3>1, AnswerQuiet DEF StatusDone
  <2> QED BY <1>3, <2>1, <2>2, <2>3, <2>4 DEF Server, Loud
<1>4. ASSUME NEW r \in Requests, Phone(r) PROVE Quiet \/ \E s \in Servers : Loud(s)
  <2>1. CASE AuthArrives(r) \/ PeerArrives(r) \/ PeerLooks(r)
    BY <2>1 DEF AuthArrives, PeerArrives, PeerLooks, Quiet
  <2>2. CASE PeerArms(r) \/ PeerCreates(r) \/ PeerWrites(r)
    BY <2>2 DEF PeerArms, PeerCreates, PeerWrites, Quiet
  <2>3. ASSUME NEW s \in Servers, Auth(r, s) PROVE Quiet
    <3>1. at[s] = "up" /\ Enters(s, r) /\ UNCHANGED <<at, minted, file, mem, shown, mixed>>
      BY <2>3 DEF Auth
    <3> QED BY <3>1, EnterQuiet
  <2>4. ASSUME NEW s \in Servers, Match(r, s) PROVE Quiet
    <3>1. at[s] = "up" BY <2>4 DEF Match, Locks
    <3> QED BY <2>4, <3>1, AnswerQuiet DEF Match, Step, Answered
  <2>5. ASSUME NEW s \in Servers, Recheck(r, s), arm # 0 PROVE Quiet
    <3>1. at[s] = "up" BY <2>5 DEF Recheck, Locks
    <3> QED BY <2>5, <3>1, AnswerQuiet DEF Recheck, Answered
  <2>6. ASSUME NEW s \in Servers, Recheck(r, s), arm = 0 PROVE Loud(s)
    BY <2>6 DEF Loud, Drops
  <2> QED BY <1>4, <2>1, <2>2, <2>3, <2>4, <2>5, <2>6 DEF Phone
<1> QED BY <1>1, <1>2, <1>3, <1>4 DEF Next

\* A server alone between its start and its end finds no other in a call.
LEMMA AloneInCall ==
  ASSUME TypeOK, Locks, NEW s \in Servers, Touches(s), ~mixed'
  PROVE  /\ ~mixed
         /\ \A o \in Servers \ {s} : at[o] \in {"off", "down"} /\ call[o].step = "free"
<1>1. ~mixed /\ ~Crowded(s) BY Zenon DEF Touches
<1>2. \A o \in Servers \ {s} : at[o] \in {"off", "down"} BY <1>1 DEF Crowded
<1> QED BY <1>1, <1>2, Called

LEMMA UnmixedBefore ==
  ASSUME TypeOK, [Next]_vars, ~mixed'
  PROVE  ~mixed
<1>1. ASSUME NEW s \in Servers, Touches(s) PROVE ~mixed BY <1>1, Zenon DEF Touches
<1>2. CASE UNCHANGED mixed BY <1>2, Zenon
<1>3. CASE mixed' = TRUE BY <1>3, Zenon
<1>4. UNCHANGED mixed \/ mixed' = TRUE \/ \E s \in Servers : Touches(s)
  BY DEF Next, Ensure, Server, Phone, vars, OperatorArms, WindowEnds, PollReads,
     PollRemoves, LoadArm, Unarmed, Keep, Mint, Persist, StartUi, StartCommand, StartLooks, StartArms,
     Minted, Bind, Status, StatusDone, Crash, AuthArrives, PeerArrives, PeerLooks,
     PeerArms, PeerCreates, PeerWrites, Auth, Match, Recheck
<1> QED BY <1>1, <1>2, <1>3, <1>4

LEMMA NewestStep ==
  ASSUME TypeOK, Newest, [Next]_vars
  PROVE  Newest'
BY NextArm DEF Newest, TypeOK

LEMMA UnmintedStep ==
  ASSUME TypeOK, Locks, Unminted, [Next]_vars
  PROVE  Unminted'
<1> USE DEF TypeOK, Unminted
<1>1. CASE Quiet
  <2> SUFFICES ASSUME NEW s \in Servers,
                      at'[s] \in {"off", "look", "arm"}
                        \/ (at'[s] = "start" /\ call'[s].step \in {"load", "act"})
               PROVE  mem'[s] = 0
    OBVIOUS
  <2>1. CASE at[s] \in {"off", "look", "arm"} BY <1>1, <2>1 DEF Quiet
  <2>2. CASE at[s] \notin {"off", "look", "arm"} BY <1>1, <2>2 DEF Quiet
  <2> QED BY <2>1, <2>2
<1>2. ASSUME NEW s \in Servers, call[s].step = "act", call'[s].step \in {"check", "persist"},
             at' = at, \A o \in Servers \ {s} : call'[o] = call[o] /\ mem'[o] = mem[o]
      PROVE  Unminted'
  <2>1. at[s] \in {"start", "up"} BY <1>2, Called
  <2> QED BY <1>2, <2>1
<1>3. ASSUME NEW s \in Servers, Loud(s) PROVE Unminted'
  <2>1. CASE LoadArm(s)
    <3>1. call'[s].step = "act" /\ call[s].step = "load" /\ UNCHANGED <<at, mem>>
      BY <2>1 DEF LoadArm, lives, tokens
    <3>2. \A o \in Servers \ {s} : call'[o] = call[o] BY <2>1 DEF LoadArm
    <3> QED BY <3>1, <3>2
  <2>2. CASE Unarmed(s)
    <3>1. call[s].step = "act" /\ call' = [call EXCEPT ![s].step = "check"] /\ at' = at
      BY <2>2 DEF Unarmed, Step, lives
    <3>2. call'[s].step = "check" /\ \A o \in Servers \ {s} : call'[o] = call[o] BY <3>1
    <3>3. \A o \in Servers \ {s} : mem'[o] = mem[o] BY <2>2 DEF Unarmed
    <3> QED BY <1>2, <3>1, <3>2, <3>3
  <2>3. CASE Keep(s)
    <3>1. call[s].step = "act" /\ call' = [call EXCEPT ![s].step = "check"] /\ at' = at
      BY <2>3 DEF Keep, Step, lives
    <3>2. call'[s].step = "check" /\ \A o \in Servers \ {s} : call'[o] = call[o] BY <3>1
    <3>3. \A o \in Servers \ {s} : mem'[o] = mem[o] BY <2>3 DEF Keep
    <3> QED BY <1>2, <3>1, <3>2, <3>3
  <2>4. CASE Mint(s)
    <3>1. call[s].step = "act" /\ call' = [call EXCEPT ![s].step = "persist"] /\ at' = at
      BY <2>4 DEF Mint, Step, lives
    <3>2. call'[s].step = "persist" /\ \A o \in Servers \ {s} : call'[o] = call[o] BY <3>1
    <3>3. \A o \in Servers \ {s} : mem'[o] = mem[o] BY <2>4 DEF Mint
    <3> QED BY <1>2, <3>1, <3>2, <3>3
  <2>5. CASE Persist(s)
    <3>1. call'[s].step = "check" /\ UNCHANGED <<at, mem>> BY <2>5 DEF Persist, Step, lives
    <3>2. \A o \in Servers \ {s} : call'[o] = call[o] BY <2>5 DEF Persist, Step
    <3>3. at[s] \in {"start", "up"} BY <2>5, Called DEF Persist
    <3> QED BY <3>1, <3>2, <3>3
  <2>6. CASE Minted(s) \/ Bind(s) \/ Crash(s)
    <3>1. at'[s] \in {"down", "bind", "up"} BY <2>6 DEF Minted, Bind, Crash, Becomes
    <3>2. \A o \in Servers \ {s} : at'[o] = at[o] /\ mem'[o] = mem[o] /\ call'[o] = call[o]
      BY <2>6 DEF Minted, Bind, Crash, Becomes, tokens
    <3> QED BY <3>1, <3>2
  <2>7. ASSUME NEW r \in Requests, Drops(r, s) PROVE Unminted'
    <3>1. at[s] = "up" BY <2>7 DEF Drops, Recheck, Locks
    <3>2. at' = at /\ \A o \in Servers \ {s} : mem'[o] = mem[o] /\ call'[o] = call[o]
      BY <2>7 DEF Drops, Recheck, Answered, lives
    <3> QED BY <3>1, <3>2
  <2> QED BY <1>3, <2>1, <2>2, <2>3, <2>4, <2>5, <2>6, <2>7 DEF Loud
<1> QED BY <1>1, <1>3, Kinds

LEMMA IssuedStep ==
  ASSUME TypeOK, Locks, Issued, [Next]_vars
  PROVE  Issued'
<1> USE MintedStays, NoToken DEF TypeOK, Issued
<1>0. \A t \in Tokens : minted[t] # 0 => minted'[t] # 0 OBVIOUS
<1>a. ASSUME \A t \in {file'} \cup {mem'[s] : s \in Servers} \cup {shown'[s] : s \in Servers} :
               t # 0 => t \in Tokens /\ minted'[t] # 0,
             \A s \in Servers : call'[s].step = "persist" => call'[s].win # 0
      PROVE  Issued'
  BY <1>a
<1>1. CASE Quiet
  <2>1. \A s \in Servers : call'[s].step = "persist" => call'[s].win # 0 BY <1>1 DEF Quiet
  <2> QED BY <1>0, <1>1, <2>1 DEF Quiet
<1>2. ASSUME NEW s \in Servers, Loud(s) PROVE Issued'
  <2>1. CASE LoadArm(s) BY <2>1 DEF LoadArm, tokens, lives
  <2>2. CASE Unarmed(s) BY <2>2 DEF Unarmed, Step, lives
  <2>3. CASE Keep(s) BY <2>3 DEF Keep, Step, lives
  <2>4. CASE Mint(s)
    <3>1. PICK t \in Tokens : /\ minted' = [minted EXCEPT ![t] = call[s].win]
                              /\ mem' = [mem EXCEPT ![s] = t]
      BY <2>4 DEF Mint
    <3>2. call[s].win # 0 /\ UNCHANGED <<file, shown>> BY <2>4 DEF Mint, lives
    <3>3. call' = [call EXCEPT ![s].step = "persist"] BY <2>4 DEF Mint, Step
    <3>4. \A o \in Servers : call'[o].step = "persist" => call'[o].win # 0
      BY <3>2, <3>3 DEF Calls
    <3>5. \A o \in Servers : mem'[o] # 0 => minted'[mem'[o]] # 0 BY <1>0, <3>1, <3>2
    <3> QED BY <1>0, <3>2, <3>4, <3>5
  <2>5. CASE Persist(s)
    <3>1. file' \in {file, mem[s]} /\ UNCHANGED <<minted, mem, shown>>
      BY <2>5 DEF Persist, lives
    <3>2. call' = [call EXCEPT ![s].step = "check"] BY <2>5 DEF Persist, Step
    <3>3. \A o \in Servers : call'[o].step = "persist" => call'[o].win # 0
      BY <3>2 DEF Calls
    <3> QED BY <3>1, <3>3
  <2>6. CASE Minted(s) BY <2>6 DEF Minted, Becomes, tokens, Free
  <2>7. CASE Bind(s) BY <2>7 DEF Bind, tokens
  <2>8. CASE Crash(s)
    <3>1. /\ call' = [call EXCEPT ![s] = Free] /\ mem' = [mem EXCEPT ![s] = 0]
          /\ UNCHANGED <<minted, file, shown>>
      BY <2>8 DEF Crash
    <3> QED BY <3>1 DEF Free
  <2>9. ASSUME NEW r \in Requests, Drops(r, s) PROVE Issued'
    <3>1. /\ call' = [call EXCEPT ![s] = Free] /\ mem' = [mem EXCEPT ![s] = 0]
          /\ file' = 0 /\ UNCHANGED <<minted, shown>>
      BY <2>9 DEF Drops, Recheck, Answered, lives
    <3> QED BY <3>1 DEF Free
  <2> QED BY <1>2, <2>1, <2>2, <2>3, <2>4, <2>5, <2>6, <2>7, <2>8, <2>9 DEF Loud
<1> QED BY <1>1, <1>2, Kinds

\* What the calls and the saved token may do, for a token to stay safe.
CallsAge ==
  \A s \in Servers : call'[s].step \in {"act", "persist"} =>
    \/ call'[s].win = arm
    \/ call[s].step \in {"act", "persist"} /\ call'[s].win = call[s].win

Replaced ==
  /\ file # 0 => Closed(WinOf(file))
  /\ \A s \in Servers : call'[s].step \notin {"act", "persist"}
  /\ \/ file' = 0
     \/ \E s \in Servers :
          /\ file' = mem[s] /\ mem[s] # 0 /\ call[s].step = "persist"
          /\ WinOf(mem[s]) = call[s].win /\ WinOf(file) # call[s].win

LEMMA ShowingKept ==
  ASSUME TypeOK, Issued, Showing, [Next]_vars, CallsAge, file' = file \/ Replaced,
         NEW x \in Servers, shown'[x] = shown[x], shown[x] # 0
  PROVE  file' = shown[x] \/ Settled(WinOf(shown[x]))'
<1> DEFINE w == WinOf(shown[x])
<1>1. shown[x] \in Tokens \cup {0} /\ file \in Tokens \cup {0} BY DEF TypeOK
<1>2. w' = w /\ w \in Nat /\ w # 0
  <2>1. WinOf(shown[x])' = (IF shown[x] = 0 THEN 0 ELSE minted'[shown[x]]) BY DEF WinOf
  <2> QED BY <1>1, <2>1, MintedStays, NoToken DEF Issued, WinOf, TypeOK
<1>3. file' = file => WinOf(file)' = WinOf(file)
  BY <1>1, MintedStays, NoToken DEF Issued, WinOf
<1>4. SUFFICES ASSUME file' # shown[x] PROVE Settled(WinOf(shown[x]))' OBVIOUS
<1>5. Closed(w)
  <2>1. CASE file = shown[x] BY <1>4, <2>1 DEF Replaced
  <2>2. CASE file # shown[x] BY <2>2 DEF Showing, Settled
  <2> QED BY <2>1, <2>2
<1>6. w' # WinOf(file)'
  <2>1. CASE file' = file
    <3>1. Settled(w) BY <1>4, <2>1 DEF Showing
    <3> QED BY <1>2, <1>3, <2>1, <3>1 DEF Settled
  <2>2. CASE file' = 0 BY <1>2, <2>2 DEF WinOf
  <2>3. ASSUME NEW s \in Servers, file' = mem[s], mem[s] # 0, call[s].step = "persist",
               WinOf(mem[s]) = call[s].win, WinOf(file) # call[s].win
        PROVE  w' # WinOf(file)'
    <3>1. WinOf(file)' = WinOf(mem[s])
      BY <2>3, MintedStays, NoToken DEF Issued, WinOf, TypeOK
    <3>2. CASE file = shown[x] BY <1>2, <2>3, <3>1, <3>2
    <3>3. CASE file # shown[x]
      <4>1. Settled(w) BY <3>3 DEF Showing
      <4> QED BY <1>2, <2>3, <3>1, <4>1 DEF Settled
    <3> QED BY <3>2, <3>3
  <2> QED BY <2>1, <2>2, <2>3 DEF Replaced
<1>7. \A s \in Servers : call'[s].step \in {"act", "persist"} => call'[s].win # w
  <2>1. CASE Replaced BY <2>1 DEF Replaced
  <2>2. CASE file' = file
    <3>1. Settled(w) BY <1>4, <2>2 DEF Showing
    <3> QED BY <3>1 DEF Settled, CallsAge, Closed
  <2> QED BY <2>1, <2>2
<1>8. Closed(w)' BY <1>2, <1>5, NextArm, CarrierAssumption DEF Closed, TypeOK
<1> HIDE DEF w
<1>9. Settled(w)' BY <1>2, <1>6, <1>7, <1>8 DEF Settled
<1> QED BY <1>9 DEF w

LEMMA QuietAge ==
  ASSUME TypeOK, Quiet
  PROVE  CallsAge
BY DEF Quiet, CallsAge

\* Who saves or removes a token unmixed is alone, and costs no open window its own.
LEMMA UnarmedReplaces ==
  ASSUME TypeOK, Locks, Holding, NEW s \in Servers, Unarmed(s), ~mixed'
  PROVE  Replaced
<1>1. \A o \in Servers \ {s} : call[o].step = "free" BY AloneInCall DEF Unarmed
<1>2. call' = [call EXCEPT ![s].step = "check"] /\ file' = 0 BY DEF Unarmed, Step
<1>3. \A o \in Servers : call'[o].step \notin {"act", "persist"} BY <1>1, <1>2 DEF TypeOK
<1>4. file # 0 => Closed(WinOf(file)) BY DEF Unarmed, Holding
<1> QED BY <1>2, <1>3, <1>4 DEF Replaced

LEMMA PersistReplaces ==
  ASSUME TypeOK, Past, Locks, MemOfWin, Newest, Issued, Holding,
         NEW s \in Servers, Persist(s), ~mixed'
  PROVE  Replaced /\ file' = mem[s] /\ mem[s] # 0
<1>1. file' = mem[s] /\ Touches(s)
  <2>1. mixed' # TRUE BY Zenon
  <2> QED BY <2>1 DEF Persist
<1>2. \A o \in Servers \ {s} : call[o].step = "free" BY <1>1, AloneInCall
<1>3. call' = [call EXCEPT ![s].step = "check"] BY DEF Persist, Step
<1>4. \A o \in Servers : call'[o].step \notin {"act", "persist"} BY <1>2, <1>3 DEF TypeOK
<1>5. call[s].step = "persist" /\ call[s].win # 0 BY DEF Persist, Issued
<1>6. WinOf(mem[s]) = call[s].win BY <1>5 DEF MemOfWin
<1>7. mem[s] # 0 BY <1>5, <1>6 DEF WinOf
<1>8. WinOf(file) <= call[s].win /\ WinOf(file) # call[s].win BY <1>5 DEF Holding
<1>9. call[s].win \in Nat /\ call[s].win <= wins /\ wins \in Nat BY DEF TypeOK, Calls, Past
<1>10. file # 0 => Closed(WinOf(file))
  <2>1. SUFFICES ASSUME file # 0 PROVE Closed(WinOf(file)) OBVIOUS
  <2>2. WinOf(file) \in Nat /\ WinOf(file) # 0 BY <2>1, NoToken DEF WinOf, TypeOK, Issued
  <2> QED BY <1>8, <1>9, <2>2 DEF Closed, Newest
<1> QED BY <1>1, <1>4, <1>5, <1>6, <1>7, <1>8, <1>10 DEF Replaced

LEMMA DropsReplaces ==
  ASSUME TypeOK, Past, Locks, Issued, NEW s \in Servers, NEW r \in Requests, Drops(r, s), ~mixed'
  PROVE  Replaced
<1>1. /\ call' = [call EXCEPT ![s] = Free] /\ file' = 0 /\ arm = 0 /\ Touches(s)
  BY DEF Drops, Recheck, Answered
<1>2. \A o \in Servers \ {s} : call[o].step = "free" BY <1>1, AloneInCall
<1>3. \A o \in Servers : call'[o].step \notin {"act", "persist"} BY <1>1, <1>2 DEF TypeOK, Free
<1>4. file # 0 => Closed(WinOf(file))
  BY <1>1, NoToken DEF Closed, WinOf, TypeOK, Issued, Past
<1> QED BY <1>1, <1>3, <1>4 DEF Replaced

LEMMA LoudAge ==
  ASSUME TypeOK, Past, Locks, MemOfWin, Newest, Issued, Holding, ~mixed',
         NEW s \in Servers, Loud(s)
  PROVE  CallsAge /\ (file' = file \/ Replaced)
<1> USE DEF TypeOK, CallsAge, tokens
<1>1. CASE LoadArm(s) BY <1>1 DEF LoadArm
<1>2. CASE Unarmed(s)
  <2>1. Replaced BY <1>2, UnarmedReplaces
  <2> QED BY <2>1 DEF Replaced
<1>3. CASE Keep(s) BY <1>3 DEF Keep, Step
<1>4. CASE Mint(s)
  <2>1. call' = [call EXCEPT ![s].step = "persist"] /\ call[s].step = "act" /\ file' = file
    BY <1>4 DEF Mint, Step
  <2> QED BY <2>1 DEF Calls
<1>5. CASE Persist(s)
  <2>1. Replaced BY <1>5, PersistReplaces
  <2> QED BY <2>1 DEF Replaced
<1>6. CASE Minted(s) \/ Bind(s) \/ Crash(s)
  <2>1. file' = file /\ (call' = call \/ call' = [call EXCEPT ![s] = Free])
    BY <1>6 DEF Minted, Bind, Crash
  <2> QED BY <2>1 DEF Free
<1>7. ASSUME NEW r \in Requests, Drops(r, s) PROVE Replaced BY <1>7, DropsReplaces
<1>8. Replaced => CallsAge BY DEF Replaced
<1> QED BY <1>1, <1>2, <1>3, <1>4, <1>5, <1>6, <1>7, <1>8 DEF Loud

\* Only a server that opens its port shows another token.
LEMMA ShownBy ==
  ASSUME TypeOK, NEW s \in Servers, Loud(s)
  PROVE  \A x \in Servers :
           shown'[x] = shown[x] \/ (x = s /\ at[s] = "bind" /\ shown'[s] = mem[s])
<1>1. UNCHANGED shown \/ Bind(s)
  BY DEF Loud, lives, LoadArm, Unarmed, Keep, Mint, Persist, Minted, Crash, Drops, Recheck
<1>2. CASE Bind(s) BY <1>2 DEF Bind, TypeOK
<1> QED BY <1>1, <1>2

LEMMA BindsAlone ==
  ASSUME TypeOK, Locks, NEW s \in Servers, Loud(s), at[s] = "bind"
  PROVE  UNCHANGED file
<1>1. call[s].step = "free" BY Called
<1>2. \A r \in Requests : ~Drops(r, s) BY <1>1 DEF Drops, Recheck
<1> QED BY <1>1, <1>2 DEF Loud, LoadArm, Unarmed, Keep, Mint, Persist, Minted, Bind, Crash, tokens

LEMMA ShowingStep ==
  ASSUME TypeOK, Past, Locks, MemOfWin, Newest, Issued, Showing, Ready, Holding,
         [Next]_vars, ~mixed'
  PROVE  Showing'
<1> SUFFICES ASSUME NEW x \in Servers, shown'[x] # 0
             PROVE  file' = shown'[x] \/ Settled(WinOf(shown[x]))'
  BY DEF Showing
<1>1. CASE Quiet
  <2>1. CallsAge /\ file' = file /\ shown'[x] = shown[x] BY <1>1, QuietAge DEF Quiet
  <2> QED BY <2>1, ShowingKept
<1>2. ASSUME NEW s \in Servers, Loud(s)
      PROVE  file' = shown'[x] \/ Settled(WinOf(shown[x]))'
  <2>1. CallsAge /\ (file' = file \/ Replaced) BY <1>2, LoudAge
  <2>2. CASE shown'[x] = shown[x] BY <2>1, <2>2, ShowingKept
  <2>3. CASE shown'[x] # shown[x]
    <3>1. x = s /\ at[s] = "bind" /\ shown'[s] = mem[s] BY <1>2, <2>3, ShownBy
    <3>2. mem[s] = file BY <3>1 DEF Ready
    <3>3. UNCHANGED file BY <1>2, <2>3, <3>1, BindsAlone
    <3> QED BY <3>1, <3>2, <3>3
  <2> QED BY <2>2, <2>3
<1> QED BY <1>1, <1>2, Kinds

\* A step of s leaves the other servers, and alone among them the saved token.
LEMMA LoudLeaves ==
  ASSUME TypeOK, Locks, ~mixed', NEW s \in Servers, Loud(s), NEW o \in Servers \ {s}
  PROVE  /\ at'[o] = at[o] /\ call'[o] = call[o] /\ mem'[o] = mem[o]
         /\ file' = file \/ at[o] \in {"off", "down"}
<1>1. UNCHANGED at \/ \E p \in {"bind", "up", "down"} : at' = [at EXCEPT ![s] = p]
  BY DEF Loud, LoadArm, Unarmed, Keep, Mint, Persist, Minted, Bind, Crash, Drops, Recheck,
         Becomes, lives
<1>2. call'[o] = call[o]
  <2>1. CASE LoadArm(s) \/ Unarmed(s) \/ Keep(s) \/ Mint(s) \/ Persist(s)
    BY <2>1 DEF LoadArm, Unarmed, Keep, Mint, Persist, Step, TypeOK
  <2>2. CASE Minted(s) \/ Bind(s) \/ Crash(s) BY <2>2 DEF Minted, Bind, Crash, TypeOK
  <2>3. CASE \E r \in Requests : Drops(r, s) BY <2>3 DEF Drops, Recheck, Answered, TypeOK
  <2> QED BY <2>1, <2>2, <2>3 DEF Loud
<1>3. UNCHANGED mem \/ \E t \in Tokens \cup {0} : mem' = [mem EXCEPT ![s] = t]
  <2>1. mem[s] \in Tokens \cup {0} /\ file \in Tokens \cup {0} BY DEF TypeOK
  <2> QED BY <2>1 DEF Loud, LoadArm, Unarmed, Keep, Mint, Persist, Minted, Bind, Crash, Drops,
                      Recheck, tokens
<1>4. file' = file \/ Touches(s)
  <2>1. mixed' # TRUE BY Zenon
  <2> QED BY <2>1 DEF Loud, LoadArm, Unarmed, Keep, Mint, Persist, Minted, Bind, Crash, Drops,
                      Recheck, tokens
<1> QED BY <1>1, <1>2, <1>3, <1>4, AloneInCall DEF TypeOK

LEMMA ReadyStep ==
  ASSUME TypeOK, Past, Locks, MemOfWin, Newest, Unminted, Issued, Ready, Holding,
         [Next]_vars, ~mixed'
  PROVE  Ready'
<1> SUFFICES ASSUME NEW x \in Servers,
                    at'[x] = "bind"
                      \/ (at'[x] = "start" /\ call'[x].step = "check" /\ call'[x].win # 0)
             PROVE  mem'[x] = file' /\ file' # 0
  BY DEF Ready
<1>1. CASE Quiet
  <2>1. file' = file /\ mem' = mem BY <1>1 DEF Quiet
  <2>2. CASE at[x] \in {"off", "look", "arm"}
    <3>1. call'[x].step # "check"
      <4>1. call[x].step = "free" BY <2>2, Called
      <4> QED BY <1>1, <4>1 DEF Quiet
    <3> QED BY <1>1, <2>2, <3>1 DEF Quiet
  <2>3. CASE at[x] \notin {"off", "look", "arm"}
    <3>1. at'[x] = at[x] BY <1>1, <2>3 DEF Quiet
    <3>2. call'[x] = call[x] BY <1>1, <3>1 DEF Quiet
    <3> QED BY <2>1, <3>1, <3>2 DEF Ready
  <2> QED BY <2>2, <2>3
<1>2. ASSUME NEW s \in Servers, Loud(s), s # x PROVE mem'[x] = file' /\ file' # 0
  <2>1. at'[x] = at[x] /\ call'[x] = call[x] /\ mem'[x] = mem[x]
        /\ (file' = file \/ at[x] \in {"off", "down"})
    BY <1>2, LoudLeaves
  <2> QED BY <2>1 DEF Ready
<1>3. CASE Loud(x)
  <2> USE DEF TypeOK
  <2>0. call[x].step # "free" => at[x] # "bind" BY Called
  <2>1. ~LoadArm(x)
    <3> SUFFICES ASSUME LoadArm(x) PROVE FALSE OBVIOUS
    <3>1. call[x].step = "load" /\ call'[x].step = "act" /\ at' = at BY DEF LoadArm, lives
    <3> QED BY <2>0, <3>1
  <2>2. ~Unarmed(x)
    <3> SUFFICES ASSUME Unarmed(x) PROVE FALSE OBVIOUS
    <3>1. call[x].step = "act" /\ call'[x].win = 0 /\ at' = at
      BY DEF Unarmed, Step, lives, Calls
    <3> QED BY <2>0, <3>1
  <2>3. CASE Keep(x)
    <3>1. /\ call[x].step = "act" /\ call[x].win # 0 /\ at' = at /\ file' = file
          /\ WinOf(mem[x]) = call[x].win \/ WinOf(file) = call[x].win
          /\ mem' = [mem EXCEPT ![x] = IF WinOf(@) = call[x].win THEN @ ELSE file]
      BY <2>3 DEF Keep, lives
    <3>2. mem[x] = 0 BY <2>0, <3>1 DEF Unminted
    <3>3. WinOf(mem[x]) = 0 BY <3>2 DEF WinOf
    <3>4. WinOf(file) # 0 /\ mem'[x] = file BY <3>1, <3>3
    <3> QED BY <3>1, <3>4 DEF WinOf
  <2>4. ~Mint(x)
    <3> SUFFICES ASSUME Mint(x) PROVE FALSE OBVIOUS
    <3>1. call[x].step = "act" /\ call'[x].step = "persist" /\ at' = at BY DEF Mint, Step, lives
    <3> QED BY <2>0, <3>1
  <2>5. CASE Persist(x)
    <3>1. file' = mem[x] /\ mem[x] # 0 BY <2>5, PersistReplaces
    <3> QED BY <2>5, <3>1 DEF Persist
  <2>6. CASE Minted(x)
    <3>1. /\ at[x] = "start" /\ call[x].step = "check" /\ UNCHANGED <<mem, file>>
          /\ at'[x] = IF call[x].win = 0 THEN "down" ELSE "bind"
      BY <2>6 DEF Minted, Becomes, tokens
    <3> QED BY <3>1 DEF Ready
  <2>7. ~Bind(x) /\ ~Crash(x) BY DEF Bind, Crash, Becomes
  <2>8. ASSUME NEW r \in Requests, Drops(r, x) PROVE FALSE
    <3>1. at[x] = "up" /\ at' = at BY <2>8 DEF Drops, Recheck, Locks, lives
    <3> QED BY <3>1
  <2> QED BY <1>3, <2>1, <2>2, <2>3, <2>4, <2>5, <2>6, <2>7, <2>8 DEF Loud
<1> QED BY <1>1, <1>2, <1>3, Kinds

LEMMA HoldingStep ==
  ASSUME TypeOK, Past, Locks, MemOfWin, Newest, Issued, Holding, [Next]_vars, ~mixed'
  PROVE  Holding'
<1> USE DEF TypeOK
<1> SUFFICES ASSUME NEW x \in Servers, call'[x].step \in {"act", "persist"}
             PROVE  /\ call'[x].win = 0 => file' = 0 \/ Closed(WinOf(file))'
                    /\ call'[x].win # 0 =>
                         /\ WinOf(file)' <= call'[x].win
                         /\ call'[x].step = "persist" => WinOf(file)' # call'[x].win
  BY DEF Holding
<1>0. WinOf(file) \in Nat /\ (file # 0 => WinOf(file) # 0) /\ WinOf(file) <= wins
  BY NoToken DEF WinOf, Issued, Past
<1>1. ASSUME file' = file PROVE WinOf(file)' = WinOf(file)
  BY <1>1, MintedStays, NoToken DEF Issued, WinOf
<1>2. ASSUME file' = file, Closed(WinOf(file)) PROVE Closed(WinOf(file))'
  BY <1>0, <1>1, <1>2, NextArm, CarrierAssumption DEF Closed
<1>3. ASSUME file' = file, call'[x] = call[x]
      PROVE  /\ call'[x].win = 0 => file' = 0 \/ Closed(WinOf(file))'
             /\ call'[x].win # 0 =>
                  /\ WinOf(file)' <= call'[x].win
                  /\ call'[x].step = "persist" => WinOf(file)' # call'[x].win
  BY <1>1, <1>2, <1>3 DEF Holding
<1>4. CASE Quiet
  <2>1. file' = file /\ call'[x] = call[x] BY <1>4 DEF Quiet
  <2> QED BY <1>3, <2>1
<1>5. ASSUME NEW s \in Servers, Loud(s), s # x
      PROVE  file' = file /\ call'[x] = call[x]
  <2>1. call'[x] = call[x] /\ (file' = file \/ at[x] \in {"off", "down"}) BY <1>5, LoudLeaves
  <2>2. at[x] \in {"start", "up"} BY <2>1, Called
  <2> QED BY <2>1, <2>2
<1>6. CASE Loud(x)
  <2>1. CASE LoadArm(x)
    <3>1. call'[x].win = arm /\ call'[x].step = "act" /\ UNCHANGED <<file, arm>>
      BY <2>1 DEF LoadArm, tokens
    <3>2. CASE arm = 0
      <4>1. file = 0 \/ Closed(WinOf(file)) BY <1>0, <3>2 DEF Closed
      <4> QED BY <1>2, <3>1, <3>2, <4>1
    <3>3. CASE arm # 0
      <4>1. WinOf(file) <= arm BY <1>0, <3>3 DEF Newest
      <4> QED BY <1>1, <3>1, <3>3, <4>1
    <3> QED BY <3>2, <3>3
  <2>2. CASE Mint(x)
    <3>1. /\ call[x].step = "act" /\ call[x].win # 0 /\ WinOf(file) # call[x].win /\ file' = file
          /\ call' = [call EXCEPT ![x].step = "persist"]
      BY <2>2 DEF Mint, Step
    <3>2. call'[x].win = call[x].win BY <3>1 DEF Calls
    <3>3. WinOf(file) <= call[x].win BY <3>1 DEF Holding
    <3> QED BY <1>1, <3>1, <3>2, <3>3
  <2>3. ASSUME Unarmed(x) \/ Keep(x) \/ Persist(x) PROVE FALSE
    <3>1. call' = [call EXCEPT ![x].step = "check"] BY <2>3 DEF Unarmed, Keep, Persist, Step
    <3>2. call'[x].step = "check" BY <3>1
    <3> QED BY <3>2
  <2>4. ~(Minted(x) \/ Crash(x)) BY DEF Minted, Crash, Free
  <2>5. ~Bind(x)
    <3> SUFFICES ASSUME Bind(x) PROVE FALSE OBVIOUS
    <3>1. at[x] = "bind" /\ call' = call BY DEF Bind
    <3> QED BY <3>1, Called
  <2>6. \A r \in Requests : ~Drops(r, x) BY DEF Drops, Recheck, Answered, Free
  <2> QED BY <1>6, <2>1, <2>2, <2>3, <2>4, <2>5, <2>6 DEF Loud
<1> QED BY <1>3, <1>4, <1>5, <1>6, Kinds

LEMMA RestartStep ==
  ASSUME TypeOK, Locks, Issued, Showing, Ready, RestartKeepsQr, ~mixed, [Next]_vars
  PROVE  RestartKeepsQr'
<1> SUFFICES ASSUME NEW x \in Servers, NEW o \in Servers, shown'[x] # 0, shown'[o] # 0,
                    WinOf(shown[x])' = WinOf(shown[o])'
             PROVE  shown'[x] = shown'[o]
  BY DEF RestartKeepsQr
<1> USE DEF TypeOK
<1>1. ASSUME NEW z \in Servers, shown'[z] = shown[z], shown[z] # 0
      PROVE  WinOf(shown[z])' = WinOf(shown[z])
  BY <1>1, MintedStays, NoToken DEF Issued, WinOf
<1>2. CASE shown'[x] = shown[x] /\ shown'[o] = shown[o]
  BY <1>1, <1>2 DEF RestartKeepsQr
<1>3. ASSUME NEW y \in Servers, NEW z \in Servers, shown'[y] # shown[y], shown'[z] = shown[z],
             shown'[y] # 0, shown'[z] # 0, WinOf(shown[y])' = WinOf(shown[z])'
      PROVE  shown'[y] = shown'[z]
  <2>1. PICK s \in Servers : Loud(s) BY <1>3, Kinds DEF Quiet
  <2>2. y = s /\ at[s] = "bind" /\ shown'[s] = mem[s] BY <1>3, <2>1, ShownBy
  <2>3. shown'[y] = file BY <2>2 DEF Ready
  <2>4. WinOf(shown[y])' = WinOf(file)
    BY <1>3, <2>3, MintedStays, NoToken DEF Issued, WinOf
  <2>5. WinOf(shown[z])' = WinOf(shown[z]) BY <1>1, <1>3
  <2> QED BY <1>3, <2>3, <2>4, <2>5 DEF Showing, Settled
<1>4. CASE shown'[x] # shown[x] /\ shown'[o] # shown[o]
  <2>1. PICK s \in Servers : Loud(s) BY <1>4, Kinds DEF Quiet
  <2> QED BY <1>4, <2>1, ShownBy
<1> QED BY <1>2, <1>3, <1>4

LEMMA RestartInvInit == Init => RestartInv
<1> SUFFICES ASSUME Init PROVE RestartInv OBVIOUS
<1>1. Newest /\ Unminted BY DEF Init, Newest, Unminted
<1>2. Issued BY DEF Init, Issued, Free
<1>3. Showing /\ Ready BY DEF Init, Showing, Ready
<1>4. Holding BY DEF Init, Holding, Free
<1>5. RestartKeepsQr BY DEF Init, RestartKeepsQr
<1> QED BY <1>1, <1>2, <1>3, <1>4, <1>5 DEF RestartInv, Undisturbed

LEMMA RestartInvStep == CarrierInv /\ RestartInv /\ [Next]_vars => RestartInv'
<1> SUFFICES ASSUME CarrierInv, RestartInv, [Next]_vars PROVE RestartInv' OBVIOUS
<1>0. TypeOK /\ Past /\ Locks /\ MemOfWin /\ Newest /\ Unminted /\ Issued
  BY DEF CarrierInv, RestartInv
<1>1. Newest' BY <1>0, NewestStep
<1>2. Unminted' BY <1>0, UnmintedStep
<1>3. Issued' BY <1>0, IssuedStep
<1>4. ASSUME ~mixed' PROVE Undisturbed'
  <2>1. ~mixed BY <1>0, <1>4, UnmixedBefore
  <2>2. Showing /\ Ready /\ Holding /\ RestartKeepsQr BY <2>1 DEF RestartInv, Undisturbed
  <2>3. Showing' BY <1>0, <1>4, <2>2, ShowingStep
  <2>4. Ready' BY <1>0, <1>4, <2>2, ReadyStep
  <2>5. Holding' BY <1>0, <1>4, <2>2, HoldingStep
  <2>6. RestartKeepsQr' BY <1>0, <2>1, <2>2, RestartStep
  <2> QED BY <2>3, <2>4, <2>5, <2>6 DEF Undisturbed
<1> QED BY <1>1, <1>2, <1>3, <1>4 DEF RestartInv

\* A carrier that is started again in a window shows the token whose QR is on
\* the screens already, unless the token could not be saved or another server
\* ran next to one that saved or removed it (start_carrier,
\* ensure_bootstrap_locked).
THEOREM RestartKeepsQrHolds == Spec => []RestartKeepsQr
<1>1. Spec => []RestartInv
  BY RestartInvInit, RestartInvStep, CarrierInvariant, PTL DEF Spec
<1>2. RestartInv => RestartKeepsQr BY DEF RestartInv, Undisturbed, RestartKeepsQr
<1> QED BY <1>1, <1>2, PTL
=============================================================================
