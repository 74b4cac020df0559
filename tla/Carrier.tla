------------------------------- MODULE Carrier -------------------------------
(***************************************************************************)
(* The carrier server, through which a phone approves joins: bootstrap     *)
(* tokens, which live as long as one arm window, and the URI a phone       *)
(* posts.  Every call of start_carrier is a server of its own: the command *)
(* and the TUI call it, more than once and in several processes, and one   *)
(* of them gets the port.  They share arm.json and pair-bootstrap.json and *)
(* carrier-pending.txt; each holds a lock over its copy of the token.      *)
(***************************************************************************)
EXTENDS Naturals, FiniteSets

CONSTANTS Servers,     \* calls of start_carrier
          Requests,    \* requests of phones
          MaxWindows,  \* bound: arm windows of a behaviour
          Faults       \* "io": the token is not saved, "crash": a server's process ends

Others == {"none", "start", "status"}   \* besides requests, who may hold a lock

ASSUME CarrierAssumption ==
  /\ MaxWindows \in Nat
  /\ Faults \subseteq {"io", "crash"}
  /\ Requests \cap Others = {}

VARIABLES arm,    \* the open arm window, 0 if none
          wins,   \* windows so far
          minted, \* tokens so far, each with its window
          file,   \* token saved in pair-bootstrap.json, 0 if none
          at,     \* point of a server's life
          mem,    \* a server's token, 0 if none
          call,   \* who holds a server's lock, and how far it is
          shown,  \* the token in the QR of a server, 0 if none
          req,    \* point of a request
          bearer, \* the token it presents
          seen,   \* history: windows open at some moment of a request
          mixed,  \* history: a token was saved or removed next to another server
          post    \* carrier-pending.txt and the join that polls it

tokens == <<minted, file, mem>>
lives  == <<at, shown>>
phones == <<req, bearer>>
vars == <<arm, wins, tokens, lives, call, phones, seen, mixed, post>>

Windows == 1..MaxWindows
Tokens == 1..Cardinality(Servers) * MaxWindows   \* each mints once in a window
WinOf(t) == IF t = 0 THEN 0 ELSE minted[t]

Free == [by |-> "none", step |-> "free", win |-> 0]
Steps == {"free", "load", "act", "persist", "check", "recheck"}
Calls == [by : Others \cup Requests, step : Steps, win : 0..MaxWindows]
ReqPoints == {"new", "auth", "served", "refused", "peer", "arming", "post", "writing", "cut", "done"}
Over == {"new", "served", "refused", "done"}

TypeOK ==
  /\ arm \in 0..MaxWindows /\ wins \in 0..MaxWindows
  /\ minted \in [Tokens -> 0..MaxWindows]
  /\ file \in Tokens \cup {0}
  /\ at \in [Servers -> {"off", "look", "arm", "start", "bind", "up", "down"}]
  /\ mem \in [Servers -> Tokens \cup {0}]
  /\ call \in [Servers -> Calls]
  /\ shown \in [Servers -> Tokens \cup {0}]
  /\ req \in [Requests -> ReqPoints]
  /\ bearer \in [Requests -> Tokens \cup {0}]
  /\ seen \in [Requests -> SUBSET (0..MaxWindows)]
  /\ mixed \in BOOLEAN
  /\ post \in [file : {"none", "empty", "uri"}, poll : {"idle", "sees", "got", "void"}]

Init ==
  /\ arm = 0 /\ wins = 0
  /\ minted = [t \in Tokens |-> 0] /\ file = 0
  /\ at = [s \in Servers |-> "off"] /\ mem = [s \in Servers |-> 0]
  /\ call = [s \in Servers |-> Free]
  /\ shown = [s \in Servers |-> 0]
  /\ req = [r \in Requests |-> "new"] /\ bearer = [r \in Requests |-> 0]
  /\ seen = [r \in Requests |-> {}]
  /\ mixed = FALSE
  /\ post = [file |-> "none", poll |-> "idle"]

-----------------------------------------------------------------------------
(* The arm window.                                                         *)

SetArm(w) ==
  /\ arm' = w
  /\ seen' = [r \in Requests |-> IF req[r] \in Over THEN seen[r] ELSE seen[r] \cup {w}]

\* ArmState::arm: a new deadline is a new window, whatever was there.
NewWindow ==
  /\ wins < MaxWindows
  /\ wins' = wins + 1
  /\ SetArm(wins + 1)

OperatorArms ==
  /\ NewWindow
  /\ UNCHANGED <<tokens, lives, call, phones, mixed, post>>

\* Disarmed, or the deadline passes.
WindowEnds ==
  /\ arm # 0 /\ SetArm(0)
  /\ UNCHANGED <<wins, tokens, lives, call, phones, mixed, post>>

-----------------------------------------------------------------------------
(* ensure_bootstrap_locked, on behalf of whoever holds the lock of s.      *)

Step(s, p) == call' = [call EXCEPT ![s].step = p]
Enters(s, by) ==
  /\ call[s] = Free
  /\ call' = [call EXCEPT ![s] = [by |-> by, step |-> "load", win |-> 0]]

\* For the history: another server is between its start and its end.
Crowded(s) == \E o \in Servers \ {s} : at[o] \notin {"off", "down"}
Touches(s) == mixed' = (mixed \/ Crowded(s))

LoadArm(s) ==
  /\ call[s].step = "load"
  /\ call' = [call EXCEPT ![s].step = "act", ![s].win = arm]
  /\ UNCHANGED <<arm, wins, tokens, lives, phones, seen, mixed, post>>

Unarmed(s) ==
  /\ call[s].step = "act" /\ call[s].win = 0
  /\ mem' = [mem EXCEPT ![s] = 0] /\ file' = 0 /\ UNCHANGED minted
  /\ Step(s, "check") /\ Touches(s)
  /\ UNCHANGED <<arm, wins, lives, phones, seen, post>>

\* The bug of keeping a token because the host is armed, in whatever window.
Keep_AnyWindow(s) ==
  /\ call[s].step = "act" /\ call[s].win # 0
  /\ mem[s] # 0 \/ (file # 0 /\ WinOf(file) = call[s].win)
  /\ mem' = [mem EXCEPT ![s] = IF @ # 0 THEN @ ELSE file]
  /\ Step(s, "check")
  /\ UNCHANGED <<arm, wins, minted, file, lives, phones, seen, mixed, post>>

\* The token of this window, in memory or saved.
Keep(s) ==
  /\ call[s].step = "act" /\ call[s].win # 0
  /\ WinOf(mem[s]) = call[s].win \/ WinOf(file) = call[s].win
  /\ mem' = [mem EXCEPT ![s] = IF WinOf(@) = call[s].win THEN @ ELSE file]
  /\ Step(s, "check")
  /\ UNCHANGED <<arm, wins, minted, file, lives, phones, seen, mixed, post>>

\* The bug of a token for the window after this one.
Mint_NextWindow(s) ==
  /\ call[s].step = "act" /\ call[s].win # 0
  /\ WinOf(mem[s]) # call[s].win /\ WinOf(file) # call[s].win
  /\ \E t \in Tokens :
       /\ minted[t] = 0 /\ \A u \in Tokens : u < t => minted[u] # 0
       /\ minted' = [minted EXCEPT ![t] = call[s].win + 1]
       /\ mem' = [mem EXCEPT ![s] = t]
  /\ Step(s, "persist")
  /\ UNCHANGED <<arm, wins, file, lives, phones, seen, mixed, post>>

\* The bug of a new token at every look.
Mint_Always(s) ==
  /\ call[s].step = "act" /\ call[s].win # 0
  /\ \E t \in Tokens :
       /\ minted[t] = 0 /\ \A u \in Tokens : u < t => minted[u] # 0
       /\ minted' = [minted EXCEPT ![t] = call[s].win]
       /\ mem' = [mem EXCEPT ![s] = t]
  /\ Step(s, "persist")
  /\ UNCHANGED <<arm, wins, file, lives, phones, seen, mixed, post>>

Mint(s) ==
  /\ call[s].step = "act" /\ call[s].win # 0
  /\ WinOf(mem[s]) # call[s].win /\ WinOf(file) # call[s].win
  /\ \E t \in Tokens :
       /\ minted[t] = 0 /\ \A u \in Tokens : u < t => minted[u] # 0
       /\ minted' = [minted EXCEPT ![t] = call[s].win]
       /\ mem' = [mem EXCEPT ![s] = t]
  /\ Step(s, "persist")
  /\ UNCHANGED <<arm, wins, file, lives, phones, seen, mixed, post>>

\* The bug of saving the token only in memory.
Persist_Never(s) ==
  /\ call[s].step = "persist"
  /\ UNCHANGED file
  /\ Step(s, "check") /\ Touches(s)
  /\ UNCHANGED <<arm, wins, minted, mem, lives, phones, seen, post>>

\* An error in saving it is ignored.
Persist(s) ==
  /\ call[s].step = "persist"
  /\ \/ file' = mem[s] /\ Touches(s)
     \/ "io" \in Faults /\ UNCHANGED file /\ mixed' = TRUE
  /\ Step(s, "check")
  /\ UNCHANGED <<arm, wins, minted, mem, lives, phones, seen, post>>

-----------------------------------------------------------------------------
(* A server starts, answers a status request, or ends.                     *)

Becomes(s, p) == at' = [at EXCEPT ![s] = p]

\* A file removed under a writer takes what is written with it.
DropsPost(poll) ==
  /\ post' = [file |-> "none", poll |-> poll]
  /\ req' = [r \in Requests |-> IF req[r] = "writing" THEN "cut" ELSE req[r]]

\* start_carrier_ui arms whatever there is, then calls start_carrier, as the command does.
StartUi(s) ==
  /\ at[s] = "off" /\ NewWindow
  /\ Becomes(s, "look") /\ DropsPost(post.poll)
  /\ UNCHANGED <<tokens, shown, call, bearer, mixed>>

StartCommand(s) ==
  /\ at[s] = "off"
  /\ Becomes(s, "look") /\ DropsPost(post.poll)
  /\ UNCHANGED <<arm, wins, tokens, shown, call, bearer, seen, mixed>>

\* start_carrier looks by itself: the window may have ended by now.
StartLooks(s) ==
  /\ at[s] = "look"
  /\ IF arm # 0 THEN Becomes(s, "start") /\ Enters(s, "start")
                ELSE Becomes(s, "arm") /\ UNCHANGED call
  /\ UNCHANGED <<arm, wins, tokens, shown, phones, seen, mixed, post>>

StartArms(s) ==
  /\ at[s] = "arm" /\ NewWindow
  /\ Becomes(s, "start") /\ Enters(s, "start")
  /\ UNCHANGED <<tokens, shown, phones, mixed, post>>

\* Disarmed meanwhile, the start fails.
Minted(s) ==
  /\ at[s] = "start" /\ call[s].by = "start" /\ call[s].step = "check"
  /\ Becomes(s, IF call[s].win = 0 THEN "down" ELSE "bind")
  /\ call' = [call EXCEPT ![s] = Free]
  /\ UNCHANGED <<arm, wins, tokens, shown, phones, seen, mixed, post>>

Bind(s) ==
  /\ at[s] = "bind"
  /\ IF \E o \in Servers : at[o] = "up"
     THEN Becomes(s, "down") /\ UNCHANGED shown
     ELSE Becomes(s, "up") /\ shown' = [shown EXCEPT ![s] = mem[s]]
  /\ UNCHANGED <<arm, wins, tokens, call, phones, seen, mixed, post>>

Status(s) ==
  /\ at[s] = "up" /\ Enters(s, "status")
  /\ UNCHANGED <<arm, wins, tokens, lives, phones, seen, mixed, post>>

StatusDone(s) ==
  /\ call[s].by = "status" /\ call[s].step = "check"
  /\ call' = [call EXCEPT ![s] = Free]
  /\ UNCHANGED <<arm, wins, tokens, lives, phones, seen, mixed, post>>

\* Its requests and what it had in memory are gone; what it saved stays.
Crash(s) ==
  /\ "crash" \in Faults /\ at[s] \notin {"off", "down"}
  /\ Becomes(s, "down")
  /\ call' = [call EXCEPT ![s] = Free]
  /\ mem' = [mem EXCEPT ![s] = 0]
  /\ req' = [r \in Requests |-> IF at[s] = "up" /\ req[r] \notin Over THEN "refused" ELSE req[r]]
  /\ UNCHANGED <<arm, wins, minted, file, shown, bearer, seen, mixed, post>>

-----------------------------------------------------------------------------
(* A phone's pending or decide request (require_bootstrap).                *)

Arrives(r) ==
  /\ req[r] = "new" /\ \E s \in Servers : at[s] = "up"
  /\ seen' = [seen EXCEPT ![r] = {arm}]

\* It presents a token some screen has shown, or a wrong one.
AuthArrives(r) ==
  /\ Arrives(r)
  /\ \E t \in {0} \cup {shown[s] : s \in Servers} : bearer' = [bearer EXCEPT ![r] = t]
  /\ req' = [req EXCEPT ![r] = "auth"]
  /\ UNCHANGED <<arm, wins, tokens, lives, call, mixed, post>>

Auth(r, s) ==
  /\ req[r] = "auth" /\ at[s] = "up" /\ Enters(s, r)
  /\ UNCHANGED <<arm, wins, tokens, lives, phones, seen, mixed, post>>

Answered(r, s, p) ==
  /\ req' = [req EXCEPT ![r] = p]
  /\ call' = [call EXCEPT ![s] = Free]

Match(r, s) ==
  /\ call[s].by = r /\ call[s].step = "check"
  /\ IF call[s].win # 0 /\ bearer[r] # 0 /\ bearer[r] = mem[s]
     THEN Step(s, "recheck") /\ UNCHANGED req
     ELSE Answered(r, s, "refused")
  /\ UNCHANGED <<arm, wins, tokens, lives, bearer, seen, mixed, post>>

\* A second look at arm.json, which may by now be of another window.
Recheck(r, s) ==
  /\ call[s].by = r /\ call[s].step = "recheck"
  /\ IF arm # 0
     THEN Answered(r, s, "served") /\ UNCHANGED <<mem, file, mixed>>
     ELSE /\ Answered(r, s, "refused")
          /\ mem' = [mem EXCEPT ![s] = 0] /\ file' = 0 /\ Touches(s)
  /\ UNCHANGED <<arm, wins, minted, lives, bearer, seen, post>>

-----------------------------------------------------------------------------
(* The page's post of a URI, and the join that polls for it.               *)

Moves(r, p) == req' = [req EXCEPT ![r] = p]

PeerArrives(r) ==
  /\ Arrives(r) /\ Moves(r, "peer")
  /\ UNCHANGED <<arm, wins, tokens, lives, call, bearer, mixed, post>>

PeerLooks(r) ==
  /\ req[r] = "peer"
  /\ Moves(r, IF arm = 0 THEN "arming" ELSE "post")
  /\ UNCHANGED <<arm, wins, tokens, lives, call, bearer, seen, mixed, post>>

PeerArms(r) ==
  /\ req[r] = "arming" /\ NewWindow /\ Moves(r, "post")
  /\ UNCHANGED <<tokens, lives, call, bearer, mixed, post>>

\* fs::write makes an empty file, then fills it.
PeerCreates(r) ==
  /\ req[r] = "post" /\ Moves(r, "writing")
  /\ post' = [post EXCEPT !.file = "empty"]
  /\ UNCHANGED <<arm, wins, tokens, lives, call, bearer, seen, mixed>>

PeerWrites(r) ==
  /\ req[r] \in {"writing", "cut"} /\ Moves(r, "done")
  /\ post' = IF req[r] = "writing" THEN [post EXCEPT !.file = "uri"] ELSE post
  /\ UNCHANGED <<arm, wins, tokens, lives, call, bearer, seen, mixed>>

PollReads ==
  /\ post.poll = "idle" /\ post.file # "none" /\ \E s \in Servers : at[s] = "up"
  /\ post' = [post EXCEPT !.poll = IF post.file = "uri" THEN "got" ELSE "void"]
  /\ UNCHANGED <<arm, wins, tokens, lives, call, phones, seen, mixed>>

\* The file is removed, and a URI that was read is dialled.
PollRemoves ==
  /\ post.poll \in {"got", "void"} /\ DropsPost("idle")
  /\ UNCHANGED <<arm, wins, tokens, lives, call, bearer, seen, mixed>>

-----------------------------------------------------------------------------
Ensure(s) == LoadArm(s) \/ Unarmed(s) \/ Keep(s) \/ Mint(s) \/ Persist(s)
Server(s) == \/ StartUi(s) \/ StartCommand(s) \/ StartLooks(s) \/ StartArms(s) \/ Minted(s)
             \/ Bind(s) \/ Status(s) \/ StatusDone(s) \/ Crash(s)
Phone(r) == \/ AuthArrives(r) \/ PeerArrives(r) \/ PeerLooks(r) \/ PeerArms(r)
            \/ PeerCreates(r) \/ PeerWrites(r)
            \/ \E s \in Servers : Auth(r, s) \/ Match(r, s) \/ Recheck(r, s)

Next == \/ OperatorArms \/ WindowEnds \/ PollReads \/ PollRemoves
        \/ \E s \in Servers : Ensure(s) \/ Server(s)
        \/ \E r \in Requests : Phone(r)

Spec == Init /\ [][Next]_vars

-----------------------------------------------------------------------------
(* Properties.                                                             *)

\* A request is served only with a token of a window that was open while the
\* request was under way, although the window is looked at twice and may end, or
\* make room for another, between the looks (require_bootstrap).
ServedInWindow ==
  \A r \in Requests : req[r] = "served" => WinOf(bearer[r]) \in seen[r] \ {0}

\* A QR holds as long as its window: a server that is up never gives up the
\* token it shows while the window it is for is open, whatever other servers do
\* to the saved one (ensure_bootstrap_locked).
ShownAccepted ==
  \A s \in Servers :
    at[s] = "up" /\ arm # 0 /\ WinOf(shown[s]) = arm => mem[s] = shown[s]

\* A server that is started again in a window shows the token shown before,
\* unless saving it failed or servers ran side by side (start_carrier).
RestartKeepsQr ==
  \A s, o \in Servers :
    ~mixed /\ shown[s] # 0 /\ shown[o] # 0 /\ WinOf(shown[s]) = WinOf(shown[o])
      => shown[s] = shown[o]
=============================================================================
