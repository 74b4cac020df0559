---------------------------- MODULE JoinContract ----------------------------
(***************************************************************************)
(* What the join gate promises, with every file, task and frame left out:  *)
(* an accept by the operator is a ticket for the join sessions open when   *)
(* it is given, the host trusts a device only on such a ticket, and the    *)
(* joining device stores the host only after the host stored it.           *)
(***************************************************************************)
CONSTANTS Joiners,   \* devices that ask to join
          Sessions,  \* join sessions, one per connection
          Who        \* the device at the other end of each session

VARIABLES ticket,    \* sessions an operator's accept covers
          trusted,   \* devices the host trusts
          linked     \* devices that store the host as trusted

contractVars == <<ticket, trusted, linked>>

ContractInit == ticket = {} /\ trusted = {} /\ linked = {}

Approve(S) ==
  /\ \E j \in Joiners : \A s \in S : Who[s] = j
  /\ ticket' = ticket \cup S
  /\ UNCHANGED <<trusted, linked>>

Trust(s) ==
  /\ s \in ticket
  /\ trusted' = trusted \cup {Who[s]}
  /\ UNCHANGED <<ticket, linked>>

Link(s) ==
  /\ Who[s] \in trusted
  /\ linked' = linked \cup {Who[s]}
  /\ UNCHANGED <<ticket, trusted>>

ContractNext ==
  \/ \E S \in SUBSET Sessions : Approve(S)
  \/ \E s \in Sessions : Trust(s) \/ Link(s)

ContractSpec == ContractInit /\ [][ContractNext]_contractVars
=============================================================================
