---------------------------- MODULE PairContract ----------------------------
(***************************************************************************)
(* What linking by a code promises, with the mailbox and its messages left *)
(* out: the host agrees on a key with at most one guest command, only that *)
(* guest can confirm the host, each side trusts the other only if the keys *)
(* agree, and neither does so before the guest has confirmed.              *)
(***************************************************************************)
CONSTANTS Guests,     \* guest commands that use the code
          Device,     \* the device each of them runs on
          None

VARIABLES partner,    \* the guest the host shares its key with
          confirmed,  \* guests that have checked the host's identity
          hostTrusts, \* devices the host stored
          guestTrusts \* devices that stored the host

contractVars == <<partner, confirmed, hostTrusts, guestTrusts>>

ContractInit ==
  partner = None /\ confirmed = {} /\ hostTrusts = {} /\ guestTrusts = {}

Agree(g) ==
  /\ partner = None
  /\ partner' = g
  /\ UNCHANGED <<confirmed, hostTrusts, guestTrusts>>

Confirm(g) ==
  /\ partner = g
  /\ confirmed' = confirmed \cup {g}
  /\ UNCHANGED <<partner, hostTrusts, guestTrusts>>

HostTrusts(g) ==
  /\ partner = g /\ g \in confirmed
  /\ hostTrusts' = hostTrusts \cup {Device[g]}
  /\ UNCHANGED <<partner, confirmed, guestTrusts>>

GuestTrusts(g) ==
  /\ partner = g /\ g \in confirmed
  /\ guestTrusts' = guestTrusts \cup {Device[g]}
  /\ UNCHANGED <<partner, confirmed, hostTrusts>>

ContractNext ==
  \E g \in Guests : Agree(g) \/ Confirm(g) \/ HostTrusts(g) \/ GuestTrusts(g)

ContractSpec == ContractInit /\ [][ContractNext]_contractVars
=============================================================================
