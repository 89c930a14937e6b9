------------------------- MODULE TimelockedUpgrade -------------------------
(***************************************************************************)
(* What the protocol promises of an upgrade (registry_contract.md §4.14 and *)
(* §6.3): a replacement is proposed in public, stands unchanged for Delay,  *)
(* and takes effect only while the board that proposed it is in office; the *)
(* board may withdraw it at any time.                                       *)
(***************************************************************************)
EXTENDS Naturals

CONSTANTS Address, Delay, None

VARIABLES
    current,    \* the address in force
    proposed,   \* the address proposed, or None
    since,      \* when it was proposed
    proposer,   \* the board that proposed it
    board,      \* the board in office
    clock

vars == <<current, proposed, since, proposer, board, clock>>

Init ==
    /\ current \in Address \cup {None}
    /\ proposed = None
    /\ since = 0
    /\ proposer = 0
    /\ board = 0
    /\ clock = 1

Propose(a) ==
    /\ proposed = None
    /\ a # current
    /\ proposed' = a /\ since' = clock /\ proposer' = board
    /\ UNCHANGED <<current, board, clock>>

NoProposal == proposed' = None /\ since' = 0 /\ proposer' = 0

Confirm ==
    /\ proposed # None
    /\ clock >= since + Delay
    /\ board = proposer
    /\ current' = proposed
    /\ NoProposal
    /\ UNCHANGED <<board, clock>>

Withdraw ==
    /\ proposed # None
    /\ NoProposal
    /\ UNCHANGED <<current, board, clock>>

\* The first address is put in place without a vote, once.
Install(a) ==
    /\ current = None
    /\ current' = a
    /\ UNCHANGED <<proposed, since, proposer, board, clock>>

NewBoard ==
    /\ board' = board + 1
    /\ UNCHANGED <<current, proposed, since, proposer, clock>>

Tick ==
    /\ clock' = clock + 1
    /\ UNCHANGED <<current, proposed, since, proposer, board>>

Next ==
    \/ \E a \in Address : Propose(a) \/ Install(a)
    \/ Confirm \/ Withdraw \/ NewBoard \/ Tick

Spec == Init /\ [][Next]_vars
=============================================================================
