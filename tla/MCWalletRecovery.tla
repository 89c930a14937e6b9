-------------------------- MODULE MCWalletRecovery --------------------------
(* WalletRecovery and OfferAcceptance on small instances.  They share nothing     *)
(* here: each is explored while the other stays put.                           *)
EXTENDS WalletRecovery, OfferAcceptance, TLC

CONSTANTS f1, f2, b1

MCOneBackup == [f \in Recovery |-> b1]

Offering == calls # [i \in Acceptance |-> NoCall] \/ events > 0
             \/ \E o \in Targeted : issued[o] # "no"

\* The second recovery starts when the first is over, as when it is tried again.
Again == flow'[f2] # "start" => flow[f1] = "over"

WalletInit == Init /\ OffersInit
WalletNext ==
    \/ ~Offering /\ keyring = None /\ Next /\ Again /\ UNCHANGED offerVars
    \/ Init /\ OffersNext /\ UNCHANGED vars
WalletSpec == WalletInit /\ [][WalletNext]_<<vars, offerVars>>
=============================================================================
