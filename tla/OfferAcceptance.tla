-------------------------- MODULE OfferAcceptance --------------------------
(***************************************************************************)
(* A wallet accepts offers (wallet-sdk/src/offers, app-sdk/src/offers): it      *)
(* reviews the offer and its press, puts a fresh key into the encrypted keyring *)
(* of the device, countersigns with it, and has the card registered by the      *)
(* press, itself for an open offer and through the issuer for a targeted one.    *)
(* Every await is a step; the issuer's chain and the press's authorization may   *)
(* change at any moment, the app may end a call, and the wallet may be recovered *)
(* on this device or another while a call is running.                          *)
(*                                                                         *)
(* A call generates one key, so it names it.  Requests reach the press.         *)
(***************************************************************************)
EXTENDS Integers, FiniteSets

CONSTANTS
    Acceptance,     \* calls of the wallet, and the key each one generates
    Open, Targeted, \* offers of the issuer, by kind
    OfferLimit,          \* max_acceptances of the open offers
    MaxEvents,      \* bound: what the environment does
    None

ASSUME AcceptanceAssumption ==
    /\ OfferLimit \in Nat /\ MaxEvents \in Nat
    /\ Open \cap Targeted = {} /\ None \notin Open \cup Targeted

Offer == Open \cup Targeted
Party == {"issuer", "press"}

VARIABLES
    keyring,    \* the blob in the device's storage: its entries, and what opens it
    unlocked,   \* the decryption key of the wallet, as a count of rotations
    remote,     \* the entries of the keyring the wallet service holds
    calls,      \* per acceptance: how far the call of the wallet is
    handed,     \* countersigned targeted offers on their way back to the issuer
    requests,   \* per acceptance: how far the press is with the card
    issued,     \* targeted offers kept by the press: open or finalized
    uses,       \* per open offer: cards registered under it
    cards,      \* keys that have a registered card
    good,       \* parties in order now: chain trusted, press authorized
    expired,
    overwritten,    \* history: keys of calls whose keyring entry was replaced
    events

acceptVars == <<keyring, unlocked, remote, calls, handed>>
claimVars == <<requests, issued, uses, cards>>
offerVars == <<acceptVars, claimVars, good, expired, overwritten, events>>

Keyring == [opensWith : 0..MaxEvents, entries : SUBSET Acceptance]
ASSUME NoneAssumption == None \notin Keyring

AcceptanceCall == [step : {"none", "issuer", "press", "set up", "read", "write", "sign", "submitted",
                 "handed back", "accepted", "rejected", "failed"},
         offer : Offer \cup {None}, newWallet : BOOLEAN, opensWith : 0..MaxEvents,
         found : SUBSET Acceptance]
NoCall == [step |-> "none", offer |-> None, newWallet |-> FALSE, opensWith |-> 0, found |-> {}]
Request == {"none", "posted", "requester", "recipient", "use count", "register", "mark",
            "answer", "refused", "over"}

AcceptanceTypeOK ==
    /\ keyring \in Keyring \cup {None}
    /\ unlocked \in 0..MaxEvents
    /\ remote \in SUBSET Acceptance
    /\ calls \in [Acceptance -> AcceptanceCall]
    /\ handed \in [Acceptance -> {"no", "intact", "altered"}]
    /\ requests \in [Acceptance -> Request]
    /\ issued \in [Targeted -> {"no", "open", "finalized"}]
    /\ uses \in [Open -> Nat]
    /\ cards \in SUBSET Acceptance
    /\ good \in SUBSET Party
    /\ expired \in SUBSET Open
    /\ overwritten \in SUBSET Acceptance
    /\ events \in 0..MaxEvents

\* A device with or without a wallet, whose keyring holds the master key alone
OffersInit ==
    /\ keyring \in {None, [opensWith |-> 0, entries |-> {}]}
    /\ unlocked = 0 /\ remote = {}
    /\ calls = [i \in Acceptance |-> NoCall]
    /\ handed = [i \in Acceptance |-> "no"]
    /\ requests = [i \in Acceptance |-> "none"]
    /\ issued = [o \in Targeted |-> "no"]
    /\ uses = [o \in Open |-> 0]
    /\ cards = {} /\ good = Party /\ expired = {}
    /\ overwritten = {}
    /\ events = 0

-----------------------------------------------------------------------------
(* Review (offerVerification.ts)                                            *)

StepCall(i, step) == calls' = [calls EXCEPT ![i].step = step]

\* The binding and the signature of the issuer are checked before anything is awaited.
Review(i, o, genuine) ==
    /\ calls[i].step = "none"
    /\ \E newWallet \in BOOLEAN :
        /\ newWallet => keyring = None /\ o \in Open
        /\ calls' = [calls EXCEPT ![i] =
              [NoCall EXCEPT !.step = IF genuine THEN "issuer" ELSE "rejected",
                             !.offer = o, !.newWallet = newWallet, !.opensWith = unlocked]]
    /\ UNCHANGED <<keyring, unlocked, remote, handed, claimVars, good, expired, overwritten,
                   events>>

\* verifyIssuerChainAndPress: verifyCard, and what a provider that fails makes of it
VerifyIssuer(i, answered) ==
    /\ calls[i].step = "issuer"
    /\ StepCall(i, IF answered /\ "issuer" \in good THEN "press" ELSE "rejected")
    /\ UNCHANGED <<keyring, unlocked, remote, handed, claimVars, good, expired,
                   overwritten, events>>

\* getPressAuthorization
PressApproved(answered) == answered /\ "press" \in good
VerifyPress(i, answered) ==
    /\ calls[i].step = "press"
    /\ StepCall(i, IF ~PressApproved(answered) THEN "rejected"
                   ELSE IF calls[i].newWallet THEN "set up" ELSE "read")
    /\ UNCHANGED <<keyring, unlocked, remote, handed, claimVars, good, expired,
                   overwritten, events>>

-----------------------------------------------------------------------------
(* The keyring, and the countersignature (countersign.ts)                     *)

Entries == IF keyring = None THEN {} ELSE keyring.entries

\* setupWallet: the keyring of a new wallet is stored, here and at the wallet service,
\* before its hook accepts the offer.
SetUpWallet(i) ==
    /\ calls[i].step = "set up"
    /\ keyring' = [opensWith |-> unlocked, entries |-> {}]
    /\ remote' = {}
    /\ overwritten' = overwritten \cup Entries
    /\ calls' = [calls EXCEPT ![i].step = "read", ![i].opensWith = unlocked]
    /\ UNCHANGED <<unlocked, handed, claimVars, good, expired, events>>

\* generateAndPersistCardKey: no blob, or one the caller's key does not open, is an error.
ReadKeyring(i) ==
    LET opens == keyring # None /\ keyring.opensWith = calls[i].opensWith IN
    /\ calls[i].step = "read"
    /\ calls' = [calls EXCEPT ![i].step = IF opens THEN "write" ELSE "failed",
                              ![i].found = Entries]
    /\ UNCHANGED <<keyring, unlocked, remote, handed, claimVars, good, expired,
                   overwritten, events>>

\* What the write takes away: entries that came after the read, or all of them when the
\* wallet was recovered since the caller got its key.
Overwrites(i) ==
    IF calls[i].opensWith = unlocked
    THEN Entries \ calls[i].found ELSE Entries \cup calls[i].found \cup {i}

\* Mutant: the key that was there gives way to the new one.
AppendedAlone(found, i) == {i}
Appended(found, i) == found \cup {i}
WriteKeyring(i) ==
    /\ calls[i].step = "write"
    /\ keyring' = [opensWith |-> calls[i].opensWith, entries |-> Appended(calls[i].found, i)]
    /\ overwritten' = overwritten \cup Overwrites(i)
    /\ StepCall(i, "sign")
    /\ UNCHANGED <<unlocked, remote, handed, claimVars, good, expired, events>>

\* acceptOpenOfferAndCountersign and submitOpenOfferClaim
SubmitClaim(i) ==
    /\ calls[i].step = "sign" /\ calls[i].offer \in Open
    /\ requests' = [requests EXCEPT ![i] = "posted"]
    /\ StepCall(i, "submitted")
    /\ UNCHANGED <<keyring, unlocked, remote, handed, issued, uses, cards, good, expired,
                   overwritten, events>>

\* acceptTargetedOfferAndCountersign: handed to the app, which takes it to the issuer
HandBack(i) ==
    /\ calls[i].step = "sign" /\ calls[i].offer \in Targeted
    /\ handed' = [handed EXCEPT ![i] = "intact"]
    /\ StepCall(i, "handed back")
    /\ UNCHANGED <<keyring, unlocked, remote, claimVars, good, expired, overwritten,
                   events>>

-----------------------------------------------------------------------------
(* The issuer (targetedOfferAcceptance.ts) and the press (open-offer.ts, issue.ts) *)

StepRequest(i, step) == requests' = [requests EXCEPT ![i] = step]

\* handleIssue, which issues the offer again if it is asked again
IssueOffer(o) ==
    /\ issued' = [issued EXCEPT ![o] = "open"]
    /\ issued[o] # "open"
    /\ UNCHANGED <<acceptVars, requests, uses, cards, good, expired, overwritten, events>>

\* forwardCountersignedTargetedOffer: the signature of the holder has to cover the offer
\* the issuer made and the key it names.
Forward(i) ==
    /\ handed[i] # "no" /\ requests[i] = "none"
    /\ StepRequest(i, IF handed[i] = "intact" THEN "posted" ELSE "over")
    /\ UNCHANGED <<acceptVars, issued, uses, cards, good, expired, overwritten, events>>

\* The signatures are in order; an offer the press has not, or has finalized, is refused.
Receive(i) ==
    LET o == calls[i].offer IN
    /\ requests[i] = "posted"
    /\ StepRequest(i, IF o \in Open THEN "requester"
                      ELSE IF issued[o] = "open" THEN "register" ELSE "refused")
    /\ UNCHANGED <<acceptVars, issued, uses, cards, good, expired, overwritten, events>>

\* evaluatePredicates: the chain of the issuer, as the requester's and as the recipient's
After == [requester |-> "recipient", recipient |-> "use count"]
Evaluate(i, answered) ==
    /\ requests[i] \in DOMAIN After
    /\ StepRequest(i, IF answered /\ "issuer" \in good THEN After[requests[i]] ELSE "refused")
    /\ UNCHANGED <<acceptVars, issued, uses, cards, good, expired, overwritten, events>>

Available(o) == o \notin expired /\ uses[o] < OfferLimit
CheckUseCount(i) ==
    /\ requests[i] = "use count"
    /\ StepRequest(i, IF Available(calls[i].offer) THEN "register" ELSE "refused")
    /\ UNCHANGED <<acceptVars, issued, uses, cards, good, expired, overwritten, events>>

\* The registry looks again, and at the authorization of the press as well.
RegisterCard(i) ==
    LET o == calls[i].offer
        accepted == "press" \in good /\ (o \in Open => Available(o)) IN
    /\ requests[i] = "register"
    /\ StepRequest(i, IF ~accepted THEN "refused" ELSE IF o \in Open THEN "answer" ELSE "mark")
    /\ cards' = IF accepted THEN cards \cup {i} ELSE cards
    /\ uses' = IF accepted /\ o \in Open THEN [uses EXCEPT ![o] = @ + 1] ELSE uses
    /\ UNCHANGED <<acceptVars, issued, good, expired, overwritten, events>>

MarkFinalized(i) ==
    /\ requests[i] = "mark"
    /\ issued' = [issued EXCEPT ![calls[i].offer] = "finalized"]
    /\ StepRequest(i, "over")
    /\ UNCHANGED <<acceptVars, uses, cards, good, expired, overwritten, events>>

AnswerClaim(i) ==
    /\ requests[i] \in {"answer", "refused"}
    /\ StepRequest(i, "over")
    /\ StepCall(i, IF calls[i].step # "submitted" THEN calls[i].step
                   ELSE IF requests[i] = "answer" THEN "accepted" ELSE "failed")
    /\ UNCHANGED <<keyring, unlocked, remote, handed, issued, uses, cards, good, expired,
                   overwritten, events>>

-----------------------------------------------------------------------------
(* What else happens                                                        *)

Event == events < MaxEvents /\ events' = events + 1

\* A revocation, a revoked press, and their way back
ToggleParty(p) ==
    /\ Event
    /\ good' = IF p \in good THEN good \ {p} ELSE good \cup {p}
    /\ UNCHANGED <<acceptVars, claimVars, expired, overwritten>>

Expire(o) ==
    /\ Event /\ o \notin expired
    /\ expired' = expired \cup {o}
    /\ UNCHANGED <<acceptVars, claimVars, good, overwritten>>

\* The app is closed: what it has posted goes on.
AbandonOffer(i) ==
    /\ Event /\ calls[i].step \in {"issuer", "press", "set up", "read", "write", "sign", "submitted"}
    /\ StepCall(i, "failed")
    /\ UNCHANGED <<keyring, unlocked, remote, handed, claimVars, good, expired, overwritten>>

AlterHandedBack(i) ==
    /\ Event /\ handed[i] = "intact" /\ requests[i] = "none"
    /\ handed' = [handed EXCEPT ![i] = "altered"]
    /\ UNCHANGED <<keyring, unlocked, remote, calls, claimVars, good, expired, overwritten>>

\* recoverWallet, on this device: the keyring of the wallet service under a new key
RecoverWallet ==
    /\ Event /\ keyring # None
    /\ unlocked' = unlocked + 1
    /\ keyring' = [opensWith |-> unlocked + 1, entries |-> remote]
    /\ overwritten' = overwritten \cup (Entries \ remote)
    /\ UNCHANGED <<remote, calls, handed, claimVars, good, expired>>

-----------------------------------------------------------------------------
Accept(i) ==
    \/ \E o \in Offer, genuine \in BOOLEAN : Review(i, o, genuine)
    \/ \E answered \in BOOLEAN : VerifyIssuer(i, answered) \/ VerifyPress(i, answered)
    \/ SetUpWallet(i) \/ ReadKeyring(i) \/ WriteKeyring(i) \/ SubmitClaim(i) \/ HandBack(i)
Process(i) ==
    \/ Forward(i) \/ Receive(i) \/ CheckUseCount(i) \/ RegisterCard(i) \/ MarkFinalized(i)
    \/ AnswerClaim(i)
    \/ \E answered \in BOOLEAN : Evaluate(i, answered)
Environment ==
    \/ \E o \in Targeted : IssueOffer(o)
    \/ \E p \in Party : ToggleParty(p)
    \/ \E o \in Open : Expire(o)
    \/ \E i \in Acceptance : AbandonOffer(i) \/ AlterHandedBack(i)
    \/ RecoverWallet

OffersNext == (\E i \in Acceptance : Accept(i) \/ Process(i)) \/ Environment

OffersSpec == OffersInit /\ [][OffersNext]_offerVars

-----------------------------------------------------------------------------
(* Properties                                                               *)

(* The key of every card there is, or may come to be, is in the keyring and can    *)
(* be used, unless another call wrote the keyring in between or a recovery took    *)
(* the keyring of the wallet service instead (countersign.ts: persist before      *)
(* sign).                                                                    *)
Committed == {i \in Acceptance : handed[i] # "no" \/ requests[i] # "none" \/ i \in cards}
Usable == IF keyring # None /\ keyring.opensWith = unlocked THEN Entries ELSE {}
CardsHaveKeys == Committed \subseteq Usable \cup overwritten

=============================================================================
