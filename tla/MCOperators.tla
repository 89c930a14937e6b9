----------------------------- MODULE MCOperators -----------------------------
(* DomainAuthority, RegistrySetup and ObliviousPath on small instances.  They share *)
(* nothing here: each is explored while the others stay put.                    *)
EXTENDS DomainAuthority, RegistrySetup, ObliviousPath

CONSTANTS c1, c2, c3, q1, q2, q3, q4, k1

\* The third card, when the press made it, is an old card only: then no entries are set
\* and one applicant is the admin of the domain.
AuthorityStarts ==
    /\ AuthorityInit
    /\ status[c1] = "none" /\ forward[c2] = Absent
    /\ forward[c3] # Absent => forward[c3] = c2 /\ status[c2] = "live"
ExploredAuthorityNext ==
    /\ AuthorityNext
    /\ apply'[c3] = "none" /\ c3 \notin records'
    /\ IF status[c3] = "none"
       THEN \A c \in AdminCard : forward'[c] # c3 /\ c3 \notin handoff'[c].old
       ELSE log' = <<>> /\ apply'[c2] = "none" /\ c2 \notin records'

\* Two requests to the wallet service, one to the press, one to the press in the open;
\* those of one kind at a time.
MCDestOf == [r \in Call |-> IF r \in {q1, q2} THEN Wallet ELSE Press]
Kind(r) == <<DestOf[r], r \in Bypassed>>
Explorable(r) == \A q \in Call : Kind(q) # Kind(r) => call[q].step = "idle"
PressIsCalled == \E r \in Call : DestOf[r] = Press /\ call[r].step # "idle"
ExploredPathNext ==
    \/ \E r \in Call : Explorable(r) /\ (CallStep(r) \/ LoseCall(r))
    \/ \E i \in Instance : KeyStep(i) \/ KeyFails(i) \/ CrashInstance(i)
    \/ Age
    \/ PressIsCalled /\ (RestartPress \/ PressStarts)

AuthorityRests == AuthorityInit /\ \A c \in AdminCard : status[c] = "none"
PathRests == \A r \in Call : call[r].step = "idle"

OperatorsInit == AuthorityStarts /\ SetupInit /\ PathInit /\ pressKey = k1
OperatorsNext ==
    \/ SetupInit /\ PathRests /\ ExploredAuthorityNext /\ UNCHANGED <<setupVars, pathVars>>
    \/ AuthorityRests /\ PathRests /\ SetupNext /\ UNCHANGED <<authorityVars, pathVars>>
    \/ AuthorityRests /\ SetupInit /\ ExploredPathNext /\ UNCHANGED <<authorityVars, setupVars>>

\* The path is fair: its steps are possible while it is the one that is explored.
OperatorsSpec ==
    /\ OperatorsInit /\ [][OperatorsNext]_<<authorityVars, setupVars, pathVars>>
    /\ PathFairness
=============================================================================
