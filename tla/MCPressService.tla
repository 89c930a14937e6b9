--------------------------- MODULE MCPressService ---------------------------
(* Sub-card registration, the sub-card directory, the reconciliation task and   *)
(* the policy module of rooms, which share nothing: each is explored while the  *)
(* other three stay put.                                                      *)
EXTENDS SubCardRegistration, SubCardDirectory, PressJobs, MCRoomPolicy, TLC

CONSTANTS k1, k2, k3, holder, app, policy

MCHolderOf == [k \in Key |-> holder]
MCAppOf == [k \in Key |-> app]
MCLimit == (holder :> 1) @@ (app :> 2) @@ (policy :> 6)

servicesVars == <<registrationVars, directoryVars, jobVars, vars>>

Registering == \E k \in Key : flow[k] # "none"
ServicesInit == RegistrationInit /\ DirectoryInit /\ JobsInit /\ Init
ServicesNext ==
    \/ /\ DirectoryInit /\ JobsInit /\ Init
       /\ RegistrationNext /\ UNCHANGED <<directoryVars, jobVars, vars>>
    \/ /\ RegistrationInit /\ JobsInit /\ Init
       /\ DirectoryNext /\ UNCHANGED <<registrationVars, jobVars, vars>>
    \/ /\ RegistrationInit /\ DirectoryInit /\ Init
       /\ JobsNext /\ UNCHANGED <<registrationVars, directoryVars, vars>>
    \/ /\ RegistrationInit /\ DirectoryInit /\ JobsInit
       /\ Next /\ UNCHANGED <<registrationVars, directoryVars, jobVars>>
ServicesSpec == ServicesInit /\ [][ServicesNext]_servicesVars

\* Keys are alike, and their requests come in order.
InOrder ==
    /\ flow[k3] # "none" => flow[k2] # "none"
    /\ flow[k2] # "none" => flow[k1] # "none"
Explored ==
    /\ InOrder
    /\ Registering \/ (appGood /\ window = 0)
    \* Three requests at once as long as nothing fails, two with a failure or a new window
    /\ flow[k3] # "none" => faults = 0 /\ window = 0
    /\ faults = 0 \/ window = 0
    \* A loop that has ended does nothing that one that waits may not do as well; Synapse
    \* restarts, or a card is revoked.
    /\ \A l \in Loop : alive[l]
    /\ restarts = 0 \/ revoked = {}
=============================================================================
