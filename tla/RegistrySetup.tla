---------------------------- MODULE RegistrySetup ----------------------------
(***************************************************************************)
(* The scripts with which operators put up a registry (contracts/scripts):   *)
(* deploy.sh and redeploy_logic.sh deploy contracts, wire them to each other   *)
(* and write their addresses to a record that the others go by; setup_dns.sh, *)
(* register_dev_policy.sh and authorize_dev_press.sh establish facts in a      *)
(* registry with the signatures of a governance body, rotate_governance_body.sh *)
(* hands a body over to a board.  Operators run them side by side from shells   *)
(* with addresses exported long ago; a run can end anywhere, and is run again.  *)
(* A body starts with the deployer's key alone and version 0.  What a transaction *)
(* changes is as in CardRegistry, DnsRegistry and Governance, which have the      *)
(* contracts in full.                                                       *)
(***************************************************************************)
EXTENDS Naturals, Sequences

CONSTANTS Operator,
          MaxContracts, MaxRuns,    \* bounds: contracts deployed, scripts started
          None

ASSUME SetupAssumption ==
    /\ MaxContracts \in Nat /\ MaxRuns \in Nat
    /\ None \notin [storage : 1..MaxContracts, verifier : 1..MaxContracts]

VARIABLES
    contracts,  \* how many there are; their addresses count from 1
    obeys,      \* the logic contract of each storage contract
    uses,       \* the storage contract and the verifier of each logic contract
    keys,       \* who holds each governance body of a storage contract, and its version
    facts,      \* what governance has established in each storage contract
    record,     \* deployments/<network>.json
    exported,   \* the records there have been, from which shells have their addresses
    run,        \* what each operator is running
    runs,
    unwired     \* history: whether the run that wrote the record had no key to wire with

chainVars == <<contracts, obeys, uses, keys, facts>>
setupVars == <<chainVars, record, exported, run, runs, unwired>>

GovBody == {"root", "press", "dns"}
Address == 1..MaxContracts
DnsFacts == <<"dns policy", "dns press", "dns pointer">>

\* What a script establishes, in order
Plan(script) ==
    CASE script = "setup_dns" -> DnsFacts
      [] script = "register_dev_policy" -> <<"dev policy">>
      [] script = "authorize_dev_press" -> <<"dev press">>
Governing == {"setup_dns", "register_dev_policy", "authorize_dev_press"}
BodyOf(fact) ==
    CASE fact \in {"dns policy", "dev policy"} -> "root"
      [] fact \in {"dns press", "dev press"} -> "press"
      [] fact = "dns pointer" -> "dns"
      [] fact \in GovBody -> fact      \* the rotation of that body
Signer(script) == IF script \in {"setup_dns", "rotate"} THEN "deployer" ELSE "board"

Idle == [script |-> "none", step |-> "over"]

-----------------------------------------------------------------------------
(* Transactions                                                             *)

Presupposes(fact) ==
    CASE fact \in {"dns press", "dns pointer"} -> {"dns policy"}
      [] fact = "dev press" -> {"dev policy"}
      [] OTHER -> {}

\* One signature of the deployer, or two of the three of a board
Admits(logic, fact, signer, version) ==
    /\ uses[logic] # None
    /\ LET s == uses[logic].storage IN
        /\ obeys[s] = logic
        /\ keys[s][BodyOf(fact)] = [holder |-> signer, version |-> version]
        /\ Presupposes(fact) \subseteq facts[s]
        /\ fact \in {"dns policy", "dev policy", "dns pointer"} => fact \notin facts[s]

Establish(logic, fact) ==
    /\ facts' = [facts EXCEPT ![uses[logic].storage] = @ \cup {fact}]
    /\ UNCHANGED <<contracts, obeys, uses, keys>>
HandOver(logic, b) ==
    /\ keys' = [keys EXCEPT ![uses[logic].storage][b] =
                   [holder |-> "board", version |-> @.version + 1]]
    /\ UNCHANGED <<contracts, obeys, uses, facts>>

-----------------------------------------------------------------------------
(* Runs                                                                     *)

Running(o) == run[o].step # "over" /\ run[o].step # "complete"
Step(o, step) == run' = [run EXCEPT ![o].step = step]
NoMore == UNCHANGED <<record, exported, runs, unwired>>

Start(o, r) ==
    /\ ~Running(o) /\ runs < MaxRuns
    /\ runs' = runs + 1
    /\ run' = [run EXCEPT ![o] = r]
    /\ UNCHANGED <<chainVars, record, exported, unwired>>

\* An answer to a prompt, an error under set -e, a closed terminal
Stop(o) ==
    /\ Running(o)
    /\ run' = [run EXCEPT ![o] = Idle]
    /\ UNCHANGED chainVars /\ NoMore

-----------------------------------------------------------------------------
(* deploy.sh, redeploy_logic.sh                                             *)

StartDeploy(o, keyed) ==
    Start(o, [script |-> "deploy", step |-> "deploy verifier", keyed |-> keyed,
              verifier |-> 0, storage |-> 0, logic |-> 0])

\* The verifier is the one in the record by now; the key is required.
StartRedeploy(o) ==
    /\ record # None
    /\ Start(o, [script |-> "redeploy", step |-> "deploy storage", keyed |-> TRUE,
                 verifier |-> record.verifier, storage |-> 0, logic |-> 0])

\* Mutant: what is deployed goes on record before it is wired.
RecordFirst(r) == "write record"
AfterDeployment(r) == IF r.keyed THEN "wire storage" ELSE "write record"
\* cargo stylus deploy; a run may stop after it and leave the contract behind
Deploy(o) ==
    LET a == contracts + 1
        r == run[o] IN
    /\ r.step \in {"deploy verifier", "deploy storage", "deploy logic"}
    /\ contracts < MaxContracts
    /\ contracts' = a
    /\ run' = [run EXCEPT ![o] =
          CASE r.step = "deploy verifier" -> [r EXCEPT !.verifier = a, !.step = "deploy storage"]
            [] r.step = "deploy storage" -> [r EXCEPT !.storage = a, !.step = "deploy logic"]
            [] r.step = "deploy logic" -> [r EXCEPT !.logic = a, !.step = AfterDeployment(r)]]
    /\ UNCHANGED <<obeys, uses, keys, facts>> /\ NoMore

\* storage.initialize and logic.initialize, once each
WireStorage(o, answered) ==
    /\ run[o].step = "wire storage" /\ obeys[run[o].storage] = 0
    /\ obeys' = [obeys EXCEPT ![run[o].storage] = run[o].logic]
    /\ keys' = [keys EXCEPT ![run[o].storage] =
                   [b \in GovBody |-> [holder |-> "deployer", version |-> 0]]]
    /\ IF answered THEN Step(o, "wire logic") ELSE run' = [run EXCEPT ![o] = Idle]
    /\ UNCHANGED <<contracts, uses, facts>> /\ NoMore
WireLogic(o, answered) ==
    /\ run[o].step = "wire logic" /\ uses[run[o].logic] = None
    /\ uses' = [uses EXCEPT ![run[o].logic] =
                   [storage |-> run[o].storage, verifier |-> run[o].verifier]]
    /\ IF answered
       THEN Step(o, IF run[o].script = "deploy" THEN "write record" ELSE "verify wiring")
       ELSE run' = [run EXCEPT ![o] = Idle]
    /\ UNCHANGED <<contracts, obeys, keys, facts>> /\ NoMore

VerifyWiring(o) ==
    /\ run[o].step = "verify wiring"
    /\ obeys[run[o].storage] = run[o].logic
    /\ uses[run[o].logic] = [storage |-> run[o].storage, verifier |-> run[o].verifier]
    /\ Step(o, "write record")
    /\ UNCHANGED chainVars /\ NoMore

\* A deployment replaces the record, a redeployment all of it but the verifier.
WriteRecord(o) ==
    /\ run[o].step = "write record"
    /\ record' = [verifier |-> IF run[o].script = "deploy" THEN run[o].verifier
                               ELSE record.verifier,
                  storage |-> run[o].storage, logic |-> run[o].logic]
    /\ unwired' = ~run[o].keyed
    /\ exported' = exported \cup {record'}
    /\ run' = [run EXCEPT ![o] = Idle]
    /\ UNCHANGED <<chainVars, runs>>

-----------------------------------------------------------------------------
(* setup_dns.sh, register_dev_policy.sh, authorize_dev_press.sh              *)

\* LOGIC_ADDRESS is exported; STORAGE_ADDRESS may be, or comes from the record.
StartGoverning(o, script, logic, storage) ==
    /\ Start(o, [script |-> script, logic |-> logic, storage |-> storage,
                 left |-> Plan(script), version |-> [b \in GovBody |-> 0],
                 step |-> IF script = "authorize_dev_press" THEN "check" ELSE "read"])

Governs(o) == run[o].script \in Governing
Fact(o) == run[o].left[1]
KeysVersion(logic, b) == keys[uses[logic].storage][b].version
CanRead(logic) == uses[logic] # None /\ obeys[uses[logic].storage] # 0

\* setup_dns.sh takes a version it cannot read for 0, the others end.
ReadVersions(o, unread) ==
    /\ Governs(o) /\ run[o].step = "read"
    /\ unread # {} \/ ~CanRead(run[o].logic) => run[o].script = "setup_dns"
    /\ run' = [run EXCEPT
          ![o].version = [b \in GovBody |-> IF CanRead(run[o].logic) /\ b \notin unread
                                         THEN KeysVersion(run[o].logic, b) ELSE 0],
          ![o].step = IF run[o].script = "setup_dns" THEN "check" ELSE "submit"]
    /\ UNCHANGED chainVars /\ NoMore

Found(s, fact, read) == read /\ fact \in facts[s]

\* The pointer is read from the logic contract, the rest from the storage contract.
CheckedIn(o, fact) ==
    IF fact = "dns pointer" /\ CanRead(run[o].logic) THEN uses[run[o].logic].storage
    ELSE run[o].storage
AfterFact(o) ==
    IF Len(run[o].left) = 1 THEN [run[o] EXCEPT !.step = "verify"]
    ELSE [run[o] EXCEPT !.left = Tail(@), !.step = "check"]

Check(o, read) ==
    /\ Governs(o) /\ run[o].step = "check"
    /\ run[o].script = "authorize_dev_press" => read
    /\ Fact(o) = "dns pointer" /\ ~CanRead(run[o].logic) => ~read
    /\ LET found == Found(CheckedIn(o, Fact(o)), Fact(o), read) IN
        run' = [run EXCEPT ![o] =
            CASE run[o].script = "authorize_dev_press" ->
                    IF found THEN Idle ELSE [run[o] EXCEPT !.step = "read"]
              [] run[o].script = "setup_dns" ->
                    IF found THEN AfterFact(o) ELSE [run[o] EXCEPT !.step = "submit"]]
    /\ UNCHANGED chainVars /\ NoMore

\* Prompt and cast send, which estimates first and waits for the receipt
Submit(o, answered) ==
    /\ Governs(o) /\ run[o].step = "submit"
    /\ Admits(run[o].logic, Fact(o), Signer(run[o].script), run[o].version[BodyOf(Fact(o))])
    /\ Establish(run[o].logic, Fact(o))
    /\ run' = [run EXCEPT ![o] = IF answered THEN AfterFact(o) ELSE Idle]
    /\ NoMore

\* The final reads; register_dev_policy.sh prints what it reads and the pointer is printed too.
Verify(o, read) ==
    /\ Governs(o) /\ run[o].step = "verify"
    /\ LET checked == CASE run[o].script = "setup_dns" -> {"dns policy", "dns press"}
                        [] run[o].script = "authorize_dev_press" -> {"dev press"}
                        [] OTHER -> {} IN
        run' = [run EXCEPT ![o] = IF \A f \in checked : Found(run[o].storage, f, read)
                                  THEN [run[o] EXCEPT !.step = "complete"] ELSE Idle]
    /\ UNCHANGED chainVars /\ NoMore

-----------------------------------------------------------------------------
(* rotate_governance_body.sh                                                *)

StartRotation(o, logic, b) ==
    /\ Start(o, [script |-> "rotate", logic |-> logic, body |-> b, version |-> 0,
                 step |-> "read keyset"])

ReadKeyset(o) ==
    /\ run[o].step = "read keyset" /\ CanRead(run[o].logic)
    /\ run' = [run EXCEPT ![o].version = KeysVersion(run[o].logic, run[o].body),
                          ![o].step = "rotate"]
    /\ UNCHANGED chainVars /\ NoMore

\* It has one signature to give: no body that a board holds is handed over again.
Rotate(o) ==
    /\ run[o].step = "rotate"
    /\ Admits(run[o].logic, run[o].body, "deployer", run[o].version)
    /\ HandOver(run[o].logic, run[o].body)
    /\ run' = [run EXCEPT ![o] = Idle]
    /\ NoMore

-----------------------------------------------------------------------------
SetupInit ==
    /\ contracts = 0
    /\ obeys = [a \in Address |-> 0] /\ uses = [a \in Address |-> None]
    /\ keys = [a \in Address |-> [b \in GovBody |-> [holder |-> "nobody", version |-> 0]]]
    /\ facts = [a \in Address |-> {}]
    /\ record = None /\ exported = {}
    /\ run = [o \in Operator |-> Idle] /\ runs = 0
    /\ unwired = FALSE

Operate(o) ==
    \/ Stop(o) \/ StartRedeploy(o) \/ Deploy(o) \/ VerifyWiring(o) \/ WriteRecord(o)
    \/ ReadKeyset(o) \/ Rotate(o)
    \/ \E yes \in BOOLEAN :
        \/ StartDeploy(o, yes) \/ WireStorage(o, yes) \/ WireLogic(o, yes)
        \/ Check(o, yes) \/ Submit(o, yes) \/ Verify(o, yes)
    \/ \E e \in exported : \/ \E f \in exported, script \in Governing :
                                  StartGoverning(o, script, e.logic, f.storage)
                           \/ \E b \in GovBody : StartRotation(o, e.logic, b)
    \/ \E unread \in SUBSET GovBody : ReadVersions(o, unread)
SetupNext == \E o \in Operator : Operate(o)
SetupSpec == SetupInit /\ [][SetupNext]_setupVars

-----------------------------------------------------------------------------
(* Properties                                                               *)

(* The record names a storage contract and a logic contract that are wired to each   *)
(* other, unless its deployment had no key to wire them with, whatever runs overlap  *)
(* or end early (deploy.sh, redeploy_logic.sh).                                  *)
RecordIsWired ==
    record # None /\ ~unwired =>
        obeys[record.storage] = record.logic
        /\ uses[record.logic] # None /\ uses[record.logic].storage = record.storage

(* A setup that says it is complete has left policy, press and pointer in the registry *)
(* it was pointed at, whatever it could not read and whichever runs came before, as     *)
(* long as both its addresses belong to that registry (setup_dns.sh).                *)
SetupIsWhole ==
    \A o \in Operator :
        /\ run[o].script = "setup_dns" /\ run[o].step = "complete"
        /\ uses[run[o].logic] # None /\ uses[run[o].logic].storage = run[o].storage
        => {DnsFacts[i] : i \in 1..3} \subseteq facts[run[o].storage]

(* What the scripts record and report is so: the scripts that run next go by it.      *)
SetupIsSound == RecordIsWired /\ SetupIsWhole
=============================================================================
