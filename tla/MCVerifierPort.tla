---------------------------- MODULE MCVerifierPort ----------------------------
(* CardVerifier and its port on a small instance, one of them at a time.       *)
EXTENDS VerifierPort, TLC

CONSTANTS m, a, r

\* A chain of three, one that ends below the root, and a circle.
MCAncestries == {(m :> a) @@ (a :> r) @@ (r :> Nil),
                 (m :> a) @@ (a :> Nil) @@ (r :> Nil),
                 (m :> a) @@ (a :> m) @@ (r :> Nil)}

MCSound == [exists |-> TRUE, active |-> TRUE, complete |-> TRUE, flaw |-> "none"]
MCSubCards ==
    {MCSound, [MCSound EXCEPT !.exists = FALSE], [MCSound EXCEPT !.complete = FALSE]}
    \cup {[MCSound EXCEPT !.flaw = f] : f \in {"binding", "registration", "holder-signature", "app-signature"}}
MCReported == {Nil, 0}
MCDated == {0}
MCMissing == {{}, {a}, {m}, {r}}
MCAppRoots == {Nil, m, a, r}

\* What is looked into, bounds on what others do.  Two changes where everything is
\* there to begin with; one where an ancestor is missing, the ancestry is not the
\* chain of three or a card is looked at without its key; none where the sub-card is
\* not sound or the verifier does not trust r as the root of the apps.  The sub-card
\* and the press matter only to a signature.
Explored ==
    LET plain == /\ subCard.flaw = "none" /\ subCard.exists /\ Exists(m) /\ Exists(r)
                 /\ v.kind = "signature" /\ v.step # "idle" => v.appRoot = r IN
    /\ changes <= IF ~plain THEN 0
                  ELSE IF /\ parent[a] = r /\ Exists(a) /\ subCard.complete
                          /\ v.kind = "card" => v.pubkey = "right" THEN 2
                  ELSE 1
    /\ v.kind = "card" => subCard.exists /\ subCard.complete /\ subCard.flaw = "none"
                          /\ subCard.active /\ pressLog = <<"active">>

\* Two changes meet a signature within one tick; otherwise there is one.  The port
\* sees a change where everything is sound and there and its app card is under r.
ExploredPort ==
    /\ Explored
    /\ changes = 2 => v.kind = "signature" /\ now = 0
    /\ port.pc # "none" =>
             changes <= IF /\ subCard.flaw = "none" /\ subCard.exists /\ subCard.complete
                           /\ \A c \in Card : Exists(c)
                           /\ parent[a] = r /\ port.appRoot = r THEN 1 ELSE 0
=============================================================================
