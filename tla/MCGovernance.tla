---------------------------- MODULE MCGovernance ----------------------------
(* Governance on a small instance.                                          *)
EXTENDS Governance, TLC

CONSTANTS k1, k2
MCKeysets == {}
Symmetry == Permutations(Nonce)
MCEitherKeys == {<<k1>>, <<k2, k1>>}
=============================================================================
