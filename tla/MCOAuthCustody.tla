--------------------------- MODULE MCOAuthCustody ---------------------------
(***************************************************************************)
(* Instances of OAuthCustody for TLC.                                       *)
(***************************************************************************)
EXTENDS OAuthCustody, TLC

NoFault == {{}}
OneFault == {{"late_lock"}, {"split_turn"}}
Symmetry == Permutations(Callers)

=============================================================================
