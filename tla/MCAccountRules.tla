--------------------------- MODULE MCAccountRules ---------------------------
(* Values for model-checking AccountRules.  The two web requests and the   *)
(* two rules are interchangeable; the imported document has no rules, the  *)
(* engine's database all of them.                                          *)
EXTENDS AccountRules, TLC

MCUploads   == {{}}
MCInherited == {Entries}
MCSymmetry  == Permutations(WebRequests) \union Permutations(Entries)
=============================================================================
