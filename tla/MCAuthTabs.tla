----------------------------- MODULE MCAuthTabs -----------------------------
(* Instances of AuthTabs for TLC.  Credentials and tabs are only ever        *)
(* compared for equality, so each are interchangeable.                       *)
EXTENDS AuthTabs, TLC

Symmetry == Permutations(Tokens) \cup Permutations(Tabs)
=============================================================================
