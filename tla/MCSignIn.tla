------------------------------ MODULE MCSignIn ------------------------------
(* Instances of SignIn for TLC.  Browsers, request slots and signing keys are *)
(* only ever compared for equality, so each are interchangeable.              *)
EXTENDS SignIn, TLC

Symmetry == Permutations(Browsers) \cup Permutations(Slots) \cup Permutations(Keys)
=============================================================================
