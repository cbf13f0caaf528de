---------------------------- MODULE MCSignedCall ----------------------------
(* Small instances of SignedCall for TLC. *)
EXTENDS SignedCall, TLC

CONSTANTS m1, m2, h1, h2

TwoCalls == {m1, m2}
TwoHandlers == {h1, h2}

Symmetry == Permutations(Call) \cup Permutations(Handler)
=============================================================================
