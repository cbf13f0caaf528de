----------------------------- MODULE MCProvider -----------------------------
(* Small instances of Provider for TLC. *)
EXTENDS Provider

CONSTANTS m1, m2

\* Answers of one and of two messages, no answer, and what cannot be decoded.
Scripts == {<<>>, <<"other", m1>>, <<m1, m2>>, <<m1, "garbage">>, <<"oversized", m1>>}
=============================================================================
