--------------------------- MODULE MCAuthSessions ---------------------------
(* Small instances of AuthSessions for TLC.                                *)
EXTENDS AuthSessions, TLC

\* Tokens and request slots are interchangeable.  Only for runs whose
\* properties are invariants or action properties: symmetry is unsound for
\* liveness.
Symmetry ==
  Permutations(Tokens) \cup Permutations(Requests) \cup Permutations(ResetTokens)
=============================================================================
