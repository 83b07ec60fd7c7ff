--------------------------- MODULE SessionChains ---------------------------
(***************************************************************************)
(* What refresh-token rotation promises, with no database, no statements   *)
(* and no concurrency.  A session is a chain of single-use tokens of which *)
(* at most the newest is live: it is opened with one live token, each      *)
(* rotation passes liveness from a token to a token never used before, and *)
(* an ended session has no live token ever again.                          *)
(***************************************************************************)
CONSTANTS
  Tokens,  \* every refresh token that may ever be minted
  None     \* the session of a token not minted yet

VARIABLES
  used,    \* tokens minted so far
  live,    \* tokens a client can still rotate
  session  \* the session of each minted token, named by its first token

vars == <<used, live, session>>

TypeOK ==
  /\ used \in SUBSET Tokens
  /\ live \in SUBSET used
  /\ session \in [Tokens -> Tokens \cup {None}]

Init ==
  /\ used = {}
  /\ live = {}
  /\ session = [t \in Tokens |-> None]

Open(t) ==
  /\ t \notin used
  /\ used' = used \cup {t}
  /\ live' = live \cup {t}
  /\ session' = [session EXCEPT ![t] = t]

Rotate(t, s) ==
  /\ t \in live
  /\ s \notin used
  /\ used' = used \cup {s}
  /\ live' = (live \ {t}) \cup {s}
  /\ session' = [session EXCEPT ![s] = session[t]]

End(S) ==
  /\ live' = live \ S
  /\ UNCHANGED <<used, session>>

Next ==
  \/ \E t \in Tokens : Open(t)
  \/ \E t, s \in Tokens : Rotate(t, s)
  \/ \E S \in SUBSET live : End(S)

Spec == Init /\ [][Next]_vars

----------------------------------------------------------------------------
(* A session has at most one live token.                                   *)
OneLivePerSession ==
  \A t, s \in live : session[t] = session[s] => t = s
============================================================================
