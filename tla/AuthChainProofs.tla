--------------------------- MODULE AuthChainProofs ---------------------------
(***************************************************************************)
(* More of module AuthSessions, for any users, tokens and requests: a      *)
(* family is one chain of rotations without a gap in its validity, clients *)
(* hold only tokens that are stored, and what a revocation that skipped no *)
(* row leaves behind is dead.  Requests never wait in a cycle and each has *)
(* boundedly many steps left.  A documented claim that a race breaks holds *)
(* of every behaviour without the races that its theorem names.            *)
(***************************************************************************)
EXTENDS AuthSessionsProofs, FiniteSetTheorems

USE NoneAssumption

----------------------------------------------------------------------------
(* Who changes what.                                                       *)

SameAll(y) == Same(y) /\ skipped'[y] = skipped[y]

LEMMA OneRequestMoves ==
  ASSUME IInv, [Next]_vars
  PROVE  \/ UNCHANGED tokenVars /\ \A y \in Requests : SameAll(y)
         \/ \E x \in Requests : /\ Arrive(x) \/ Work(x) \/ Abort(x) \/ LoseReply(x)
                                /\ \A y \in Requests \ {x} : SameAll(y)
<1>1. TypeOK
  BY DEF IInv, TypeInv
<1>2. CASE UNCHANGED vars \/ Tick \/ \E u \in Users, b \in BOOLEAN : SetActive(u, b)
  BY <1>2 DEF vars, Tick, SetActive, SameAll, Same, rowVars
<1>3. ASSUME NEW x \in Requests, Arrive(x)
      PROVE  \A y \in Requests \ {x} : SameAll(y)
  <2>1. PICK r \in Req, where \in PC : Begin(x, r, where)
    BY <1>3, ArriveBegins DEF Arrived, IInv, PC
  <2> QED
    BY <1>1, <2>1 DEF Begin, TypeOK, SameAll, Same, rowVars
<1>4. ASSUME NEW x \in Requests, Abort(x) \/ LoseReply(x) \/ Notify(x) \/ Reply(x)
      PROVE  \A y \in Requests \ {x} : SameAll(y)
  BY <1>1, <1>4 DEF Abort, LoseReply, Notify, Reply, Forget, TypeOK, SameAll, Same
<1>5. ASSUME NEW x \in Requests, LoginIssue(x) \/ RotateCommit(x) \/ RevokeCommit(x)
      PROVE  \A y \in Requests \ {x} : SameAll(y)
  BY <1>1, <1>5 DEF LoginIssue, RotateCommit, RevokeCommit, TypeOK, SameAll, Same, rowVars
<1>6. ASSUME NEW x \in Requests, Rotate(x)
      PROVE  \A y \in Requests \ {x} : SameAll(y)
  BY <1>1, <1>6 DEF Rotate, Forget, TypeOK, SameAll, Same
<1>7. ASSUME NEW x \in Requests,
             Scan(x) \/ (\E t \in Tokens : UpdateRow(x, t)) \/ ForgotIssue(x) \/ ResetPassword(x)
      PROVE  \A y \in Requests \ {x} : SameAll(y)
  BY <1>1, <1>7 DEF Scan, UpdateRow, ForgotIssue, ResetPassword, TypeOK, SameAll, Same, rowVars
<1>8. ASSUME NEW x \in Requests, Work(x)
      PROVE  \A y \in Requests \ {x} : SameAll(y)
  BY <1>4, <1>5, <1>6, <1>7, <1>8 DEF Work
<1> QED
  BY <1>2, <1>3, <1>4, <1>8 DEF Next

LEMMA TokensChange ==
  ASSUME IInv, [Next]_vars
  PROVE  \/ UNCHANGED tokenVars
         \/ \E x \in Requests : LoginIssue(x) \/ RotateCommit(x) \/ RevokeCommit(x)
<1>1. ASSUME NEW x \in Requests, Arrive(x)
      PROVE  UNCHANGED tokenVars
  BY <1>1, ArriveBegins DEF Arrived, Begin, IInv
<1>2. ASSUME NEW x \in Requests, Work(x)
      PROVE  UNCHANGED tokenVars \/ LoginIssue(x) \/ RotateCommit(x) \/ RevokeCommit(x)
  BY <1>2 DEF Work, Rotate, Scan, UpdateRow, ForgotIssue, Notify, ResetPassword, Reply
<1>3. ASSUME NEW x \in Requests, Abort(x) \/ LoseReply(x)
      PROVE  UNCHANGED tokenVars
  BY <1>3 DEF Abort, LoseReply
<1> QED
  BY <1>1, <1>2, <1>3, OneRequestMoves

\* What a rotation that commits has locked and minted.
LEMMA CommitHolds ==
  ASSUME IInv, NEW x \in Requests, RotateCommit(x)
  PROVE  /\ pc[x] = "commit" /\ updated[x] = {req[x].token}
         /\ req[x].token \in Live /\ req[x].token \in Tokens
         /\ minted[x] \in Tokens \ refresh_tokens
BY DEF IInv, TypeInv, TypeOK, RowLocks, HeldInv, HeldBy, RotateCommit, Live

\* Rows are never deleted, and of a row only revoked_at and replaced_by change.
LEMMA RowsStay ==
  ASSUME IInv, [Next]_vars
  PROVE  /\ refresh_tokens \subseteq refresh_tokens' /\ revoked \subseteq revoked'
         /\ \A t \in refresh_tokens :
              /\ family_id'[t] = family_id[t] /\ user_id'[t] = user_id[t]
              /\ expires_at'[t] = expires_at[t]
<1>1. TypeOK
  BY DEF IInv, TypeInv
<1>2. ASSUME NEW x \in Requests, LoginIssue(x)
      PROVE  /\ refresh_tokens \subseteq refresh_tokens' /\ revoked \subseteq revoked'
             /\ \A t \in refresh_tokens :
                  /\ family_id'[t] = family_id[t] /\ user_id'[t] = user_id[t]
                  /\ expires_at'[t] = expires_at[t]
  BY <1>1, <1>2 DEF LoginIssue, Fresh, TypeOK
<1>3. ASSUME NEW x \in Requests, RotateCommit(x)
      PROVE  /\ refresh_tokens \subseteq refresh_tokens' /\ revoked \subseteq revoked'
             /\ \A t \in refresh_tokens :
                  /\ family_id'[t] = family_id[t] /\ user_id'[t] = user_id[t]
                  /\ expires_at'[t] = expires_at[t]
  <2>1. PICK t1 \in Live, s \in Tokens \ refresh_tokens :
          /\ refresh_tokens' = refresh_tokens \cup {s}
          /\ revoked' = revoked \cup {t1}
          /\ user_id' = [user_id EXCEPT ![s] = user_id[t1]]
          /\ family_id' = [family_id EXCEPT ![s] = family_id[t1]]
          /\ expires_at' = [expires_at EXCEPT ![s] = req[x].now + RefreshTTL]
    BY <1>3, CommitHolds DEF RotateCommit
  <2> QED
    BY <1>1, <2>1 DEF TypeOK
<1>4. ASSUME NEW x \in Requests, RevokeCommit(x)
      PROVE  /\ refresh_tokens \subseteq refresh_tokens' /\ revoked \subseteq revoked'
             /\ UNCHANGED <<family_id, user_id, expires_at>>
  BY <1>4 DEF RevokeCommit
<1> QED
  <2>1. CASE UNCHANGED tokenVars
    BY <2>1 DEF tokenVars
  <2>2. CASE \E x \in Requests : LoginIssue(x)
    BY <1>2, <2>2
  <2>3. CASE \E x \in Requests : RotateCommit(x)
    BY <1>3, <2>3
  <2>4. CASE \E x \in Requests : RevokeCommit(x)
    BY <1>4, <2>4
  <2> QED
    BY <2>1, <2>2, <2>3, <2>4, TokensChange

----------------------------------------------------------------------------
(* Chains.                                                                 *)

\* What is no row yet is nobody's successor and has none.
NoStrayLinks ==
  /\ \A t \in Tokens \ refresh_tokens : replaced_by[t] = None
  /\ \A t \in refresh_tokens : replaced_by[t] \in refresh_tokens \cup {None}

ChainInv == FamilyIsOneChain /\ NoStrayLinks

LEMMA LoginChains ==
  ASSUME IInv, ChainInv, NEW x \in Requests, LoginIssue(x)
  PROVE  ChainInv'
<1>1. TypeOK /\ RowsInv
  BY DEF IInv, TypeInv, RowLocks
<1>2. PICK t \in Fresh : /\ refresh_tokens' = refresh_tokens \cup {t}
                         /\ user_id' = [user_id EXCEPT ![t] = req[x].user]
                         /\ family_id' = [family_id EXCEPT ![t] = t]
  BY DEF LoginIssue
<1>3. t \in Tokens \ refresh_tokens /\ replaced_by' = replaced_by /\ revoked' = revoked
  BY DEF Fresh, LoginIssue
<1>4. NoStrayLinks'
  BY <1>2, <1>3 DEF ChainInv, NoStrayLinks
<1>5. \A s \in refresh_tokens : family_id'[s] = family_id[s] /\ user_id'[s] = user_id[s]
  BY <1>1, <1>2, <1>3 DEF TypeOK
<1>6. family_id'[t] = t /\ replaced_by[t] = None
  BY <1>1, <1>2, <1>3 DEF TypeOK, ChainInv, NoStrayLinks
<1>7. \A r \in refresh_tokens' : replaced_by'[r] # None => r \in refresh_tokens
  BY <1>2, <1>3, <1>6
<1>8. ASSUME NEW u \in refresh_tokens, family_id'[u] # u
      PROVE  \E p \in refresh_tokens' :
               /\ replaced_by'[p] = u /\ family_id'[p] = family_id'[u]
               /\ user_id'[p] = user_id'[u]
               /\ \A r \in refresh_tokens' : replaced_by'[r] = u => r = p
  <2>1. PICK p \in refresh_tokens :
          /\ replaced_by[p] = u /\ family_id[p] = family_id[u] /\ user_id[p] = user_id[u]
          /\ \A r \in refresh_tokens : replaced_by[r] = u => r = p
    BY <1>5, <1>8 DEF ChainInv, FamilyIsOneChain
  <2>2. u # None
    BY <1>1 DEF TypeOK
  <2> QED
    BY <1>2, <1>3, <1>5, <1>7, <2>1, <2>2
<1>9. \A u \in refresh_tokens :
        /\ family_id'[u] \in refresh_tokens'
        /\ replaced_by'[u] # None => u \in revoked' /\ replaced_by'[u] # family_id'[u]
  BY <1>2, <1>3, <1>5 DEF ChainInv, FamilyIsOneChain
<1>10. FamilyIsOneChain'
  BY <1>2, <1>3, <1>6, <1>8, <1>9 DEF FamilyIsOneChain
<1> QED
  BY <1>4, <1>10 DEF ChainInv

LEMMA RotateChains ==
  ASSUME IInv, ChainInv, NEW x \in Requests, RotateCommit(x)
  PROVE  ChainInv'
<1> DEFINE t == req[x].token
           s == minted[x]
<1>1. TypeOK /\ RowsInv
  BY DEF IInv, TypeInv, RowLocks
<1>2. /\ t \in refresh_tokens /\ t \notin revoked /\ t \in Tokens
      /\ s \in Tokens /\ s \notin refresh_tokens /\ s # t
      /\ s # None /\ \A u \in refresh_tokens : u # None
  BY <1>1, CommitHolds DEF Live, TypeOK
<1>3. /\ refresh_tokens' = refresh_tokens \cup {s}
      /\ user_id' = [user_id EXCEPT ![s] = user_id[t]]
      /\ family_id' = [family_id EXCEPT ![s] = family_id[t]]
      /\ replaced_by' = [replaced_by EXCEPT ![t] = s]
      /\ revoked' = revoked \cup {t}
  BY DEF RotateCommit
<1> HIDE DEF t, s
<1>4. \A r \in refresh_tokens :
        /\ family_id'[r] = family_id[r] /\ user_id'[r] = user_id[r]
        /\ r # t => replaced_by'[r] = replaced_by[r]
  BY <1>1, <1>2, <1>3 DEF TypeOK
<1>5. /\ family_id'[s] = family_id[t] /\ user_id'[s] = user_id[t] /\ replaced_by'[t] = s
      /\ replaced_by[t] = None /\ replaced_by'[s] = None
  BY <1>1, <1>2, <1>3 DEF TypeOK, ChainInv, FamilyIsOneChain, NoStrayLinks
<1>6. NoStrayLinks'
  BY <1>1, <1>2, <1>3, <1>4, <1>5 DEF ChainInv, NoStrayLinks, TypeOK
<1>7. ASSUME NEW u \in refresh_tokens
      PROVE  /\ family_id'[u] \in refresh_tokens'
             /\ replaced_by'[u] # None => u \in revoked' /\ replaced_by'[u] # family_id'[u]
  BY <1>1, <1>2, <1>3, <1>4, <1>5 DEF ChainInv, FamilyIsOneChain, RowsInv
<1>8. ASSUME NEW u \in refresh_tokens, family_id'[u] # u
      PROVE  \E p \in refresh_tokens' :
               /\ replaced_by'[p] = u /\ family_id'[p] = family_id'[u]
               /\ user_id'[p] = user_id'[u]
               /\ \A r \in refresh_tokens' : replaced_by'[r] = u => r = p
  <2>1. PICK p \in refresh_tokens :
          /\ replaced_by[p] = u /\ family_id[p] = family_id[u] /\ user_id[p] = user_id[u]
          /\ \A r \in refresh_tokens : replaced_by[r] = u => r = p
    BY <1>4, <1>8 DEF ChainInv, FamilyIsOneChain
  <2>2. u # None /\ u # s /\ p # t
    BY <1>2, <1>5, <2>1
  <2>3. replaced_by'[p] = u /\ family_id'[p] = family_id'[u] /\ user_id'[p] = user_id'[u]
    BY <1>4, <2>1, <2>2
  <2>4. \A r \in refresh_tokens' : replaced_by'[r] = u => r = p
    BY <1>3, <1>4, <1>5, <2>1, <2>2
  <2> QED
    BY <1>3, <2>3, <2>4
<1>9. /\ family_id'[s] \in refresh_tokens'
      /\ replaced_by'[t] = s /\ family_id'[t] = family_id'[s] /\ user_id'[t] = user_id'[s]
      /\ \A r \in refresh_tokens' : replaced_by'[r] = s => r = t
  <2>1. \A r \in refresh_tokens : replaced_by[r] # s
    BY <1>2 DEF ChainInv, NoStrayLinks
  <2>2. family_id[t] \in refresh_tokens
    BY <1>1, <1>2 DEF RowsInv
  <2> QED
    BY <1>2, <1>3, <1>4, <1>5, <2>1, <2>2
<1>10. FamilyIsOneChain'
  BY <1>2, <1>3, <1>5, <1>7, <1>8, <1>9 DEF FamilyIsOneChain
<1> QED
  BY <1>6, <1>10 DEF ChainInv

LEMMA ChainStep == IInv /\ ChainInv /\ [Next]_vars => ChainInv'
<1> SUFFICES ASSUME IInv, ChainInv, [Next]_vars
             PROVE  ChainInv'
  OBVIOUS
<1>1. CASE UNCHANGED tokenVars
  BY <1>1 DEF tokenVars, ChainInv, FamilyIsOneChain, NoStrayLinks
<1>2. ASSUME NEW x \in Requests, RevokeCommit(x)
      PROVE  ChainInv'
  BY <1>2 DEF RevokeCommit, ChainInv, FamilyIsOneChain, NoStrayLinks
<1> QED
  BY <1>1, <1>2, LoginChains, RotateChains, TokensChange

\* Every row but a family's first has exactly one predecessor, in its family and
\* of its user, and only retired rows have a successor, whatever rotations and
\* revocations interleave (rotate in refresh.rs).
THEOREM OneChain == Spec => []FamilyIsOneChain
<1>1. Init => ChainInv
  BY DEF Init, ChainInv, FamilyIsOneChain, NoStrayLinks
<1>2. ChainInv => FamilyIsOneChain
  BY DEF ChainInv
<1> QED
  BY <1>1, <1>2, ChainStep, Initially, InvStep, PTL DEF Spec

----------------------------------------------------------------------------
(* Validity.                                                               *)

\* A rotation under way found its token valid when it read the clock, and a
\* successor follows without a gap.
ValidInv ==
  /\ \A x \in Requests : pc[x] \in {"rotate", "commit"} =>
       req[x].token \in refresh_tokens /\ expires_at[req[x].token] > req[x].now
  /\ NoGapInValidity

LEMMA RotationsBegin ==
  ASSUME IInv, NEW x \in Requests, Arrive(x), pc'[x] \in {"rotate", "commit"}
  PROVE  /\ req'[x].token \in refresh_tokens
         /\ expires_at[req'[x].token] > req'[x].now
<1>1. TypeOK /\ RowsInv
  BY DEF IInv, TypeInv, RowLocks
<1>2. PICK t \in Tokens : RefreshFetch(x, t)
  BY <1>1 DEF Arrive, LoginRead, Logout, ForgotRead, ResetRead, Begin, TypeOK
<1>3. PICK n \in 0 .. clock :
        /\ ~Dead(t, n)
        /\ IF Reuse(t)
           THEN Begin(x, Ask("reuse", n, None, t, None, None), "scan")
           ELSE Begin(x, Ask("refresh", n, None, t, None, None), "rotate")
  BY <1>2 DEF RefreshFetch
<1>4. ~Reuse(t) /\ req'[x] = Ask("refresh", n, None, t, None, None)
  BY <1>1, <1>3 DEF Begin, TypeOK
<1>5. expires_at[t] > n
  BY <1>1, <1>3, <1>4 DEF Dead, TypeOK
<1>6. t \in refresh_tokens
  BY <1>1, <1>2 DEF RefreshFetch, RowsInv
<1> QED
  BY <1>4, <1>5, <1>6 DEF Ask

\* A rotation ends the request it belongs to, or goes on with what it read.
LEMMA RotationsGoOn ==
  ASSUME IInv, NEW x \in Requests, Work(x) \/ Abort(x) \/ LoseReply(x),
         pc'[x] \in {"rotate", "commit"}
  PROVE  pc[x] = "rotate" /\ req'[x] = req[x]
<1>1. TypeOK
  BY DEF IInv, TypeInv
<1>2. ~Forget(x)
  BY <1>1 DEF Forget, TypeOK
<1> QED
  BY <1>1, <1>2 DEF Work, LoginIssue, Rotate, RotateCommit, Scan, UpdateRow, RevokeCommit,
     ForgotIssue, Notify, ResetPassword, Reply, Abort, LoseReply, TypeOK

LEMMA ValidStep == IInv /\ ChainInv /\ ValidInv /\ [Next]_vars => ValidInv'
<1> SUFFICES ASSUME IInv, ChainInv, ValidInv, [Next]_vars
             PROVE  ValidInv'
  OBVIOUS
<1>1. TypeOK /\ RowsInv
  BY DEF IInv, TypeInv, RowLocks
<1>2. ASSUME NEW x \in Requests, pc'[x] \in {"rotate", "commit"}
      PROVE  req'[x].token \in refresh_tokens /\ expires_at[req'[x].token] > req'[x].now
  <2>1. CASE SameAll(x)
    BY <1>2, <2>1 DEF SameAll, Same, ValidInv
  <2>2. CASE Arrive(x)
    BY <1>2, <2>2, RotationsBegin
  <2>3. CASE Work(x) \/ Abort(x) \/ LoseReply(x)
    BY <1>2, <2>3, RotationsGoOn DEF ValidInv
  <2> QED
    BY <2>1, <2>2, <2>3, OneRequestMoves
<1>3. \A x \in Requests : pc'[x] \in {"rotate", "commit"} =>
        req'[x].token \in refresh_tokens' /\ expires_at'[req'[x].token] > req'[x].now
  BY <1>2, RowsStay
<1>4. ASSUME UNCHANGED replaced_by \/ \E x \in Requests : LoginIssue(x)
      PROVE  NoGapInValidity'
  <2>1. replaced_by' = replaced_by
    BY <1>4 DEF LoginIssue
  <2>2. \A t \in refresh_tokens' : replaced_by[t] # None =>
          t \in refresh_tokens /\ replaced_by[t] \in refresh_tokens
    BY <1>1, InvStep DEF ChainInv, NoStrayLinks, IInv, TypeInv, TypeOK
  <2> QED
    BY <2>1, <2>2, RowsStay DEF ValidInv, NoGapInValidity
<1>5. ASSUME NEW x \in Requests, RotateCommit(x)
      PROVE  NoGapInValidity'
  <2> DEFINE t == req[x].token
             s == minted[x]
  <2>1. /\ t \in refresh_tokens /\ t \in Tokens /\ expires_at[t] > req[x].now
        /\ s \in Tokens /\ s \notin refresh_tokens /\ req[x].now \in Nat
    BY <1>1, <1>5, CommitHolds DEF Live, ValidInv, TypeOK, Req
  <2>2. /\ expires_at' = [expires_at EXCEPT ![s] = req[x].now + RefreshTTL]
        /\ replaced_by' = [replaced_by EXCEPT ![t] = s]
        /\ refresh_tokens' = refresh_tokens \cup {s}
    BY <1>5 DEF RotateCommit
  <2> HIDE DEF t, s
  <2>3. expires_at[t] \in Nat /\ RefreshTTL \in Nat
    BY <1>1, <2>1, TTLAssumption DEF TypeOK
  <2>4. expires_at'[t] + RefreshTTL > expires_at'[s] /\ replaced_by'[t] = s
    BY <1>1, <2>1, <2>2, <2>3 DEF TypeOK
  <2>5. \A r \in refresh_tokens' : r # t /\ replaced_by'[r] # None =>
          /\ r \in refresh_tokens /\ replaced_by'[r] = replaced_by[r]
          /\ replaced_by[r] \in refresh_tokens
    BY <1>1, <2>1, <2>2 DEF TypeOK, ChainInv, NoStrayLinks
  <2> QED
    BY <2>4, <2>5, RowsStay DEF ValidInv, NoGapInValidity
<1>6. NoGapInValidity'
  <2>1. ASSUME NEW x \in Requests, RevokeCommit(x)
        PROVE  UNCHANGED replaced_by
    BY <2>1 DEF RevokeCommit
  <2> QED
    BY <1>4, <1>5, <2>1, TokensChange DEF tokenVars
<1> QED
  BY <1>3, <1>6 DEF ValidInv

\* A successor is asked for before its predecessor expires, so a session that
\* rotates has no gap, for any lifetime and however long requests wait (classify
\* in refresh.rs).
THEOREM NoGap == Spec => []NoGapInValidity
<1>1. Init => ChainInv /\ ValidInv
  BY DEF Init, ChainInv, FamilyIsOneChain, NoStrayLinks, ValidInv, NoGapInValidity
<1>2. ValidInv => NoGapInValidity
  BY DEF ValidInv
<1> QED
  BY <1>1, <1>2, ChainStep, ValidStep, Initially, InvStep, PTL DEF Spec

----------------------------------------------------------------------------
(* What the clients hold.                                                  *)

\* The reset token to be mailed is a committed row.
MailInv ==
  /\ mailed \subseteq reset_tokens
  /\ \A x \in Requests : pc[x] = "notify" => req[x].reset \in reset_tokens

LEMMA MailStep == IInv /\ MailInv /\ [Next]_vars => MailInv'
<1> SUFFICES ASSUME IInv, MailInv, [Next]_vars
             PROVE  MailInv'
  OBVIOUS
<1>1. TypeOK
  BY DEF IInv, TypeInv
<1>2. CASE UNCHANGED vars \/ Tick \/ \E u \in Users, b \in BOOLEAN : SetActive(u, b)
  BY <1>2 DEF vars, Tick, SetActive, MailInv, resetVars, clientVars
<1>3. ASSUME NEW x \in Requests, Arrive(x)
      PROVE  MailInv'
  <2>1. PICK r \in Req, where \in {"issue", "rotate", "scan", "forgot", "hash"} :
          Begin(x, r, where)
    BY <1>3, ArriveBegins DEF Arrived, IInv
  <2> QED
    BY <1>1, <2>1 DEF Begin, MailInv, TypeOK, resetVars, clientVars
<1>4. ASSUME NEW x \in Requests, ForgotIssue(x)
      PROVE  MailInv'
  <2>1. PICK r \in ResetTokens \ reset_tokens :
          /\ reset_tokens' = reset_tokens \cup {r}
          /\ req' = [req EXCEPT ![x].reset = r]
    BY <1>4 DEF ForgotIssue
  <2>2. req'[x].reset = r /\ \A y \in Requests \ {x} : req'[y] = req[y]
    BY <1>1, <2>1 DEF TypeOK, Req
  <2> QED
    BY <1>1, <1>4, <2>1, <2>2 DEF ForgotIssue, MailInv, TypeOK, clientVars
<1>5. ASSUME NEW x \in Requests, Notify(x) \/ Reply(x) \/ Abort(x) \/ LoseReply(x)
      PROVE  MailInv'
  BY <1>1, <1>5 DEF Notify, Reply, Abort, LoseReply, Forget, MailInv, TypeOK, resetVars,
     clientVars
<1>6. ASSUME NEW x \in Requests, Rotate(x)
      PROVE  MailInv'
  BY <1>1, <1>6 DEF Rotate, Forget, MailInv, TypeOK, resetVars, clientVars
<1>7. ASSUME NEW x \in Requests,
             \/ LoginIssue(x) \/ RotateCommit(x) \/ Scan(x) \/ RevokeCommit(x)
             \/ (\E t \in Tokens : UpdateRow(x, t)) \/ ResetPassword(x)
      PROVE  MailInv'
  BY <1>1, <1>7 DEF LoginIssue, RotateCommit, Scan, RevokeCommit, UpdateRow, ResetPassword,
     MailInv, TypeOK, resetVars, clientVars
<1>8. ASSUME NEW x \in Requests, Work(x)
      PROVE  MailInv'
  BY <1>4, <1>5, <1>6, <1>7, <1>8 DEF Work
<1> QED
  BY <1>2, <1>3, <1>5, <1>8 DEF Next

\* A reply or a mail never carries a token whose row was rolled back, wherever a
\* request is cut off (the commits before the answers of login, refresh and
\* forgot_password).
THEOREM OnlyStoredDelivered == Spec => []DeliveredIsStored
<1>1. Init => MailInv
  BY DEF Init, MailInv
<1>2. IInv /\ MailInv => DeliveredIsStored
  BY DEF IInv, RowLocks, RowsInv, MailInv, DeliveredIsStored
<1> QED
  BY <1>1, <1>2, MailStep, Initially, InvStep, PTL DEF Spec

----------------------------------------------------------------------------
(* Revocations.                                                            *)

RevokesFamily(x) == req[x].op \in {"logout", "reuse"}

\* While a revocation of a family has skipped no row and nobody retired a row it
\* still has to reach, it has or will have every live row of the family; once it
\* committed, what it revoked has no live relative.
CleanBy(x) ==
  /\ pc[x] = "issue" => req[x].op = "login"
  /\ pc[x] \in {"rotate", "commit"} => req[x].op = "refresh"
  /\ RevokesFamily(x) => req[x].token \in refresh_tokens
  /\ /\ pc[x] = "update_rows" /\ RevokesFamily(x)
     /\ skipped[x] = {} /\ pending[x] \cap revoked = {}
     => \A t \in Live : family_id[t] = family_id[req[x].token]
                          => t \in pending[x] \cup updated[x]
  /\ pc[x] = "reply" /\ req[x].op \in {"logout", "reuse", "reset"} =>
       \A s \in updated[x] : s \in refresh_tokens /\ Ended(family_id[s])
  /\ pc[x] = "reply" /\ RevokesFamily(x) /\ skipped[x] = {} =>
       Ended(family_id[req[x].token])

CleanInv == \A x \in Requests : CleanBy(x)

\* A row of ours that another transaction retires is one we have yet to reach.
LEMMA OthersReach ==
  ASSUME IInv, [Next]_vars, NEW x \in Requests, SameAll(x), CleanBy(x),
         pc[x] = "update_rows", RevokesFamily(x),
         skipped[x] = {}, pending[x] \cap revoked' = {},
         NEW t \in Live', family_id'[t] = family_id'[req[x].token]
  PROVE  t \in pending[x] \cup updated[x]
<1>1. TypeOK /\ RowsInv /\ HeldInv /\ ApartInv
  BY DEF IInv, TypeInv, RowLocks
<1>2. req[x].token \in refresh_tokens /\ pending[x] \cap revoked = {}
  BY RowsStay DEF CleanBy
<1>3. ASSUME t \in Live
      PROVE  t \in pending[x] \cup updated[x]
  <2>1. family_id[t] = family_id[req[x].token]
    BY <1>2, <1>3, RowsStay DEF Live
  <2> QED
    BY <1>2, <1>3, <2>1 DEF CleanBy
<1>4. ASSUME NEW y \in Requests, LoginIssue(y)
      PROVE  t \in pending[x] \cup updated[x]
  <2>1. PICK s \in Fresh : /\ refresh_tokens' = refresh_tokens \cup {s}
                           /\ family_id' = [family_id EXCEPT ![s] = s]
    BY <1>4 DEF LoginIssue
  <2>2. s \in Tokens /\ s \notin refresh_tokens /\ family_id'[s] = s
    BY <1>1, <2>1 DEF Fresh, TypeOK
  <2>3. family_id'[req[x].token] \in refresh_tokens
    BY <1>1, <1>2, RowsStay DEF RowsInv
  <2>4. t # s
    BY <2>2, <2>3
  <2>5. t \in Live
    BY <1>4, <2>1, <2>4 DEF Live, LoginIssue
  <2> QED
    BY <1>3, <2>5
<1>5. ASSUME NEW y \in Requests, RotateCommit(y)
      PROVE  t \in pending[x] \cup updated[x]
  <2>1. PICK p \in Live, s \in Tokens \ refresh_tokens :
          /\ pc[y] = "commit" /\ updated[y] = {p}
          /\ refresh_tokens' = refresh_tokens \cup {s}
          /\ family_id' = [family_id EXCEPT ![s] = family_id[p]]
          /\ revoked' = revoked \cup {p}
    BY <1>5, CommitHolds DEF RotateCommit
  <2>2. x # y
    BY <2>1
  <2>3. p \notin updated[x]
    BY <1>1, <2>1, <2>2 DEF ApartInv, Apart
  <2>4. p \notin pending[x]
    BY <2>1
  <2>5. family_id[p] # family_id[req[x].token]
    BY <1>2, <2>1, <2>3, <2>4 DEF CleanBy
  <2>6. family_id'[s] = family_id[p] /\ family_id'[req[x].token] = family_id[req[x].token]
    BY <1>1, <1>2, <2>1, RowsStay DEF TypeOK
  <2>7. t # s
    BY <2>5, <2>6
  <2>8. t \in Live
    BY <2>1, <2>7 DEF Live
  <2> QED
    BY <1>3, <2>8
<1>6. ASSUME NEW y \in Requests, RevokeCommit(y)
      PROVE  t \in Live
  BY <1>6 DEF RevokeCommit, Live
<1>7. CASE UNCHANGED tokenVars
  BY <1>3, <1>7 DEF tokenVars, Live
<1> QED
  BY <1>3, <1>4, <1>5, <1>6, <1>7, TokensChange

LEMMA CleanOthers ==
  ASSUME IInv, [Next]_vars, NEW x \in Requests, SameAll(x), CleanBy(x)
  PROVE  CleanBy(x)'
<1>1. RowsInv
  BY DEF IInv, RowLocks
<1>2. /\ pc'[x] = pc[x] /\ req'[x] = req[x] /\ pending'[x] = pending[x]
      /\ updated'[x] = updated[x] /\ skipped'[x] = skipped[x]
  BY DEF SameAll, Same
<1>3. \A f \in refresh_tokens : Ended(f) => Ended(f)'
  BY StepSimulates, EndedStep
<1>4. \A s \in refresh_tokens :
        /\ s \in refresh_tokens' /\ family_id'[s] = family_id[s]
        /\ Ended(family_id[s]) => Ended(family_id[s])'
  <2>1. \A s \in refresh_tokens : family_id[s] \in refresh_tokens
    BY <1>1 DEF RowsInv
  <2>2. \A s \in refresh_tokens :
          s \in refresh_tokens' /\ family_id'[s] = family_id[s]
    BY RowsStay
  <2> QED
    BY <1>3, <2>1, <2>2 DEF Ended
<1>5. ASSUME pc'[x] = "update_rows", RevokesFamily(x)',
             skipped'[x] = {}, pending'[x] \cap revoked' = {},
             NEW t \in Live', family_id'[t] = family_id'[req'[x].token]
      PROVE  t \in pending'[x] \cup updated'[x]
  BY <1>2, <1>5, OthersReach DEF RevokesFamily
<1>6. ASSUME pc'[x] = "reply", req'[x].op \in {"logout", "reuse", "reset"},
             NEW s \in updated'[x]
      PROVE  s \in refresh_tokens' /\ Ended(family_id[s])'
  BY <1>2, <1>4, <1>6 DEF CleanBy
<1>7. ASSUME pc'[x] = "reply", RevokesFamily(x)', skipped'[x] = {}
      PROVE  Ended(family_id[req[x].token])'
  <2>1. req[x].token \in refresh_tokens /\ Ended(family_id[req[x].token])
    BY <1>2, <1>7 DEF CleanBy, RevokesFamily
  <2> QED
    BY <1>2, <1>4, <2>1 DEF Ended
<1>8. RevokesFamily(x)' => req'[x].token \in refresh_tokens'
  BY <1>2, <1>4 DEF CleanBy, RevokesFamily
<1> QED
  BY <1>2, <1>5, <1>6, <1>7, <1>8 DEF CleanBy

LEMMA CleanArrive ==
  ASSUME IInv, NEW x \in Requests, Arrive(x)
  PROVE  CleanBy(x)'
<1>1. TypeOK /\ RowsInv
  BY DEF IInv, TypeInv, RowLocks
<1> DEFINE Clean == /\ pc'[x] \notin {"commit", "update_rows", "reply"}
                    /\ pc'[x] = "issue" => req'[x].op = "login"
                    /\ pc'[x] = "rotate" => req'[x].op = "refresh"
                    /\ req'[x].op \in {"logout", "reuse"} => req'[x].token \in refresh_tokens
<1>2. ASSUME NEW u \in Users, NEW p \in Passwords, LoginRead(x, u, p)
      PROVE  Clean
  <2>1. PICK n \in 0 .. clock : Begin(x, Ask("login", n, u, None, None, p), "issue")
    BY <1>2 DEF LoginRead
  <2> QED
    BY <1>1, <2>1 DEF Begin, Ask, TypeOK
<1>3. ASSUME NEW t \in Tokens, RefreshFetch(x, t)
      PROVE  Clean
  BY <1>1, <1>3 DEF RefreshFetch, Begin, Ask, TypeOK, RowsInv
<1>4. ASSUME NEW t \in Tokens, Logout(x, t)
      PROVE  Clean
  BY <1>1, <1>4 DEF Logout, Begin, Ask, TypeOK, RowsInv
<1>5. ASSUME NEW u \in Users, ForgotRead(x, u)
      PROVE  Clean
  <2>1. PICK n \in 0 .. clock : Begin(x, Ask("forgot", n, u, None, None, None), "forgot")
    BY <1>5 DEF ForgotRead
  <2> QED
    BY <1>1, <2>1 DEF Begin, Ask, TypeOK
<1>6. ASSUME NEW r \in ResetTokens, NEW p \in Passwords, ResetRead(x, r, p)
      PROVE  Clean
  <2>1. PICK n \in 0 .. clock :
          Begin(x, Ask("reset", n, reset_user[r], None, r, p), "hash")
    BY <1>6 DEF ResetRead
  <2> QED
    BY <1>1, <2>1 DEF Begin, Ask, TypeOK
<1>7. Clean
  BY <1>2, <1>3, <1>4, <1>5, <1>6 DEF Arrive
<1>8. refresh_tokens' = refresh_tokens
  BY ArriveBegins DEF Arrived, Begin, IInv, tokenVars
<1> QED
  BY <1>7, <1>8 DEF CleanBy, RevokesFamily

LEMMA CleanScan ==
  ASSUME IInv, NEW x \in Requests, Scan(x), CleanBy(x)
  PROVE  CleanBy(x)'
<1>1. TypeOK
  BY DEF IInv, TypeInv
<1>2. /\ pc'[x] = "update_rows" /\ req'[x] = req[x]
      /\ pending'[x] = {t \in Live : InScope(x, t)}
      /\ refresh_tokens' = refresh_tokens /\ family_id' = family_id /\ Live' = Live
  BY <1>1 DEF Scan, TypeOK, tokenVars, Live
<1>3. RevokesFamily(x) =>
        \A t \in Live : family_id[t] = family_id[req[x].token] => t \in pending'[x]
  BY <1>2 DEF InScope, RevokesFamily
<1> QED
  BY <1>2, <1>3 DEF CleanBy, RevokesFamily

LEMMA CleanUpdateRow ==
  ASSUME IInv, NEW x \in Requests, NEW t \in Tokens, UpdateRow(x, t), CleanBy(x)
  PROVE  CleanBy(x)'
<1>1. TypeOK
  BY DEF IInv, TypeInv
<1>2. /\ pc'[x] = "update_rows" /\ pc[x] = "update_rows" /\ req'[x] = req[x]
      /\ pending'[x] = pending[x] \ {t}
      /\ t \in revoked => skipped'[x] = skipped[x] \cup {t}
      /\ t \notin revoked => updated'[x] = updated[x] \cup {t} /\ skipped'[x] = skipped[x]
      /\ refresh_tokens' = refresh_tokens /\ family_id' = family_id /\ Live' = Live
      /\ revoked' = revoked
  BY <1>1 DEF UpdateRow, TypeOK, tokenVars, Live
<1>3. ASSUME RevokesFamily(x), skipped'[x] = {}, pending'[x] \cap revoked' = {},
             NEW s \in Live, family_id[s] = family_id[req[x].token]
      PROVE  s \in pending'[x] \cup updated'[x]
  <2>1. t \notin revoked
    BY <1>2, <1>3
  <2>2. skipped[x] = {} /\ pending[x] \cap revoked = {}
    BY <1>2, <1>3, <2>1
  <2>3. s \in pending[x] \cup updated[x]
    BY <1>2, <1>3, <2>2 DEF CleanBy
  <2> QED
    BY <1>2, <2>1, <2>3
<1> QED
  BY <1>2, <1>3 DEF CleanBy, RevokesFamily

LEMMA CleanCommit ==
  ASSUME IInv, OneLivePerFamily, NEW x \in Requests, RevokeCommit(x), CleanBy(x)
  PROVE  CleanBy(x)'
<1>1. TypeOK /\ HeldBy(x)
  BY DEF IInv, TypeInv, RowLocks, HeldInv
<1>2. /\ pc'[x] = "reply" /\ pc[x] = "update_rows" /\ pending[x] = {}
      /\ req'[x] = req[x] /\ updated'[x] = updated[x] /\ skipped'[x] = skipped[x]
      /\ refresh_tokens' = refresh_tokens /\ family_id' = family_id
      /\ Live' = Live \ updated[x]
  BY <1>1 DEF RevokeCommit, TypeOK, rowVars, Live
<1>3. \A s \in updated[x] : s \in refresh_tokens /\ Ended(family_id[s])'
  <2>1. updated[x] \subseteq Live
    BY <1>1, <1>2 DEF HeldBy
  <2>2. \A s \in updated[x] : \A t \in Live' : family_id'[t] # family_id[s]
    BY <1>2, <2>1 DEF OneLivePerFamily
  <2> QED
    BY <1>2, <2>1, <2>2 DEF Ended, Live
<1>4. RevokesFamily(x) /\ skipped[x] = {} => Ended(family_id[req[x].token])'
  BY <1>2 DEF CleanBy, Ended
<1> QED
  BY <1>2, <1>3, <1>4 DEF CleanBy, RevokesFamily, Ended

LEMMA CleanRest ==
  ASSUME IInv, [Next]_vars, NEW x \in Requests, CleanBy(x),
         \/ LoginIssue(x) \/ Rotate(x) \/ RotateCommit(x)
         \/ ForgotIssue(x) \/ Notify(x) \/ ResetPassword(x) \/ Reply(x)
         \/ Abort(x) \/ LoseReply(x)
  PROVE  CleanBy(x)'
<1>1. TypeOK
  BY DEF IInv, TypeInv
<1>2. refresh_tokens \subseteq refresh_tokens'
  BY RowsStay
<1>3. CASE Forget(x)
  BY <1>1, <1>3 DEF Forget, NoReq, Ask, TypeOK, CleanBy, RevokesFamily
<1>4. CASE LoginIssue(x)
  <2>1. pc'[x] = "reply" /\ req'[x] = req[x] /\ req[x].op = "login"
    BY <1>1, <1>4 DEF LoginIssue, TypeOK, CleanBy
  <2> QED
    BY <2>1 DEF CleanBy, RevokesFamily
<1>5. CASE Rotate(x) /\ ~Forget(x)
  <2>1. pc'[x] = "commit" /\ req'[x] = req[x] /\ req[x].op = "refresh"
    BY <1>1, <1>5 DEF Rotate, TypeOK, CleanBy
  <2> QED
    BY <2>1 DEF CleanBy, RevokesFamily
<1>6. CASE RotateCommit(x)
  <2>1. pc'[x] = "reply" /\ req'[x] = req[x] /\ req[x].op = "refresh"
    BY <1>1, <1>6 DEF RotateCommit, TypeOK, CleanBy
  <2> QED
    BY <2>1 DEF CleanBy, RevokesFamily
<1>7. CASE ForgotIssue(x)
  <2>1. pc'[x] = "notify" /\ req'[x].op = req[x].op /\ req'[x].token = req[x].token
    BY <1>1, <1>7 DEF ForgotIssue, TypeOK, Req
  <2> QED
    BY <1>2, <2>1 DEF CleanBy, RevokesFamily
<1>8. CASE ResetPassword(x)
  <2>1. pc'[x] = "scan" /\ req'[x] = req[x]
    BY <1>1, <1>8 DEF ResetPassword, TypeOK
  <2> QED
    BY <1>2, <2>1 DEF CleanBy, RevokesFamily
<1> QED
  BY <1>3, <1>4, <1>5, <1>6, <1>7, <1>8 DEF Notify, Reply, Abort, LoseReply

LEMMA CleanStep ==
  IInv /\ OneLivePerFamily /\ CleanInv /\ [Next]_vars => CleanInv'
<1> SUFFICES ASSUME IInv, OneLivePerFamily, CleanInv, [Next]_vars, NEW x \in Requests
             PROVE  CleanBy(x)'
  BY DEF CleanInv
<1>1. CleanBy(x)
  BY DEF CleanInv
<1>2. ASSUME Work(x)
      PROVE  CleanBy(x)'
  BY <1>1, <1>2, CleanScan, CleanUpdateRow, CleanCommit, CleanRest DEF Work
<1>3. ASSUME Abort(x) \/ LoseReply(x)
      PROVE  CleanBy(x)'
  BY <1>1, <1>3, CleanRest
<1>4. CASE SameAll(x)
  BY <1>1, <1>4, CleanOthers
<1> QED
  BY <1>2, <1>3, <1>4, CleanArrive, OneRequestMoves

\* When a revocation has committed, no session of which it retired a row is
\* alive, and a family revocation that skipped no row has ended its session
\* (revoke_live_tokens in tokens.rs).
THEOREM Revoked == Spec => []CleanRevocation
<1>1. Init => CleanInv
  BY DEF Init, NoReq, Ask, CleanInv, CleanBy, RevokesFamily
<1>2. CleanInv => CleanRevocation
  BY DEF CleanInv, CleanBy, RevokesFamily, CleanRevocation, Ended
<1>3. IInv /\ OneLivePerFamily /\ [Next]_vars => OneLivePerFamily'
  BY StepSimulates, OneLiveStep
<1> QED
  BY <1>1, <1>2, <1>3, CleanStep, Initially, InvStep, PTL DEF Spec

----------------------------------------------------------------------------
(* What revocations and resets hold.                                       *)

\* The rows of the snapshot of x.
Taken(x) == pending[x] \cup updated[x] \cup skipped[x]

\* A family revocation has at most one row to revoke, a reset only rows of its
\* user.
FlowBy(x) ==
  /\ pc[x] \in {"scan", "update_rows"} => req[x].op \in {"logout", "reuse", "reset"}
  /\ pc[x] = "hash" => req[x].op = "reset"
  /\ pc[x] \notin {"update_rows", "reply"} => skipped[x] = {}
  /\ pc[x] = "update_rows" =>
       /\ Taken(x) \subseteq refresh_tokens
       /\ pending[x] \cap (updated[x] \cup skipped[x]) = {}
       /\ RevokesFamily(x) => \A t, s \in Taken(x) : t = s
       /\ ~RevokesFamily(x) => \A t \in Taken(x) : user_id[t] = req[x].user

\* The first statement of a reset excludes other resets of the user.
UsersApart ==
  \A x, y \in Requests : x # y => \A u : ~(HoldsUser(x, u) /\ HoldsUser(y, u))

FlowInv == (\A x \in Requests : FlowBy(x)) /\ UsersApart

LEMMA ArriveFlow ==
  ASSUME IInv, NEW x \in Requests, Arrive(x)
  PROVE  /\ UNCHANGED <<tokenVars, resetVars, mailed>> /\ UNCHANGED rowVars
         /\ pc[x] = "idle" /\ pc'[x] \in {"issue", "rotate", "scan", "forgot", "hash"}
         /\ pc'[x] = "scan" => req'[x].op \in {"logout", "reuse"}
         /\ pc'[x] = "hash" => /\ req'[x].op = "reset"
                               /\ req'[x].reset \in mailed \ consumed
                               /\ req'[x].user = reset_user[req'[x].reset]
<1>1. TypeOK
  BY DEF IInv, TypeInv
<1>2. /\ UNCHANGED <<tokenVars, resetVars, mailed>> /\ UNCHANGED rowVars
      /\ pc[x] = "idle" /\ pc'[x] \in {"issue", "rotate", "scan", "forgot", "hash"}
  BY <1>1, ArriveBegins DEF Arrived, Begin, IInv, TypeOK, clientVars
<1>3. ASSUME NEW t \in Tokens, RefreshFetch(x, t) \/ Logout(x, t)
      PROVE  pc'[x] # "hash" /\ (pc'[x] = "scan" => req'[x].op \in {"logout", "reuse"})
  BY <1>1, <1>3 DEF RefreshFetch, Logout, Begin, Ask, TypeOK
<1>4. ASSUME NEW u \in Users,
             (\E p \in Passwords : LoginRead(x, u, p)) \/ ForgotRead(x, u)
      PROVE  pc'[x] \notin {"hash", "scan"}
  <2>1. pc'[x] \in {"issue", "forgot"}
    BY <1>1, <1>4 DEF LoginRead, ForgotRead, Begin, TypeOK
  <2> QED
    BY <2>1
<1>5. ASSUME NEW r \in ResetTokens, NEW p \in Passwords, ResetRead(x, r, p)
      PROVE  /\ pc'[x] = "hash" /\ req'[x].op = "reset" /\ req'[x].reset = r
             /\ r \in mailed \ consumed /\ req'[x].user = reset_user[r]
  <2>1. PICK n \in 0 .. clock :
          Begin(x, Ask("reset", n, reset_user[r], None, r, p), "hash")
    BY <1>5 DEF ResetRead
  <2>2. r \in mailed \ consumed
    BY <1>5 DEF ResetRead
  <2> QED
    BY <1>1, <2>1, <2>2 DEF Begin, Ask, TypeOK
<1> QED
  BY <1>2, <1>3, <1>4, <1>5 DEF Arrive

LEMMA FlowOthers ==
  ASSUME IInv, [Next]_vars, NEW x \in Requests, SameAll(x), FlowBy(x)
  PROVE  FlowBy(x)'
<1>1. /\ pc'[x] = pc[x] /\ req'[x] = req[x] /\ skipped'[x] = skipped[x]
      /\ pending'[x] = pending[x] /\ updated'[x] = updated[x]
  BY DEF SameAll, Same
<1>2. Taken(x)' = Taken(x) /\ RevokesFamily(x)' = RevokesFamily(x)
  BY <1>1 DEF Taken, RevokesFamily
<1>3. /\ refresh_tokens \subseteq refresh_tokens'
      /\ \A t \in refresh_tokens : user_id'[t] = user_id[t]
  BY RowsStay
<1> QED
  BY <1>1, <1>2, <1>3 DEF FlowBy

LEMMA FlowScan ==
  ASSUME IInv, OneLivePerFamily, NEW x \in Requests, Scan(x), FlowBy(x)
  PROVE  FlowBy(x)'
<1>1. TypeOK /\ HeldBy(x)
  BY DEF IInv, TypeInv, RowLocks, HeldInv
<1>2. /\ pc[x] = "scan" /\ pc'[x] = "update_rows" /\ req'[x] = req[x]
      /\ pending'[x] = {t \in Live : InScope(x, t)}
      /\ updated'[x] = updated[x] /\ skipped'[x] = skipped[x]
      /\ refresh_tokens' = refresh_tokens /\ user_id' = user_id
  BY <1>1 DEF Scan, TypeOK, tokenVars
<1>3. Taken(x)' = {t \in Live : InScope(x, t)} /\ updated'[x] = {} /\ skipped'[x] = {}
  BY <1>1, <1>2 DEF HeldBy, FlowBy, Taken
<1>4. RevokesFamily(x)' = RevokesFamily(x) /\ (RevokesFamily(x) => req[x].op # "reset")
  BY <1>2 DEF RevokesFamily
<1>5. RevokesFamily(x) => \A t, s \in Taken(x)' : t = s
  BY <1>3, <1>4 DEF InScope, OneLivePerFamily
<1>6. ~RevokesFamily(x) => \A t \in Taken(x)' : user_id[t] = req[x].user
  BY <1>2, <1>3 DEF InScope, FlowBy, RevokesFamily
<1>7. Taken(x)' \subseteq refresh_tokens
  BY <1>3 DEF Live
<1> QED
  BY <1>2, <1>3, <1>4, <1>5, <1>6, <1>7 DEF FlowBy

LEMMA FlowUpdateRow ==
  ASSUME IInv, NEW x \in Requests, NEW t \in Tokens, UpdateRow(x, t), FlowBy(x)
  PROVE  FlowBy(x)' /\ Taken(x)' = Taken(x)
<1>1. TypeOK
  BY DEF IInv, TypeInv
<1>2. /\ pc'[x] = "update_rows" /\ pc[x] = "update_rows" /\ req'[x] = req[x]
      /\ t \in pending[x] /\ pending'[x] = pending[x] \ {t}
      /\ \/ skipped'[x] = skipped[x] \cup {t} /\ updated'[x] = updated[x]
         \/ updated'[x] = updated[x] \cup {t} /\ skipped'[x] = skipped[x]
      /\ refresh_tokens' = refresh_tokens /\ user_id' = user_id
  BY <1>1 DEF UpdateRow, TypeOK, tokenVars
<1>3. Taken(x)' = Taken(x)
  BY <1>2 DEF Taken
<1> QED
  BY <1>2, <1>3 DEF FlowBy, RevokesFamily

LEMMA FlowRest ==
  ASSUME IInv, NEW x \in Requests, FlowBy(x),
         \/ LoginIssue(x) \/ Rotate(x) \/ RotateCommit(x) \/ RevokeCommit(x)
         \/ ForgotIssue(x) \/ Notify(x) \/ ResetPassword(x) \/ Reply(x)
         \/ Abort(x) \/ LoseReply(x)
  PROVE  FlowBy(x)'
<1>1. TypeOK
  BY DEF IInv, TypeInv
<1>2. CASE Forget(x)
  <2>1. pc'[x] = "idle" /\ skipped'[x] = {}
    BY <1>1, <1>2 DEF Forget, TypeOK
  <2> QED
    BY <2>1 DEF FlowBy
<1>3. CASE LoginIssue(x) \/ RotateCommit(x) \/ RevokeCommit(x)
  <2>1. pc'[x] = "reply"
    BY <1>1, <1>3 DEF LoginIssue, RotateCommit, RevokeCommit, TypeOK
  <2> QED
    BY <2>1 DEF FlowBy
<1>4. CASE Rotate(x) /\ ~Forget(x)
  <2>1. pc[x] = "rotate" /\ pc'[x] = "commit" /\ skipped'[x] = skipped[x]
    BY <1>1, <1>4 DEF Rotate, TypeOK
  <2> QED
    BY <2>1 DEF FlowBy
<1>5. CASE ForgotIssue(x)
  <2>1. pc[x] = "forgot" /\ pc'[x] = "notify" /\ skipped'[x] = skipped[x]
    BY <1>1, <1>5 DEF ForgotIssue, TypeOK, rowVars
  <2> QED
    BY <2>1 DEF FlowBy
<1>6. CASE ResetPassword(x)
  <2>1. pc[x] = "hash" /\ pc'[x] = "scan" /\ req'[x] = req[x] /\ skipped'[x] = skipped[x]
    BY <1>1, <1>6 DEF ResetPassword, TypeOK, rowVars
  <2> QED
    BY <2>1 DEF FlowBy
<1> QED
  BY <1>2, <1>3, <1>4, <1>5, <1>6 DEF Notify, Reply, Abort, LoseReply

\* A request gets the row of its user when it is free, and no other way.
LEMMA UserTaken ==
  ASSUME IInv, FlowInv, NEW x \in Requests, NEW u, HoldsUser(x, u)',
         Arrive(x) \/ Work(x) \/ Abort(x) \/ LoseReply(x)
  PROVE  HoldsUser(x, u) \/ UserFree(x, u)
<1>1. TypeOK
  BY DEF IInv, TypeInv
<1>2. req'[x].op = "reset" /\ req'[x].user = u /\ pc'[x] \in {"scan", "update_rows"}
  BY DEF HoldsUser
<1>3. ~Forget(x)
  BY <1>1, <1>2 DEF Forget, TypeOK
<1>4. ~Arrive(x)
  BY <1>2, ArriveFlow
<1>5. CASE ResetPassword(x)
  <2>1. req'[x] = req[x] /\ UserFree(x, req[x].user)
    BY <1>5 DEF ResetPassword
  <2> QED
    BY <1>2, <2>1
<1>6. CASE Scan(x) \/ \E t \in Tokens : UpdateRow(x, t)
  <2>1. req'[x] = req[x] /\ pc[x] \in {"scan", "update_rows"}
    BY <1>6 DEF Scan, UpdateRow
  <2> QED
    BY <1>2, <2>1 DEF HoldsUser
<1>7. CASE LoginIssue(x) \/ Rotate(x) \/ RotateCommit(x) \/ RevokeCommit(x) \/ ForgotIssue(x)
  <2>1. pc'[x] \in {"reply", "commit", "notify"}
    BY <1>1, <1>3, <1>7 DEF LoginIssue, Rotate, RotateCommit, RevokeCommit, ForgotIssue, TypeOK
  <2> QED
    BY <1>2, <2>1
<1> QED
  BY <1>3, <1>4, <1>5, <1>6, <1>7 DEF Work, Notify, Reply, Abort, LoseReply

LEMMA FlowStep ==
  IInv /\ OneLivePerFamily /\ FlowInv /\ [Next]_vars => FlowInv'
<1> SUFFICES ASSUME IInv, OneLivePerFamily, FlowInv, [Next]_vars
             PROVE  FlowInv'
  OBVIOUS
<1>1. ASSUME NEW x \in Requests
      PROVE  FlowBy(x)'
  <2>1. FlowBy(x)
    BY DEF FlowInv
  <2>2. CASE SameAll(x)
    BY <2>1, <2>2, FlowOthers
  <2>3. CASE Arrive(x)
    <3>1. skipped'[x] = skipped[x] /\ skipped[x] = {}
      BY <2>1, <2>3, ArriveFlow DEF FlowBy, rowVars
    <3> QED
      BY <2>3, <3>1, ArriveFlow DEF FlowBy
  <2>4. CASE Work(x) \/ Abort(x) \/ LoseReply(x)
    BY <2>1, <2>4, FlowScan, FlowUpdateRow, FlowRest DEF Work
  <2> QED
    BY <2>2, <2>3, <2>4, OneRequestMoves
<1>2. ASSUME NEW x \in Requests, NEW y \in Requests, x # y, NEW u,
             HoldsUser(x, u)', HoldsUser(y, u)'
      PROVE  FALSE
  <2>1. \A z \in Requests : SameAll(z) => (HoldsUser(z, u)' <=> HoldsUser(z, u))
    BY DEF SameAll, Same, HoldsUser
  <2>2. ~(HoldsUser(x, u) /\ HoldsUser(y, u))
    BY <1>2 DEF FlowInv, UsersApart
  <2>3. PICK z \in Requests : /\ Arrive(z) \/ Work(z) \/ Abort(z) \/ LoseReply(z)
                              /\ \A w \in Requests \ {z} : SameAll(w)
    BY <1>2, <2>1, <2>2, OneRequestMoves
  <2>4. \A w \in Requests \ {z} : HoldsUser(w, u)' <=> HoldsUser(w, u)
    BY <2>1, <2>3
  <2>5. CASE z = x
    BY <1>2, <2>2, <2>3, <2>4, <2>5, UserTaken DEF UserFree
  <2>6. CASE z = y
    BY <1>2, <2>2, <2>3, <2>4, <2>6, UserTaken DEF UserFree
  <2> QED
    BY <1>2, <2>2, <2>4, <2>5, <2>6
<1> QED
  BY <1>1, <1>2 DEF FlowInv, UsersApart

LEMMA FlowHolds == Spec => [](IInv /\ OneLivePerFamily /\ FlowInv)
<1>1. Init => FlowInv
  BY DEF Init, NoReq, Ask, FlowInv, FlowBy, UsersApart, HoldsUser
<1>2. IInv /\ OneLivePerFamily /\ [Next]_vars => OneLivePerFamily'
  BY StepSimulates, OneLiveStep
<1> QED
  BY <1>1, <1>2, FlowStep, Initially, InvStep, PTL DEF Spec

----------------------------------------------------------------------------
(* Waiting.                                                                *)

\* y holds a row that x waits for, or may come to wait for: rotate waits for the
\* presented row, a revocation for any row it has still to reach, a reset for
\* its user's row first.
Blocks(y, x) ==
  \/ pc[x] = "rotate" /\ req[x].token \in Locked(y)
  \/ pc[x] = "update_rows" /\ pending[x] \cap Locked(y) # {}
  \/ pc[x] = "hash" /\ HoldsUser(y, req[x].user)

NoDeadlock ==
  ~\E S \in SUBSET Requests :
     S # {} /\ \A x \in S : \E y \in S \ {x} : Blocks(y, x)

\* Of those who wait only a reset holds anything that others wait for.
LEMMA WaitersAreResets ==
  ASSUME FlowInv, NEW x \in Requests, NEW y \in Requests, NEW z \in Requests,
         Blocks(y, x), Blocks(z, y)
  PROVE  pc[y] = "update_rows" /\ req[y].op = "reset" /\ pending[y] \cap Locked(z) # {}
<1>1. FlowBy(y)
  BY DEF FlowInv
<1>2. Locked(y) # {} \/ \E u : HoldsUser(y, u)
  BY DEF Blocks
<1>3. pc[y] = "update_rows" /\ pending[y] \cap Locked(z) # {}
  BY <1>2 DEF Blocks, Locked, HoldsUser
<1>4. Locked(y) = updated[y] \cup skipped[y]
  BY <1>3 DEF Locked
<1>5. PICK t \in pending[y] : t \in Locked(z)
  BY <1>3
<1>6. ASSUME req[y].op # "reset"
      PROVE  FALSE
  <2>1. \A s \in Taken(y) : s = t
    BY <1>1, <1>3, <1>5, <1>6 DEF FlowBy, RevokesFamily, Taken
  <2>2. PICK s \in Locked(y) : TRUE
    BY <1>2, <1>6 DEF HoldsUser
  <2>3. t \in pending[y] /\ t \in updated[y] \cup skipped[y]
    BY <1>4, <1>5, <2>1, <2>2 DEF Taken
  <2> QED
    BY <1>1, <1>3, <2>3 DEF FlowBy
<1> QED
  BY <1>3, <1>6

\* No requests wait for one another in a cycle, however many there are and in
\* whatever order an UPDATE visits its rows: a family revocation that waits holds
\* nothing, as its family has one live row, and two resets of one user, the only
\* ones that want each other's rows, exclude each other first (tokens.rs, rotate,
\* apply_reset).  What remains is that every request ends (RequestsFinish).
THEOREM NobodyDeadlocks == Spec => []NoDeadlock
<1>1. ASSUME FlowInv
      PROVE  NoDeadlock
  <2> SUFFICES ASSUME NEW S \in SUBSET Requests, NEW x \in S,
                      \A v \in S : \E w \in S \ {v} : Blocks(w, v)
               PROVE  FALSE
    BY DEF NoDeadlock
  <2>1. PICK y \in S : Blocks(y, x)
    OBVIOUS
  <2>2. PICK z \in S \ {y} : Blocks(z, y)
    OBVIOUS
  <2>3. PICK w \in S : Blocks(w, z)
    OBVIOUS
  <2>4. pc[y] = "update_rows" /\ req[y].op = "reset" /\ pending[y] \cap Locked(z) # {}
    BY <1>1, <2>1, <2>2, WaitersAreResets
  <2>5. pc[z] = "update_rows" /\ req[z].op = "reset"
    BY <1>1, <2>2, <2>3, WaitersAreResets
  <2>6. PICK t \in pending[y] : t \in updated[z] \cup skipped[z]
    BY <2>4, <2>5 DEF Locked
  <2>7. user_id[t] = req[y].user /\ user_id[t] = req[z].user
    BY <1>1, <2>4, <2>5, <2>6 DEF FlowInv, FlowBy, Taken, RevokesFamily
  <2>8. HoldsUser(y, user_id[t]) /\ HoldsUser(z, user_id[t])
    BY <2>4, <2>5, <2>7 DEF HoldsUser
  <2> QED
    BY <1>1, <2>8 DEF FlowInv, UsersApart
<1> QED
  BY <1>1, FlowHolds, PTL

----------------------------------------------------------------------------
(* How much work is left.                                                  *)

\* At most so many steps of its own does a request still take.
StepsLeft(x) ==
  CASE pc[x] = "idle"        -> 0
    [] pc[x] = "reply"       -> 1
    [] pc[x] = "notify"      -> 1
    [] pc[x] = "commit"      -> 2
    [] pc[x] = "issue"       -> 2
    [] pc[x] = "forgot"      -> 2
    [] pc[x] = "rotate"      -> 3
    [] pc[x] = "update_rows" -> 2 + Cardinality(pending[x])
    [] pc[x] = "scan"        -> 3 + Cardinality(Tokens)
    [] pc[x] = "hash"        -> 4 + Cardinality(Tokens)

NoneTurnsBack ==
  \A x \in Requests : pc[x] # "idle" =>
    /\ StepsLeft(x)' <= StepsLeft(x)
    /\ Work(x) => StepsLeft(x)' < StepsLeft(x)

LEMMA FewPending ==
  ASSUME IsFiniteSet(Tokens), TypeInv, NEW x \in Requests
  PROVE  /\ IsFiniteSet(pending[x])
         /\ Cardinality(pending[x]) \in Nat
         /\ Cardinality(Tokens) \in Nat
         /\ Cardinality(pending[x]) <= Cardinality(Tokens)
<1>1. pending[x] \in SUBSET Tokens
  BY DEF TypeInv, TypeOK
<1> QED
  BY <1>1, FS_Subset, FS_CardinalityType

LEMMA StepsLeftType ==
  ASSUME IsFiniteSet(Tokens), TypeInv, NEW x \in Requests
  PROVE  StepsLeft(x) \in Nat /\ (pc[x] # "idle" => StepsLeft(x) > 0)
<1>1. pc[x] \in PC
  BY DEF TypeInv, TypeOK
<1> QED
  BY <1>1, FewPending DEF StepsLeft, PC

LEMMA WorkShortens ==
  ASSUME IsFiniteSet(Tokens), TypeInv, TypeInv', NEW x \in Requests, Work(x)
  PROVE  StepsLeft(x)' < StepsLeft(x)
<1> USE DEF StepsLeft
<1>1. TypeOK
  BY DEF TypeInv
<1>2. Cardinality(pending[x]) \in Nat /\ Cardinality(Tokens) \in Nat
  BY FewPending
<1>3. CASE LoginIssue(x) \/ ForgotIssue(x)
  BY <1>1, <1>3 DEF LoginIssue, ForgotIssue, TypeOK
<1>4. CASE Notify(x) \/ Reply(x)
  BY <1>1, <1>4 DEF Notify, Reply, Forget, TypeOK
<1>5. CASE Rotate(x)
  BY <1>1, <1>5 DEF Rotate, Forget, TypeOK
<1>6. CASE RotateCommit(x)
  BY <1>1, <1>6 DEF RotateCommit, TypeOK
<1>7. CASE Scan(x)
  <2>1. pending'[x] \in SUBSET Tokens
    BY DEF TypeInv, TypeOK
  <2>2. /\ Cardinality(pending'[x]) \in Nat
        /\ Cardinality(pending'[x]) <= Cardinality(Tokens)
    BY <2>1, FS_Subset, FS_CardinalityType
  <2>3. pc[x] = "scan" /\ pc'[x] = "update_rows"
    BY <1>1, <1>7 DEF Scan, TypeOK
  <2>4. /\ StepsLeft(x) = 3 + Cardinality(Tokens)
        /\ StepsLeft(x)' = 2 + Cardinality(pending'[x])
    BY <2>3
  <2> HIDE DEF StepsLeft
  <2> QED
    BY <1>2, <2>2, <2>4
<1>8. ASSUME NEW t \in Tokens, UpdateRow(x, t)
      PROVE  StepsLeft(x)' < StepsLeft(x)
  <2>1. pending'[x] = pending[x] \ {t} /\ t \in pending[x]
    BY <1>1, <1>8 DEF UpdateRow, TypeOK
  <2>2. Cardinality(pending'[x]) = Cardinality(pending[x]) - 1
    <3>1. IsFiniteSet(pending[x])
      BY FewPending
    <3>2. Cardinality(pending[x] \ {t}) = Cardinality(pending[x]) - 1
      BY <2>1, <3>1, FS_RemoveElement
    <3> QED
      BY <2>1, <3>2
  <2>3. pc[x] = "update_rows" /\ pc'[x] = "update_rows"
    BY <1>8 DEF UpdateRow
  <2>4. /\ StepsLeft(x) = 2 + Cardinality(pending[x])
        /\ StepsLeft(x)' = 2 + Cardinality(pending'[x])
    BY <2>3
  <2> HIDE DEF StepsLeft
  <2> QED
    BY <1>2, <2>2, <2>4
<1>9. CASE RevokeCommit(x)
  <2>1. pc[x] = "update_rows" /\ pc'[x] = "reply"
    BY <1>1, <1>9 DEF RevokeCommit, TypeOK
  <2> QED
    BY <1>2, <2>1
<1>10. CASE ResetPassword(x)
  BY <1>1, <1>2, <1>10 DEF ResetPassword, TypeOK
<1> QED
  BY <1>3, <1>4, <1>5, <1>6, <1>7, <1>8, <1>9, <1>10 DEF Work

\* A request never takes a step back and each step of its own brings it nearer
\* to its end: nothing in the flows retries, and an UPDATE visits each row of
\* its snapshot once (tokens.rs, rotate, apply_reset).  With NobodyDeadlocks it
\* is why every request ends (RequestsFinish) once it is given its turns.
THEOREM RequestsAdvance ==
  ASSUME IsFiniteSet(Tokens)
  PROVE  Spec => [][NoneTurnsBack]_vars
<1>1. ASSUME IInv, IInv', [Next]_vars
      PROVE  NoneTurnsBack
  <2> SUFFICES ASSUME NEW x \in Requests, pc[x] # "idle"
               PROVE  /\ StepsLeft(x)' <= StepsLeft(x)
                      /\ Work(x) => StepsLeft(x)' < StepsLeft(x)
    BY DEF NoneTurnsBack
  <2>1. TypeInv /\ TypeInv'
    BY <1>1 DEF IInv
  <2>2. StepsLeft(x) \in Nat /\ StepsLeft(x) > 0
    BY <2>1, StepsLeftType
  <2>3. Work(x) => StepsLeft(x)' < StepsLeft(x) /\ StepsLeft(x)' \in Nat
    <3> SUFFICES ASSUME Work(x)
                 PROVE  StepsLeft(x)' < StepsLeft(x) /\ StepsLeft(x)' \in Nat
      OBVIOUS
    <3>1. StepsLeft(x)' \in Nat
      <4>1. pc'[x] \in PC /\ pending'[x] \in SUBSET Tokens
        BY <2>1 DEF TypeInv, TypeOK
      <4>2. Cardinality(pending'[x]) \in Nat /\ Cardinality(Tokens) \in Nat
        BY <4>1, FS_Subset, FS_CardinalityType
      <4> QED
        BY <4>1, <4>2 DEF StepsLeft, PC
    <3> QED
      BY <3>1, <2>1, WorkShortens
  <2>4. CASE SameAll(x) \/ UNCHANGED vars
    <3>1. pc'[x] = pc[x] /\ pending'[x] = pending[x]
      BY <2>4 DEF SameAll, Same, vars, rowVars
    <3>2. StepsLeft(x)' = StepsLeft(x)
      BY <3>1 DEF StepsLeft
    <3> QED
      BY <2>2, <2>3, <3>2
  <2>5. CASE Abort(x) \/ LoseReply(x)
    <3>1. pc'[x] = "idle"
      BY <2>1, <2>5 DEF Abort, LoseReply, Forget, TypeInv, TypeOK
    <3>2. StepsLeft(x)' = 0
      BY <3>1 DEF StepsLeft
    <3> QED
      BY <2>2, <2>3, <3>2
  <2>6. ~Arrive(x)
    BY <2>1, ArriveBegins DEF Arrived, Begin
  <2> QED
    BY <1>1, <2>2, <2>3, <2>4, <2>5, <2>6, OneRequestMoves
<1> QED
  BY <1>1, FlowHolds, PTL DEF Spec

----------------------------------------------------------------------------
(* The races that break the documentation's claims, and that nothing else  *)
(* breaks them.                                                            *)

\* A reset commits while another one of the same token, which has found it
\* unconsumed, still waits for the user's row.
TwinReset(y, x) ==
  /\ pc[x] = "hash" /\ RevokeCommit(y)
  /\ req[y].op = "reset" /\ req[y].reset = req[x].reset

NoTwinReset == \A x, y \in Requests : ~TwinReset(y, x)

\* A reset under way has a token of its user that nobody has consumed.
ResetBy(x) ==
  req[x].op = "reset" /\ pc[x] \in {"hash", "scan", "update_rows"} =>
    /\ req[x].reset \in reset_tokens \ consumed
    /\ req[x].user = reset_user[req[x].reset]

ResetInv == \A x \in Requests : ResetBy(x)

\* Reset tokens are never deleted, change no user and are consumed by resets.
LEMMA ResetTokensChange ==
  ASSUME IInv, [Next]_vars
  PROVE  /\ reset_tokens \subseteq reset_tokens'
         /\ \A r \in reset_tokens : reset_user'[r] = reset_user[r]
         /\ \/ consumed' = consumed
            \/ \E y \in Requests : /\ RevokeCommit(y) /\ req[y].op = "reset"
                                   /\ consumed' = consumed \cup {req[y].reset}
<1>1. TypeOK
  BY DEF IInv, TypeInv
<1>2. CASE UNCHANGED vars \/ Tick \/ \E u \in Users, b \in BOOLEAN : SetActive(u, b)
  BY <1>2 DEF vars, Tick, SetActive, resetVars
<1>3. ASSUME NEW x \in Requests, Arrive(x)
      PROVE  UNCHANGED resetVars
  BY <1>3, ArriveFlow
<1>4. ASSUME NEW x \in Requests, ForgotIssue(x)
      PROVE  /\ reset_tokens \subseteq reset_tokens' /\ consumed' = consumed
             /\ \A r \in reset_tokens : reset_user'[r] = reset_user[r]
  BY <1>1, <1>4 DEF ForgotIssue, TypeOK
<1>5. ASSUME NEW x \in Requests, RevokeCommit(x)
      PROVE  /\ UNCHANGED <<reset_tokens, reset_user>>
             /\ \/ consumed' = consumed
                \/ req[x].op = "reset" /\ consumed' = consumed \cup {req[x].reset}
  BY <1>5 DEF RevokeCommit
<1>6. ASSUME NEW x \in Requests, Abort(x) \/ LoseReply(x)
      PROVE  UNCHANGED resetVars
  BY <1>6 DEF Abort, LoseReply
<1>7. ASSUME NEW x \in Requests, Work(x)
      PROVE  UNCHANGED resetVars \/ ForgotIssue(x) \/ RevokeCommit(x)
  BY <1>7 DEF Work, LoginIssue, Rotate, RotateCommit, Scan, UpdateRow, Notify, ResetPassword,
     Reply
<1>8. ASSUME UNCHANGED resetVars
      PROVE  UNCHANGED <<reset_tokens, reset_user, consumed>>
  BY <1>8 DEF resetVars
<1>9. CASE UNCHANGED resetVars
  BY <1>8, <1>9
<1>10. CASE \E x \in Requests : ForgotIssue(x)
  BY <1>4, <1>10
<1>11. CASE \E x \in Requests : RevokeCommit(x)
  BY <1>5, <1>11
<1> QED
  BY <1>2, <1>3, <1>6, <1>7, <1>8, <1>9, <1>10, <1>11 DEF Next

\* A reset goes on with what it read.
LEMMA ResetGoesOn ==
  ASSUME IInv, NEW x \in Requests, Work(x) \/ Abort(x) \/ LoseReply(x),
         req'[x].op = "reset", pc'[x] \in {"hash", "scan", "update_rows"}
  PROVE  req'[x] = req[x] /\ pc[x] \in {"hash", "scan", "update_rows"}
         /\ ~RevokeCommit(x)
<1>1. TypeOK
  BY DEF IInv, TypeInv
<1>2. ~Forget(x)
  BY <1>1 DEF Forget, TypeOK
<1>3. ~(LoginIssue(x) \/ Rotate(x) \/ RotateCommit(x) \/ RevokeCommit(x) \/ ForgotIssue(x))
  BY <1>1, <1>2 DEF LoginIssue, Rotate, RotateCommit, RevokeCommit, ForgotIssue, TypeOK
<1> QED
  BY <1>2, <1>3 DEF Work, Scan, UpdateRow, Notify, ResetPassword, Reply, Abort, LoseReply

LEMMA ResetStep ==
  IInv /\ FlowInv /\ MailInv /\ ResetInv /\ [Next]_vars /\ [NoTwinReset]_vars => ResetInv'
<1> SUFFICES ASSUME IInv, FlowInv, MailInv, ResetInv, [Next]_vars, [NoTwinReset]_vars,
                    NEW x \in Requests,
                    req'[x].op = "reset", pc'[x] \in {"hash", "scan", "update_rows"}
             PROVE  /\ req'[x].reset \in reset_tokens' \ consumed'
                    /\ req'[x].user = reset_user'[req'[x].reset]
  BY DEF ResetInv, ResetBy
<1>1. CASE Arrive(x)
  <2>1. UNCHANGED resetVars /\ pc'[x] = "hash"
    BY <1>1, ArriveFlow
  <2>2. /\ req'[x].reset \in mailed \ consumed
        /\ req'[x].user = reset_user[req'[x].reset]
    BY <1>1, <2>1, ArriveFlow
  <2> QED
    BY <2>1, <2>2 DEF MailInv, resetVars
<1>2. CASE SameAll(x) \/ Work(x) \/ Abort(x) \/ LoseReply(x)
  <2>1. req'[x] = req[x] /\ pc[x] \in {"hash", "scan", "update_rows"}
    BY <1>2, ResetGoesOn DEF SameAll, Same
  <2>2. /\ req[x].reset \in reset_tokens \ consumed
        /\ req[x].user = reset_user[req[x].reset]
    BY <2>1 DEF ResetInv, ResetBy
  <2>3. req[x].reset \notin consumed'
    <3>1. SUFFICES ASSUME NEW y \in Requests, RevokeCommit(y), req[y].op = "reset",
                          req[y].reset = req[x].reset
                   PROVE  FALSE
      BY <2>2, ResetTokensChange
    <3>2. pc[y] = "update_rows" /\ req[y].user = req[x].user
      BY <2>2, <3>1 DEF RevokeCommit, ResetInv, ResetBy
    <3>3. CASE x = y
      <4>1. pc'[x] = "reply"
        BY <3>1, <3>3 DEF RevokeCommit, IInv, TypeInv, TypeOK
      <4> QED
        BY <4>1
    <3>4. CASE x # y /\ pc[x] = "hash"
      <4>1. ~(UNCHANGED vars)
        BY <3>1, <3>2 DEF RevokeCommit, IInv, TypeInv, TypeOK, vars
      <4> QED
        BY <3>1, <3>4, <4>1 DEF NoTwinReset, TwinReset
    <3>5. CASE x # y /\ pc[x] \in {"scan", "update_rows"}
      <4>1. HoldsUser(x, req[x].user) /\ HoldsUser(y, req[x].user)
        BY <2>1, <3>1, <3>2, <3>5 DEF HoldsUser
      <4> QED
        BY <3>5, <4>1 DEF FlowInv, UsersApart
    <3> QED
      BY <2>1, <3>3, <3>4, <3>5
  <2> QED
    BY <2>1, <2>2, <2>3, ResetTokensChange
<1> QED
  BY <1>1, <1>2, OneRequestMoves

\* A reset token is consumed twice only if one reset commits between another's
\* lookup and its UPDATE of the user: nothing else, not a lost answer, a retry or
\* another user's reset, makes "consumes a valid token exactly once" untrue
\* (reset_password, apply_reset).
THEOREM OnlyTwinsConsumeTwice ==
  Spec /\ [][NoTwinReset]_vars => ResetTokenSingleUse
<1>1. Init => MailInv /\ ResetInv
  BY DEF Init, NoReq, Ask, MailInv, ResetInv, ResetBy
<1>2. ResetInv /\ [Next]_vars =>
        [\A x \in Requests :
           req[x].op = "reset" /\ pc[x] = "update_rows" /\ pc'[x] = "reply" =>
             req[x].reset \notin consumed]_vars
  BY DEF ResetInv, ResetBy
<1> QED
  BY <1>1, <1>2, ResetStep, MailStep, FlowHolds, PTL DEF Spec, ResetTokenSingleUse

\* The rows whose sessions a revocation is to end: logout and replay handling name
\* a family, a reset meets those of its snapshot.
Met(x) == IF RevokesFamily(x) THEN {req[x].token} ELSE Taken(x)

\* A rotation of such a session commits between the snapshot of the revocation
\* and its commit: the successor is a row that the UPDATE never sees.
Overtakes(y, x) ==
  /\ pc[x] = "update_rows" /\ RotateCommit(y)
  /\ \E t \in Met(x) : family_id[t] = family_id[req[y].token]

NoneOvertakes == \A x, y \in Requests : ~Overtakes(y, x)

\* Not overtaken, a revocation has or will have every live row of these sessions.
ReachBy(x) ==
  /\ pc[x] = "update_rows" =>
       \A t \in Met(x), s \in Live :
         family_id[s] = family_id[t] => s \in pending[x] \cup updated[x]
  /\ pc[x] = "reply" /\ req[x].op \in {"logout", "reuse", "reset"} =>
       \A t \in Met(x) : t \in refresh_tokens /\ Ended(family_id[t])

ReachInv == \A x \in Requests : ReachBy(x)

LEMMA MetRows ==
  ASSUME FlowInv, CleanInv, NEW x \in Requests, pc[x] = "update_rows"
  PROVE  Met(x) \subseteq refresh_tokens
BY DEF FlowInv, FlowBy, CleanInv, CleanBy, Met

LEMMA ReachOthers ==
  ASSUME IInv, FlowInv, CleanInv, NoneOvertakes, [Next]_vars,
         NEW x \in Requests, SameAll(x), ReachBy(x)
  PROVE  ReachBy(x)'
<1>1. TypeOK /\ RowsInv
  BY DEF IInv, TypeInv, RowLocks
<1>2. /\ pc'[x] = pc[x] /\ req'[x] = req[x] /\ Met(x)' = Met(x)
      /\ pending'[x] = pending[x] /\ updated'[x] = updated[x]
  BY DEF SameAll, Same, Met, Taken, RevokesFamily
<1>3. ASSUME pc[x] = "reply", NEW t \in refresh_tokens, Ended(family_id[t])
      PROVE  t \in refresh_tokens' /\ Ended(family_id[t])'
  <2>1. family_id[t] \in refresh_tokens
    BY <1>1 DEF RowsInv
  <2>2. Ended(family_id[t])' /\ family_id'[t] = family_id[t]
    BY <1>3, <2>1, RowsStay, StepSimulates, EndedStep DEF Ended
  <2> QED
    BY <2>2, RowsStay DEF Ended
<1>4. ASSUME pc[x] = "update_rows", NEW t \in Met(x), NEW s \in Live',
             family_id'[s] = family_id'[t]
      PROVE  s \in pending[x] \cup updated[x]
  <2>1. t \in refresh_tokens /\ family_id[t] \in refresh_tokens /\ family_id'[t] = family_id[t]
    BY <1>1, <1>4, MetRows, RowsStay DEF RowsInv
  <2>2. ASSUME s \in Live
        PROVE  s \in pending[x] \cup updated[x]
    <3>1. family_id'[s] = family_id[s]
      BY <2>2, RowsStay DEF Live
    <3> QED
      BY <1>4, <2>1, <2>2, <3>1 DEF ReachBy
  <2>3. ASSUME NEW y \in Requests, LoginIssue(y)
        PROVE  s \in Live
    <3>1. PICK n \in Fresh : /\ refresh_tokens' = refresh_tokens \cup {n}
                             /\ family_id' = [family_id EXCEPT ![n] = n]
      BY <2>3 DEF LoginIssue
    <3>2. family_id'[n] = n /\ n \notin refresh_tokens
      BY <1>1, <3>1 DEF Fresh, TypeOK
    <3>3. s # n
      BY <1>4, <2>1, <3>2
    <3> QED
      BY <2>3, <3>1, <3>3 DEF LoginIssue, Live
  <2>4. ASSUME NEW y \in Requests, RotateCommit(y)
        PROVE  s \in Live
    <3>1. PICK n \in Tokens \ refresh_tokens :
            /\ refresh_tokens' = refresh_tokens \cup {n}
            /\ family_id' = [family_id EXCEPT ![n] = family_id[req[y].token]]
            /\ revoked \subseteq revoked'
      BY <2>4, CommitHolds, RowsStay DEF RotateCommit
    <3>2. family_id'[n] = family_id[req[y].token]
      BY <1>1, <3>1 DEF TypeOK
    <3>3. family_id[t] # family_id[req[y].token]
      BY <1>4, <2>4 DEF NoneOvertakes, Overtakes
    <3>4. s # n
      BY <1>4, <2>1, <3>2, <3>3
    <3> QED
      BY <3>1, <3>4 DEF Live
  <2>5. ASSUME NEW y \in Requests, RevokeCommit(y)
        PROVE  s \in Live
    BY <2>5 DEF RevokeCommit, Live
  <2>6. CASE UNCHANGED tokenVars
    BY <2>2, <2>6 DEF tokenVars, Live
  <2> QED
    BY <2>2, <2>3, <2>4, <2>5, <2>6, TokensChange
<1>5. pc'[x] = "update_rows" =>
        \A t \in Met(x)', s \in Live' :
          family_id'[s] = family_id'[t] => s \in pending'[x] \cup updated'[x]
  BY <1>2, <1>4
<1>6. pc'[x] = "reply" /\ req'[x].op \in {"logout", "reuse", "reset"} =>
        \A t \in Met(x)' : t \in refresh_tokens' /\ Ended(family_id[t])'
  BY <1>2, <1>3 DEF ReachBy
<1> QED
  BY <1>5, <1>6 DEF ReachBy

LEMMA ReachScan ==
  ASSUME IInv, OneLivePerFamily, FlowInv, NEW x \in Requests, Scan(x)
  PROVE  ReachBy(x)'
<1>1. TypeOK /\ HeldBy(x) /\ FlowBy(x)
  BY DEF IInv, TypeInv, RowLocks, HeldInv, FlowInv
<1>2. /\ pc[x] = "scan" /\ pc'[x] = "update_rows" /\ req'[x] = req[x]
      /\ pending'[x] = {t \in Live : InScope(x, t)}
      /\ updated'[x] = {} /\ skipped'[x] = {}
      /\ family_id' = family_id /\ Live' = Live
  BY <1>1 DEF Scan, HeldBy, FlowBy, TypeOK, tokenVars, Live
<1>3. CASE RevokesFamily(x)
  <2>1. Met(x)' = {req[x].token} /\ req[x].op # "reset"
    BY <1>2, <1>3 DEF Met, RevokesFamily
  <2>2. \A s \in Live : family_id[s] = family_id[req[x].token] => s \in pending'[x]
    BY <1>2, <2>1 DEF InScope
  <2> QED
    BY <1>2, <2>1, <2>2 DEF ReachBy
<1>4. CASE ~RevokesFamily(x)
  <2>1. Met(x)' = pending'[x]
    BY <1>2, <1>4 DEF Met, RevokesFamily, Taken
  <2>2. \A t \in pending'[x], s \in Live : family_id[s] = family_id[t] => s \in pending'[x]
    BY <1>2 DEF OneLivePerFamily
  <2> QED
    BY <1>2, <2>1, <2>2 DEF ReachBy
<1> QED
  BY <1>3, <1>4

LEMMA ReachUpdateRow ==
  ASSUME IInv, FlowInv, NEW x \in Requests, NEW t \in Tokens, UpdateRow(x, t), ReachBy(x)
  PROVE  ReachBy(x)'
<1>1. TypeOK /\ FlowBy(x)
  BY DEF IInv, TypeInv, FlowInv
<1>2. /\ pc'[x] = "update_rows" /\ pc[x] = "update_rows" /\ req'[x] = req[x]
      /\ pending'[x] = pending[x] \ {t}
      /\ t \notin revoked => updated'[x] = updated[x] \cup {t}
      /\ updated[x] \subseteq updated'[x]
      /\ family_id' = family_id /\ Live' = Live
  BY <1>1 DEF UpdateRow, TypeOK, tokenVars, Live
<1>3. Met(x)' = Met(x)
  BY <1>1, <1>2, FlowUpdateRow DEF Met, RevokesFamily
<1>4. \A s \in Live : s \in pending[x] \cup updated[x] => s \in pending'[x] \cup updated'[x]
  BY <1>2 DEF Live
<1> QED
  BY <1>2, <1>3, <1>4 DEF ReachBy

LEMMA ReachCommit ==
  ASSUME IInv, FlowInv, CleanInv, NEW x \in Requests, RevokeCommit(x), ReachBy(x)
  PROVE  ReachBy(x)'
<1>1. TypeOK
  BY DEF IInv, TypeInv
<1>2. /\ pc'[x] = "reply" /\ pc[x] = "update_rows" /\ pending[x] = {}
      /\ refresh_tokens' = refresh_tokens /\ family_id' = family_id
      /\ Live' = Live \ updated[x] /\ Met(x)' = Met(x)
  BY <1>1 DEF RevokeCommit, TypeOK, rowVars, Live, Met, RevokesFamily, Taken
<1>3. \A t \in Met(x), s \in Live' : family_id[s] # family_id[t]
  BY <1>2 DEF ReachBy
<1> QED
  BY <1>2, <1>3, MetRows DEF ReachBy, Ended

LEMMA ReachRest ==
  ASSUME IInv, CleanInv, NEW x \in Requests,
         \/ LoginIssue(x) \/ Rotate(x) \/ RotateCommit(x)
         \/ ForgotIssue(x) \/ Notify(x) \/ ResetPassword(x) \/ Reply(x)
         \/ Abort(x) \/ LoseReply(x)
  PROVE  ReachBy(x)'
<1>1. TypeOK /\ CleanBy(x)
  BY DEF IInv, TypeInv, CleanInv
<1>2. CASE Forget(x)
  <2>1. pc'[x] = "idle"
    BY <1>1, <1>2 DEF Forget, TypeOK
  <2> QED
    BY <2>1 DEF ReachBy
<1>3. CASE LoginIssue(x) \/ RotateCommit(x)
  <2>1. pc'[x] = "reply" /\ req'[x] = req[x] /\ req[x].op \in {"login", "refresh"}
    BY <1>1, <1>3 DEF LoginIssue, RotateCommit, TypeOK, CleanBy
  <2> QED
    BY <2>1 DEF ReachBy
<1>4. CASE ~Forget(x) /\ (Rotate(x) \/ ForgotIssue(x) \/ ResetPassword(x))
  <2>1. pc'[x] \in {"commit", "notify", "scan"}
    BY <1>1, <1>4 DEF Rotate, ForgotIssue, ResetPassword, TypeOK
  <2> QED
    BY <2>1 DEF ReachBy
<1> QED
  BY <1>2, <1>3, <1>4 DEF Notify, Reply, Abort, LoseReply

LEMMA ReachStep ==
  /\ IInv /\ OneLivePerFamily /\ FlowInv /\ CleanInv /\ ReachInv
  /\ [Next]_vars /\ [NoneOvertakes]_vars
  => ReachInv'
<1> SUFFICES ASSUME IInv, OneLivePerFamily, FlowInv, CleanInv, ReachInv,
                    [Next]_vars, [NoneOvertakes]_vars, NEW x \in Requests
             PROVE  ReachBy(x)'
  BY DEF ReachInv
<1>1. ReachBy(x)
  BY DEF ReachInv
<1>2. CASE UNCHANGED vars
  BY <1>1, <1>2 DEF vars, tokenVars, rowVars, ReachBy, Met, Taken, RevokesFamily, Live, Ended
<1>3. CASE NoneOvertakes /\ SameAll(x)
  BY <1>1, <1>3, ReachOthers
<1>4. CASE Arrive(x)
  <2>1. pc'[x] \in {"issue", "rotate", "scan", "forgot", "hash"}
    BY <1>4, ArriveFlow
  <2> QED
    BY <2>1 DEF ReachBy
<1>5. CASE Work(x) \/ Abort(x) \/ LoseReply(x)
  BY <1>1, <1>5, ReachScan, ReachUpdateRow, ReachCommit, ReachRest DEF Work
<1> QED
  BY <1>2, <1>3, <1>4, <1>5, OneRequestMoves

\* Of the sessions that logout, replay handling or a reset met, in its family or its
\* snapshot, one outlives it only if a rotation of that session commits between the
\* snapshot of the UPDATE and its commit (logout.rs, revoke_family in refresh.rs,
\* apply_reset in reset.rs).  A session that a reset never met is the next theorem's.
THEOREM OnlyRotationsOvertake ==
  Spec /\ [][NoneOvertakes]_vars => []RevocationEndsSessions
<1>1. Init => CleanInv /\ ReachInv
  BY DEF Init, NoReq, Ask, CleanInv, CleanBy, RevokesFamily, ReachInv, ReachBy
<1>2. ReachInv => RevocationEndsSessions
  BY DEF ReachInv, ReachBy, Met, Taken, RevokesFamily, RevocationEndsSessions
<1> QED
  BY <1>1, <1>2, CleanStep, ReachStep, FlowHolds, PTL DEF Spec

----------------------------------------------------------------------------
(* What a reset leaves alive.                                              *)

\* The user whose session a step makes live: a login's, or a rotation's.
SessionOf(y) == IF pc[y] = "issue" THEN req[y].user ELSE user_id[req[y].token]

\* A login or a rotation of the user's commits between the snapshot of a reset and
\* its commit.
SlipsIn(y, x) ==
  /\ req[x].op = "reset" /\ pc[x] = "update_rows"
  /\ LoginIssue(y) \/ RotateCommit(y)
  /\ SessionOf(y) = req[x].user

NoneSlipsIn == \A x, y \in Requests : ~SlipsIn(y, x)

\* Otherwise the reset has or will have every live row of the user.
AllMetBy(x) ==
  req[x].op = "reset" /\ pc[x] = "update_rows" =>
    \A s \in Live : user_id[s] = req[x].user => s \in pending[x] \cup updated[x]

AllMetInv == \A x \in Requests : AllMetBy(x)

\* A step that lets nobody slip in makes no row of the user live.
LEMMA NoNewSession ==
  ASSUME IInv, [Next]_vars, [NoneSlipsIn]_vars, NEW x \in Requests,
         req[x].op = "reset", pc[x] = "update_rows",
         NEW s \in Live', user_id'[s] = req[x].user
  PROVE  s \in Live /\ user_id[s] = req[x].user
<1>1. TypeOK
  BY DEF IInv, TypeInv
<1>2. s \in Live => user_id'[s] = user_id[s]
  BY RowsStay DEF Live
<1>3. ASSUME NEW y \in Requests, LoginIssue(y)
      PROVE  s \in Live
  <2>1. PICK n \in Fresh : /\ refresh_tokens' = refresh_tokens \cup {n}
                           /\ user_id' = [user_id EXCEPT ![n] = req[y].user]
    BY <1>3 DEF LoginIssue
  <2>2. user_id'[n] = req[y].user /\ revoked' = revoked /\ pc'[y] # pc[y]
    BY <1>1, <1>3, <2>1 DEF LoginIssue, Fresh, TypeOK
  <2>3. req[y].user # req[x].user
    BY <1>3, <2>2 DEF NoneSlipsIn, SlipsIn, SessionOf, LoginIssue, vars
  <2> QED
    BY <2>1, <2>2, <2>3 DEF Live
<1>4. ASSUME NEW y \in Requests, RotateCommit(y)
      PROVE  s \in Live
  <2>1. PICK n \in Tokens \ refresh_tokens :
          /\ refresh_tokens' = refresh_tokens \cup {n}
          /\ user_id' = [user_id EXCEPT ![n] = user_id[req[y].token]]
          /\ revoked \subseteq revoked'
    BY <1>4, CommitHolds, RowsStay DEF RotateCommit
  <2>2. user_id'[n] = user_id[req[y].token] /\ pc[y] = "commit" /\ pc'[y] # pc[y]
    BY <1>1, <1>4, <2>1 DEF RotateCommit, TypeOK
  <2>3. user_id[req[y].token] # req[x].user
    BY <1>4, <2>2 DEF NoneSlipsIn, SlipsIn, SessionOf, vars
  <2> QED
    BY <2>1, <2>2, <2>3 DEF Live
<1>5. ASSUME NEW y \in Requests, RevokeCommit(y)
      PROVE  s \in Live
  BY <1>5 DEF RevokeCommit, Live
<1>6. CASE UNCHANGED tokenVars
  BY <1>2, <1>6 DEF tokenVars, Live
<1> QED
  BY <1>2, <1>3, <1>4, <1>5, <1>6, TokensChange

LEMMA AllMetStep ==
  IInv /\ FlowInv /\ AllMetInv /\ [Next]_vars /\ [NoneSlipsIn]_vars => AllMetInv'
<1> SUFFICES ASSUME IInv, FlowInv, AllMetInv, [Next]_vars, [NoneSlipsIn]_vars,
                    NEW x \in Requests, req'[x].op = "reset", pc'[x] = "update_rows",
                    NEW s \in Live', user_id'[s] = req'[x].user
             PROVE  s \in pending'[x] \cup updated'[x]
  BY DEF AllMetInv, AllMetBy
<1>1. TypeOK
  BY DEF IInv, TypeInv
<1>2. CASE SameAll(x)
  <2>1. /\ req'[x] = req[x] /\ pc[x] = "update_rows"
        /\ pending'[x] = pending[x] /\ updated'[x] = updated[x]
    BY <1>2 DEF SameAll, Same
  <2>2. s \in Live /\ user_id[s] = req[x].user
    BY <2>1, NoNewSession
  <2> QED
    BY <2>1, <2>2 DEF AllMetInv, AllMetBy
<1>3. CASE Arrive(x)
  BY <1>3, ArriveFlow
<1>4. CASE Scan(x)
  BY <1>1, <1>4 DEF Scan, InScope, tokenVars, Live, TypeOK
<1>5. ASSUME NEW t \in Tokens, UpdateRow(x, t)
      PROVE  s \in pending'[x] \cup updated'[x]
  <2>1. s \in Live /\ user_id[s] = req[x].user /\ req'[x] = req[x] /\ pc[x] = "update_rows"
    BY <1>5 DEF UpdateRow, tokenVars, Live
  <2>2. s \in pending[x] \cup updated[x]
    BY <2>1 DEF AllMetInv, AllMetBy
  <2> QED
    BY <1>1, <1>5, <2>1, <2>2 DEF UpdateRow, Live, TypeOK
<1>6. CASE Work(x) \/ Abort(x) \/ LoseReply(x)
  <2>1. ~RevokeCommit(x) /\ ~Forget(x)
    BY <1>1, <1>6, ResetGoesOn DEF Forget, TypeOK
  <2>2. ~(LoginIssue(x) \/ Rotate(x) \/ RotateCommit(x) \/ ForgotIssue(x) \/ ResetPassword(x))
    BY <1>1, <2>1 DEF LoginIssue, Rotate, RotateCommit, ForgotIssue, ResetPassword, TypeOK
  <2> QED
    BY <1>4, <1>5, <1>6, <2>1, <2>2 DEF Work, Notify, Reply, Abort, LoseReply
<1> QED
  BY <1>2, <1>3, <1>6, OneRequestMoves

\* At the instant a reset changes the password its user has no live token, unless a
\* login or a rotation of that user committed between the snapshot of apply_reset's
\* UPDATE and this commit: nothing else, not an aborted, repeated or concurrent
\* logout, replay or reset, makes "existing sessions cannot outlive the credential
\* change" untrue (reset.rs).
THEOREM OnlyOvertakersOutliveReset ==
  Spec /\ [][NoneSlipsIn]_vars => ResetEndsEverySession
<1>1. Init => AllMetInv
  BY DEF Init, AllMetInv, AllMetBy
<1>2. IInv /\ AllMetInv /\ [Next]_vars =>
        [\A x \in Requests :
           req[x].op = "reset" /\ pc[x] = "update_rows" /\ pc'[x] = "reply" =>
             \A t \in Live' : user_id[t] # req[x].user]_vars
  <2> SUFFICES ASSUME IInv, AllMetInv, [Next]_vars, NEW x \in Requests,
                      req[x].op = "reset", pc[x] = "update_rows", pc'[x] = "reply",
                      NEW t \in Live', user_id[t] = req[x].user
               PROVE  FALSE
    OBVIOUS
  <2>1. TypeOK
    BY DEF IInv, TypeInv
  <2>2. CASE RevokeCommit(x)
    <3>1. t \in Live /\ t \notin updated[x] /\ pending[x] = {}
      BY <2>2 DEF RevokeCommit, Live
    <3> QED
      BY <3>1 DEF AllMetInv, AllMetBy
  <2>3. CASE ~RevokeCommit(x) /\ (Work(x) \/ Abort(x) \/ LoseReply(x))
    <3>1. ~Forget(x)
      BY <2>1 DEF Forget, TypeOK
    <3>2. ~(LoginIssue(x) \/ Rotate(x) \/ RotateCommit(x) \/ ForgotIssue(x) \/ ResetPassword(x))
      BY DEF LoginIssue, Rotate, RotateCommit, ForgotIssue, ResetPassword
    <3>3. ~Scan(x) /\ \A s \in Tokens : ~UpdateRow(x, s)
      BY DEF Scan, UpdateRow
    <3> QED
      BY <2>3, <3>1, <3>2, <3>3 DEF Work, Notify, Reply, Abort, LoseReply
  <2>4. CASE Arrive(x)
    BY <2>4, ArriveFlow
  <2>5. CASE SameAll(x)
    BY <2>5 DEF SameAll, Same
  <2> QED
    BY <2>2, <2>3, <2>4, <2>5, OneRequestMoves
<1> QED
  BY <1>1, <1>2, AllMetStep, FlowHolds, PTL DEF Spec, ResetEndsEverySession
===============================================================================
