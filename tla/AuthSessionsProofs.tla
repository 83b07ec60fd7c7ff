------------------------- MODULE AuthSessionsProofs -------------------------
(***************************************************************************)
(* For every set of users, tokens and concurrent requests, whatever the    *)
(* clock and the lifetimes: families have at most one live token, an ended *)
(* session stays ended, and the flows implement SessionChains.             *)
(***************************************************************************)
EXTENDS AuthSessions, TLAPS

USE NoneAssumption

----------------------------------------------------------------------------
(* Typing.                                                                 *)

\* What a request names where its next step uses it.
Names(r, where) ==
  /\ where \in {"rotate", "commit"} => r.token \in Tokens
  /\ where = "notify" => r.reset \in ResetTokens
  /\ r.op = "reset" => r.reset \in ResetTokens /\ r.password \in Passwords

NamesInv ==
  \A x \in Requests :
    Names(req[x], pc[x]) /\ (pc[x] = "commit" => minted[x] \in Tokens)

TypeInv == TypeOK /\ NamesInv

LEMMA NoReqType == NoReq \in Req /\ \A where \in {"idle"} : Names(NoReq, where)
BY DEF NoReq, Ask, Req, Ops, Names

LEMMA BeginType ==
  ASSUME TypeInv, NEW x \in Requests, NEW r \in Req, NEW where \in PC,
         Begin(x, r, where), Names(r, where), where # "commit"
  PROVE  TypeInv'
<1> USE DEF Begin, userVars, tokenVars, resetVars, clientVars, rowVars
<1>1. TypeOK'
  BY DEF TypeInv, TypeOK
<1>2. NamesInv'
  BY DEF TypeInv, TypeOK, NamesInv
<1> QED
  BY <1>1, <1>2 DEF TypeInv

LEMMA ForgetType ==
  ASSUME TypeInv, NEW x \in Requests, Forget(x),
         UNCHANGED <<clock, userVars, tokenVars, resetVars>>,
         delivered' \in SUBSET Tokens, mailed' \in SUBSET ResetTokens
  PROVE  TypeInv'
<1> USE DEF Forget, userVars, tokenVars, resetVars
<1>1. TypeOK'
  BY NoReqType DEF TypeInv, TypeOK, PC
<1>2. NamesInv'
  BY NoReqType DEF TypeInv, TypeOK, NamesInv
<1> QED
  BY <1>1, <1>2 DEF TypeInv

\* An arriving request takes an idle slot, and one that rotates names a token
\* that was delivered.
Arrived(x) ==
  \E r \in Req, where \in {"issue", "rotate", "scan", "forgot", "hash"} :
    /\ Begin(x, r, where)
    /\ Names(r, where)
    /\ where = "rotate" => r.token \in delivered

LEMMA ArriveBegins ==
  ASSUME TypeInv, NEW x \in Requests, Arrive(x)
  PROVE  Arrived(x)
<1>1. ASSUME NEW u \in Users, NEW p \in Passwords, LoginRead(x, u, p)
      PROVE  Arrived(x)
  <2>1. PICK n \in 0 .. clock :
          Begin(x, Ask("login", n, u, None, None, p), "issue")
    BY <1>1 DEF LoginRead
  <2>2. Ask("login", n, u, None, None, p) \in Req
    BY DEF TypeInv, TypeOK, Ask, Req, Ops
  <2> QED
    BY <2>1, <2>2 DEF Arrived, Begin, Names, Ask
<1>2. ASSUME NEW t \in Tokens, RefreshFetch(x, t)
      PROVE  Arrived(x)
  <2>1. PICK n \in 0 .. clock :
          \/ Begin(x, Ask("reuse", n, None, t, None, None), "scan")
          \/ Begin(x, Ask("refresh", n, None, t, None, None), "rotate")
    BY <1>2 DEF RefreshFetch
  <2>2. /\ Ask("reuse", n, None, t, None, None) \in Req
        /\ Ask("refresh", n, None, t, None, None) \in Req
        /\ Ask("refresh", n, None, t, None, None).token = t
    BY DEF TypeInv, TypeOK, Ask, Req, Ops
  <2>3. t \in delivered
    BY <1>2 DEF RefreshFetch
  <2> QED
    BY <2>1, <2>2, <2>3 DEF Arrived, Begin, Names, Ask
<1>3. ASSUME NEW t \in Tokens, Logout(x, t)
      PROVE  Arrived(x)
  <2>1. PICK n \in 0 .. clock :
          Begin(x, Ask("logout", n, None, t, None, None), "scan")
    BY <1>3 DEF Logout
  <2>2. Ask("logout", n, None, t, None, None) \in Req
    BY DEF TypeInv, TypeOK, Ask, Req, Ops
  <2> QED
    BY <2>1, <2>2 DEF Arrived, Begin, Names, Ask
<1>4. ASSUME NEW u \in Users, ForgotRead(x, u)
      PROVE  Arrived(x)
  <2>1. PICK n \in 0 .. clock :
          Begin(x, Ask("forgot", n, u, None, None, None), "forgot")
    BY <1>4 DEF ForgotRead
  <2>2. Ask("forgot", n, u, None, None, None) \in Req
    BY DEF TypeInv, TypeOK, Ask, Req, Ops
  <2> QED
    BY <2>1, <2>2 DEF Arrived, Begin, Names, Ask
<1>5. ASSUME NEW r \in ResetTokens, NEW p \in Passwords, ResetRead(x, r, p)
      PROVE  Arrived(x)
  <2>1. PICK n \in 0 .. clock :
          Begin(x, Ask("reset", n, reset_user[r], None, r, p), "hash")
    BY <1>5 DEF ResetRead
  <2>2. Ask("reset", n, reset_user[r], None, r, p) \in Req
    BY DEF TypeInv, TypeOK, Ask, Req, Ops
  <2> QED
    BY <2>1, <2>2 DEF Arrived, Begin, Names, Ask
<1> QED
  BY <1>1, <1>2, <1>3, <1>4, <1>5 DEF Arrive

LEMMA ArriveType ==
  ASSUME TypeInv, NEW x \in Requests, Arrive(x)
  PROVE  TypeInv'
<1>1. PICK r \in Req, where \in {"issue", "rotate", "scan", "forgot", "hash"} :
        Begin(x, r, where) /\ Names(r, where)
  BY ArriveBegins DEF Arrived
<1>2. where \in PC /\ where # "commit"
  BY DEF PC
<1> QED
  BY <1>1, <1>2, BeginType

LEMMA WorkType ==
  ASSUME TypeInv, NEW x \in Requests, Work(x)
  PROVE  TypeInv'
<1>0. TypeOK /\ NamesInv
  BY DEF TypeInv
<1> USE DEF userVars, tokenVars, resetVars, clientVars, rowVars
<1>1. CASE LoginIssue(x)
  <2>1. PICK t \in Fresh :
          /\ refresh_tokens' = refresh_tokens \cup {t}
          /\ user_id' = [user_id EXCEPT ![t] = req[x].user]
          /\ family_id' = [family_id EXCEPT ![t] = t]
          /\ expires_at' = [expires_at EXCEPT ![t] = req[x].now + RefreshTTL]
          /\ minted' = [minted EXCEPT ![x] = t]
    BY <1>1 DEF LoginIssue
  <2>2. t \in Tokens /\ req[x].user \in Users \cup {None} /\ req[x].now + RefreshTTL \in Nat
    BY <1>0, TTLAssumption DEF Fresh, TypeOK, Req
  <2>3. TypeOK'
    BY <1>0, <1>1, <2>1, <2>2 DEF LoginIssue, TypeOK, PC
  <2>4. NamesInv'
    BY <1>0, <1>1, <2>1 DEF LoginIssue, TypeOK, NamesInv, Names
  <2> QED
    BY <2>3, <2>4 DEF TypeInv
<1>2. CASE Rotate(x)
  <2>1. CASE Forget(x)
    BY <1>0, <1>2, <2>1, ForgetType DEF Rotate, TypeOK
  <2>2. CASE ~Forget(x)
    <3>1. PICK s \in Fresh : minted' = [minted EXCEPT ![x] = s]
      BY <1>2, <2>2 DEF Rotate
    <3>2. s \in Tokens /\ req[x].token \in Tokens
      BY <1>0, <1>2 DEF Fresh, Rotate, NamesInv, Names
    <3>3. TypeOK'
      BY <1>0, <1>2, <2>2, <3>1, <3>2 DEF Rotate, TypeOK, PC
    <3>4. NamesInv'
      BY <1>0, <1>2, <2>2, <3>1, <3>2 DEF Rotate, TypeOK, NamesInv, Names
    <3> QED
      BY <3>3, <3>4 DEF TypeInv
  <2> QED
    BY <2>1, <2>2
<1>3. CASE RotateCommit(x)
  <2>1. /\ req[x].token \in Tokens /\ minted[x] \in Tokens
        /\ req[x].now + RefreshTTL \in Nat
    BY <1>0, <1>3, TTLAssumption DEF RotateCommit, NamesInv, Names, TypeOK, Req
  <2>2. TypeOK'
    BY <1>0, <1>3, <2>1 DEF RotateCommit, TypeOK, PC
  <2>3. NamesInv'
    BY <1>0, <1>3 DEF RotateCommit, TypeOK, NamesInv, Names
  <2> QED
    BY <2>2, <2>3 DEF TypeInv
<1>4. CASE Scan(x)
  <2>1. TypeOK'
    BY <1>0, <1>4 DEF Scan, TypeOK, PC, Live
  <2>2. NamesInv'
    BY <1>0, <1>4 DEF Scan, TypeOK, NamesInv, Names
  <2> QED
    BY <2>1, <2>2 DEF TypeInv
<1>5. ASSUME NEW t \in Tokens, UpdateRow(x, t)
      PROVE  TypeInv'
  <2>1. TypeOK'
    BY <1>0, <1>5 DEF UpdateRow, TypeOK
  <2>2. NamesInv'
    BY <1>0, <1>5 DEF UpdateRow, TypeOK, NamesInv, Names
  <2> QED
    BY <2>1, <2>2 DEF TypeInv
<1>6. CASE RevokeCommit(x)
  <2>1. req[x].op = "reset" => req[x].reset \in ResetTokens /\ req[x].password \in Passwords
    BY <1>0 DEF NamesInv, Names
  <2>2. TypeOK'
    BY <1>0, <1>6, <2>1 DEF RevokeCommit, TypeOK, PC
  <2>3. NamesInv'
    BY <1>0, <1>6 DEF RevokeCommit, TypeOK, NamesInv, Names
  <2> QED
    BY <2>2, <2>3 DEF TypeInv
<1>7. CASE ForgotIssue(x)
  <2>1. PICK r \in ResetTokens \ reset_tokens :
          /\ reset_tokens' = reset_tokens \cup {r}
          /\ reset_user' = [reset_user EXCEPT ![r] = req[x].user]
          /\ reset_expires' = [reset_expires EXCEPT ![r] = req[x].now + ResetTTL]
          /\ req' = [req EXCEPT ![x].reset = r]
    BY <1>7 DEF ForgotIssue
  <2>2. req[x].user \in Users \cup {None} /\ req[x].now + ResetTTL \in Nat
    BY <1>0, TTLAssumption DEF TypeOK, Req
  <2> DEFINE q == [req[x] EXCEPT !.reset = r]
  <2>0. req[x] \in Req => q \in Req
    BY DEF Req
  <2> HIDE DEF q
  <2>3. req' = [req EXCEPT ![x] = q] /\ req' \in [Requests -> Req]
    <3>1. req' = [req EXCEPT ![x] = q]
      BY <2>1 DEF q
    <3> QED
      BY <1>0, <2>0, <3>1 DEF TypeOK
  <2>4. TypeOK'
    BY <1>0, <1>7, <2>1, <2>2, <2>3 DEF ForgotIssue, TypeOK, PC
  <2>5. NamesInv'
    BY <1>0, <1>7, <2>1 DEF ForgotIssue, TypeOK, NamesInv, Names, Req
  <2> QED
    BY <2>4, <2>5 DEF TypeInv
<1>8. CASE Notify(x)
  <2>1. req[x].reset \in ResetTokens
    BY <1>0, <1>8 DEF Notify, NamesInv, Names
  <2> QED
    BY <1>0, <1>8, <2>1, ForgetType DEF Notify, TypeOK
<1>9. CASE ResetPassword(x)
  <2>1. TypeOK'
    BY <1>0, <1>9 DEF ResetPassword, TypeOK, PC
  <2>2. NamesInv'
    BY <1>0, <1>9 DEF ResetPassword, TypeOK, NamesInv, Names
  <2> QED
    BY <2>1, <2>2 DEF TypeInv
<1>10. CASE Reply(x)
  <2>1. delivered' \in SUBSET Tokens
    BY <1>0, <1>10 DEF Reply, TypeOK
  <2> QED
    BY <1>0, <1>10, <2>1, ForgetType DEF Reply, TypeOK
<1> QED
  BY <1>1, <1>2, <1>3, <1>4, <1>5, <1>6, <1>7, <1>8, <1>9, <1>10 DEF Work

LEMMA TypeStep == TypeInv /\ [Next]_vars => TypeInv'
<1> SUFFICES ASSUME TypeInv, [Next]_vars
             PROVE  TypeInv'
  OBVIOUS
<1> USE DEF userVars, tokenVars, resetVars, clientVars, rowVars
<1>1. CASE Tick
  <2>1. TypeOK' /\ NamesInv'
    BY <1>1 DEF Tick, TypeInv, TypeOK, NamesInv, Names
  <2> QED
    BY <2>1 DEF TypeInv
<1>2. ASSUME NEW x \in Requests, Arrive(x)
      PROVE  TypeInv'
  BY <1>2, ArriveType
<1>3. ASSUME NEW x \in Requests, Work(x)
      PROVE  TypeInv'
  BY <1>3, WorkType
<1>4. ASSUME NEW x \in Requests, Abort(x) \/ LoseReply(x)
      PROVE  TypeInv'
  BY <1>4, ForgetType DEF Abort, LoseReply, TypeInv, TypeOK
<1>5. ASSUME NEW u \in Users, NEW b \in BOOLEAN, SetActive(u, b)
      PROVE  TypeInv'
  <2>1. TypeOK' /\ NamesInv'
    BY <1>5 DEF SetActive, TypeInv, TypeOK, NamesInv, Names
  <2> QED
    BY <2>1 DEF TypeInv
<1>6. CASE UNCHANGED vars
  <2>1. TypeOK' /\ NamesInv'
    BY <1>6 DEF vars, TypeInv, TypeOK, NamesInv, Names
  <2> QED
    BY <2>1 DEF TypeInv
<1> QED
  BY <1>1, <1>2, <1>3, <1>4, <1>5, <1>6 DEF Next

LEMMA TypeInit == Init => TypeInv
<1> SUFFICES ASSUME Init
             PROVE  TypeOK /\ NamesInv
  BY DEF TypeInv
<1>1. TypeOK
  BY NoReqType DEF Init, TypeOK, PC
<1>2. NamesInv
  BY NoReqType DEF Init, NamesInv
<1> QED
  BY <1>1, <1>2

\* Every column and every request keeps its type: no flow stores a value that
\* its request does not name (login, refresh, logout and reset).
THEOREM TypeCorrect == Spec => []TypeOK
<1>1. TypeInv => TypeOK
  BY DEF TypeInv
<1> QED
  BY <1>1, TypeInit, TypeStep, PTL DEF Spec

----------------------------------------------------------------------------
(* The inductive invariant.                                                *)

\* Only rows are revoked or handed out, and every row is in the family of a row.
RowsInv ==
  /\ revoked \subseteq refresh_tokens
  /\ delivered \subseteq refresh_tokens
  /\ \A t \in refresh_tokens : family_id[t] \in refresh_tokens

\* What a request holds: the rows it has updated are live until it commits, and
\* its successor is a row of nobody until then.
HeldBy(x) ==
  /\ pc[x] \in {"rotate", "commit"} => req[x].token \in refresh_tokens
  /\ pc[x] = "commit" =>
       updated[x] = {req[x].token} /\ minted[x] \in Tokens \ refresh_tokens
  /\ pc[x] \in {"commit", "update_rows"} => updated[x] \subseteq Live
  /\ pc[x] \notin {"commit", "update_rows", "reply"} => updated[x] = {}
  /\ pc[x] \notin {"commit", "reply"} => minted[x] = None
  /\ pc[x] = "reply" => minted[x] \in refresh_tokens \cup {None}
  /\ pending[x] \subseteq refresh_tokens

HeldInv == \A x \in Requests : HeldBy(x)

\* No two transactions hold one row, or mint one token.
Apart(x, y) ==
  /\ pc[x] \in {"commit", "update_rows"} /\ pc[y] \in {"commit", "update_rows"} =>
       updated[x] \cap updated[y] = {}
  /\ pc[x] = "commit" /\ pc[y] = "commit" => minted[x] # minted[y]

ApartInv == \A x, y \in Requests : x # y => Apart(x, y)

RowLocks == RowsInv /\ HeldInv /\ ApartInv

IInv == TypeInv /\ RowLocks

\* What a step leaves alone of a request.
Same(y) ==
  /\ pc'[y] = pc[y] /\ req'[y] = req[y] /\ minted'[y] = minted[y]
  /\ pending'[y] = pending[y] /\ updated'[y] = updated[y]

LEMMA KeepRows ==
  ASSUME IInv, NEW x \in Requests,
         UNCHANGED <<refresh_tokens, family_id, revoked>>,
         delivered' \subseteq refresh_tokens,
         \A y \in Requests \ {x} : Same(y),
         HeldBy(x)',
         \A y \in Requests \ {x} : Apart(x, y)' /\ Apart(y, x)'
  PROVE  RowLocks'
<1>1. RowsInv'
  BY DEF IInv, RowLocks, RowsInv
<1>2. HeldInv'
  BY DEF IInv, RowLocks, HeldInv, HeldBy, Same, Live
<1>3. ApartInv'
  BY DEF IInv, RowLocks, ApartInv, Apart, Same
<1> QED
  BY <1>1, <1>2, <1>3 DEF RowLocks

\* A request that holds nothing after its step.
Unheld(x) ==
  /\ pc[x] \notin {"commit", "update_rows", "reply"}
  /\ pc[x] = "rotate" => req[x].token \in refresh_tokens
  /\ minted[x] = None /\ pending[x] \subseteq refresh_tokens /\ updated[x] = {}

LEMMA KeepUnheld ==
  ASSUME IInv, NEW x \in Requests,
         UNCHANGED <<refresh_tokens, family_id, revoked>>,
         delivered' \subseteq refresh_tokens,
         \A y \in Requests \ {x} : Same(y),
         Unheld(x)'
  PROVE  RowLocks'
<1>1. HeldBy(x)'
  BY DEF Unheld, HeldBy
<1>2. \A y \in Requests \ {x} : Apart(x, y)' /\ Apart(y, x)'
  BY DEF Unheld, Apart
<1> QED
  BY <1>1, <1>2, KeepRows

LEMMA KeepForget ==
  ASSUME IInv, NEW x \in Requests, Forget(x),
         UNCHANGED <<refresh_tokens, family_id, revoked>>,
         delivered' \subseteq refresh_tokens
  PROVE  RowLocks'
<1>1. Unheld(x)' /\ \A y \in Requests \ {x} : Same(y)
  BY DEF IInv, TypeInv, TypeOK, Forget, Unheld, Same
<1> QED
  BY <1>1, KeepUnheld

LEMMA ArriveLocks ==
  ASSUME IInv, NEW x \in Requests, Arrive(x)
  PROVE  RowLocks'
<1>1. TypeOK /\ RowsInv /\ HeldBy(x)
  BY DEF IInv, TypeInv, RowLocks, HeldInv
<1>2. PICK r \in Req, where \in {"issue", "rotate", "scan", "forgot", "hash"} :
        Begin(x, r, where) /\ (where = "rotate" => r.token \in delivered)
  BY ArriveBegins DEF Arrived, IInv
<1>3. /\ UNCHANGED <<refresh_tokens, family_id, revoked, delivered>>
      /\ \A y \in Requests \ {x} : Same(y)
  BY <1>1, <1>2 DEF Begin, TypeOK, Same, tokenVars, clientVars, rowVars
<1>4. Unheld(x)'
  BY <1>1, <1>2 DEF Begin, TypeOK, Unheld, HeldBy, RowsInv, tokenVars, rowVars
<1> QED
  BY <1>1, <1>3, <1>4, KeepUnheld DEF RowsInv

LEMMA LoginLocks ==
  ASSUME IInv, NEW x \in Requests, LoginIssue(x)
  PROVE  RowLocks' /\ \E t \in Tokens : Chains!Open(t)
<1>1. TypeOK /\ RowsInv /\ HeldInv /\ ApartInv
  BY DEF IInv, TypeInv, RowLocks
<1>2. PICK t \in Fresh :
        /\ refresh_tokens' = refresh_tokens \cup {t}
        /\ family_id' = [family_id EXCEPT ![t] = t]
        /\ minted' = [minted EXCEPT ![x] = t]
  BY DEF LoginIssue
<1>3. t \in Tokens \ refresh_tokens /\ \A y \in Requests : minted[y] # t
  BY DEF Fresh
<1>4. /\ revoked' = revoked /\ delivered' = delivered /\ pc[x] = "issue" /\ pc'[x] = "reply"
      /\ Live' = Live \cup {t}
  BY <1>1, <1>2, <1>3 DEF LoginIssue, clientVars, TypeOK, Live, RowsInv
<1>5. \A y \in Requests \ {x} : Same(y)
  BY <1>1, <1>2 DEF LoginIssue, TypeOK, Same
<1>6. RowsInv'
  BY <1>1, <1>2, <1>3, <1>4 DEF RowsInv, TypeOK
<1>7. HeldBy(x)'
  BY <1>1, <1>2, <1>3, <1>4 DEF HeldInv, HeldBy, LoginIssue, TypeOK
<1>8. ASSUME NEW y \in Requests \ {x}
      PROVE  HeldBy(y)'
  <2>1. HeldBy(y) /\ Same(y) /\ minted[y] # t
    BY <1>1, <1>3, <1>5 DEF HeldInv
  <2> QED
    BY <1>2, <1>4, <2>1 DEF HeldBy, Same
<1>9. ApartInv'
  BY <1>1, <1>4, <1>5 DEF ApartInv, Apart, Same
<1>10. Chains!Open(t)
  BY <1>2, <1>3, <1>4 DEF Chains!Open
<1> QED
  BY <1>3, <1>6, <1>7, <1>8, <1>9, <1>10 DEF RowLocks, HeldInv

LEMMA RotateLocks ==
  ASSUME IInv, NEW x \in Requests, Rotate(x)
  PROVE  RowLocks'
<1>1. TypeOK /\ RowsInv /\ HeldInv /\ ApartInv
  BY DEF IInv, TypeInv, RowLocks
<1>2. UNCHANGED <<refresh_tokens, family_id, revoked, delivered>>
  BY DEF Rotate, tokenVars, clientVars
<1>3. CASE Forget(x)
  BY <1>1, <1>2, <1>3, KeepForget DEF RowsInv
<1>4. CASE ~Forget(x)
  <2> DEFINE t == req[x].token
  <2>1. PICK s \in Fresh : minted' = [minted EXCEPT ![x] = s]
    BY <1>4 DEF Rotate
  <2>2. /\ t \in Live
        /\ pc[x] = "rotate" /\ pc' = [pc EXCEPT ![x] = "commit"]
        /\ updated' = [updated EXCEPT ![x] = {t}]
        /\ UNCHANGED <<req, pending>>
    BY <1>1, <1>4 DEF Rotate, StillLive, HeldInv, HeldBy, Live
  <2>3. s \in Tokens \ refresh_tokens /\ \A y \in Requests : minted[y] # s
    BY DEF Fresh
  <2>4. \A y \in Requests \ {x} : Same(y)
    BY <1>1, <2>1, <2>2 DEF TypeOK, Same
  <2>5. HeldBy(x)'
    BY <1>1, <1>2, <2>1, <2>2, <2>3 DEF HeldInv, HeldBy, TypeOK, Live
  <2>6. ASSUME NEW y \in Requests \ {x}
        PROVE  Apart(x, y)' /\ Apart(y, x)'
    <3>1. pc[y] \in {"commit", "update_rows"} => t \notin updated[y]
      BY DEF Rotate, RowFree, Locked
    <3>2. Same(y) /\ minted[y] # s
      BY <2>3, <2>4
    <3>3. updated'[x] = {t} /\ minted'[x] = s
      BY <1>1, <2>1, <2>2 DEF TypeOK
    <3> QED
      BY <3>1, <3>2, <3>3 DEF Apart, Same
  <2> QED
    BY <1>1, <1>2, <2>4, <2>5, <2>6, KeepRows DEF RowsInv
<1> QED
  BY <1>3, <1>4

LEMMA RotateCommitLocks ==
  ASSUME IInv, NEW x \in Requests, RotateCommit(x)
  PROVE  RowLocks' /\ \E t, s \in Tokens : Chains!Rotate(t, s)
<1> DEFINE t == req[x].token
           s == minted[x]
<1>1. TypeOK /\ RowsInv /\ HeldInv /\ ApartInv /\ HeldBy(x)
  BY DEF IInv, TypeInv, RowLocks, HeldInv
<1>2. /\ pc[x] = "commit" /\ pc' = [pc EXCEPT ![x] = "reply"]
      /\ refresh_tokens' = refresh_tokens \cup {s}
      /\ family_id' = [family_id EXCEPT ![s] = family_id[t]]
      /\ revoked' = revoked \cup {t}
      /\ UNCHANGED <<delivered, req, minted, pending, updated>>
  BY DEF RotateCommit, clientVars, rowVars
<1>3. t \in Live /\ s \in Tokens \ refresh_tokens /\ updated[x] = {t} /\ t \in Tokens
  BY <1>1, <1>2 DEF HeldBy, TypeOK, Live
<1>4. Live' = (Live \ {t}) \cup {s}
  BY <1>1, <1>2, <1>3 DEF Live, RowsInv
<1>5. \A y \in Requests \ {x} : Same(y)
  BY <1>1, <1>2 DEF TypeOK, Same
<1>6. RowsInv'
  BY <1>1, <1>2, <1>3 DEF RowsInv, TypeOK, Live
<1>7. HeldBy(x)'
  BY <1>1, <1>2, <1>3 DEF HeldBy, TypeOK
<1>8. ASSUME NEW y \in Requests \ {x}
      PROVE  HeldBy(y)'
  <2>1. HeldBy(y) /\ Same(y) /\ Apart(x, y)
    BY <1>1, <1>5 DEF HeldInv, ApartInv
  <2>2. pc[y] = "commit" => minted[y] # s
    BY <1>2, <2>1 DEF Apart
  <2>3. pc[y] \in {"commit", "update_rows"} => t \notin updated[y]
    BY <1>2, <1>3, <2>1 DEF Apart
  <2> QED
    BY <1>2, <1>4, <2>1, <2>2, <2>3 DEF HeldBy, Same
<1>9. ApartInv'
  BY <1>1, <1>2, <1>5 DEF ApartInv, Apart, Same, TypeOK
<1>10. Chains!Rotate(t, s)
  BY <1>2, <1>3, <1>4 DEF Chains!Rotate
<1> QED
  BY <1>3, <1>6, <1>7, <1>8, <1>9, <1>10 DEF RowLocks, HeldInv

LEMMA ScanLocks ==
  ASSUME IInv, NEW x \in Requests, Scan(x)
  PROVE  RowLocks'
<1>1. TypeOK /\ RowsInv /\ HeldBy(x)
  BY DEF IInv, TypeInv, RowLocks, HeldInv
<1>2. /\ UNCHANGED <<refresh_tokens, family_id, revoked, delivered>>
      /\ \A y \in Requests \ {x} : Same(y)
  BY <1>1 DEF Scan, TypeOK, Same, tokenVars, clientVars
<1>3. HeldBy(x)' /\ updated'[x] = {}
  BY <1>1 DEF Scan, TypeOK, HeldBy, Live, tokenVars
<1>4. \A y \in Requests \ {x} : Apart(x, y)' /\ Apart(y, x)'
  BY <1>1, <1>3 DEF Apart, Scan, TypeOK
<1> QED
  BY <1>1, <1>2, <1>3, <1>4, KeepRows DEF RowsInv

LEMMA UpdateRowLocks ==
  ASSUME IInv, NEW x \in Requests, NEW t \in Tokens, UpdateRow(x, t)
  PROVE  RowLocks'
<1>1. TypeOK /\ RowsInv /\ HeldBy(x) /\ ApartInv
  BY DEF IInv, TypeInv, RowLocks, HeldInv
<1>2. /\ UNCHANGED <<refresh_tokens, family_id, revoked, delivered>>
      /\ \A y \in Requests \ {x} : Same(y)
  BY <1>1 DEF UpdateRow, TypeOK, Same, tokenVars, clientVars
<1>3. \/ updated'[x] = updated[x]
      \/ t \in Live /\ updated'[x] = updated[x] \cup {t}
  BY <1>1 DEF UpdateRow, TypeOK, HeldBy, Live
<1>4. HeldBy(x)'
  BY <1>1, <1>2, <1>3 DEF UpdateRow, TypeOK, HeldBy, Live, tokenVars
<1>5. ASSUME NEW y \in Requests \ {x}
      PROVE  Apart(x, y)' /\ Apart(y, x)'
  <2>1. pc[y] \in {"commit", "update_rows"} => t \notin updated[y]
    BY DEF UpdateRow, RowFree, Locked
  <2>2. Same(y) /\ Apart(x, y) /\ Apart(y, x)
    BY <1>1, <1>2 DEF ApartInv
  <2>3. pc'[x] = pc[x] /\ minted'[x] = minted[x]
    BY DEF UpdateRow
  <2> QED
    BY <1>3, <2>1, <2>2, <2>3 DEF Apart, Same
<1> QED
  BY <1>1, <1>2, <1>4, <1>5, KeepRows DEF RowsInv

LEMMA RevokeCommitLocks ==
  ASSUME IInv, NEW x \in Requests, RevokeCommit(x)
  PROVE  RowLocks' /\ \E S \in SUBSET Live : Chains!End(S)
<1>1. TypeOK /\ RowsInv /\ HeldInv /\ ApartInv /\ HeldBy(x)
  BY DEF IInv, TypeInv, RowLocks, HeldInv
<1>2. /\ pc[x] = "update_rows" /\ pc' = [pc EXCEPT ![x] = "reply"]
      /\ revoked' = revoked \cup updated[x]
      /\ UNCHANGED <<refresh_tokens, family_id, delivered, req, minted, pending, updated>>
  BY DEF RevokeCommit, clientVars, rowVars
<1>3. updated[x] \subseteq Live /\ Live' = Live \ updated[x] /\ minted[x] = None
  BY <1>1, <1>2 DEF HeldBy, Live
<1>4. \A y \in Requests \ {x} : Same(y)
  BY <1>1, <1>2 DEF TypeOK, Same
<1>5. RowsInv'
  BY <1>1, <1>2, <1>3 DEF RowsInv, Live
<1>6. HeldBy(x)'
  BY <1>1, <1>2, <1>3 DEF HeldBy, TypeOK
<1>7. ASSUME NEW y \in Requests \ {x}
      PROVE  HeldBy(y)'
  <2>1. HeldBy(y) /\ Same(y) /\ Apart(x, y)
    BY <1>1, <1>4 DEF HeldInv, ApartInv
  <2>2. pc[y] \in {"commit", "update_rows"} => updated[y] \cap updated[x] = {}
    BY <1>2, <2>1 DEF Apart
  <2> QED
    BY <1>2, <1>3, <2>1, <2>2 DEF HeldBy, Same
<1>8. ApartInv'
  BY <1>1, <1>2, <1>4 DEF ApartInv, Apart, Same, TypeOK
<1>9. Chains!End(updated[x])
  BY <1>2, <1>3 DEF Chains!End
<1> QED
  BY <1>3, <1>5, <1>6, <1>7, <1>8, <1>9 DEF RowLocks, HeldInv

\* The steps that neither touch a row nor lock one.
LEMMA OtherLocks ==
  ASSUME IInv, NEW x \in Requests,
         \/ ForgotIssue(x) \/ Notify(x) \/ ResetPassword(x) \/ Reply(x)
         \/ Abort(x) \/ LoseReply(x)
  PROVE  RowLocks'
<1>1. TypeOK /\ RowsInv /\ HeldBy(x)
  BY DEF IInv, TypeInv, RowLocks, HeldInv
<1>2. UNCHANGED <<refresh_tokens, family_id, revoked>>
  BY DEF ForgotIssue, Notify, ResetPassword, Reply, Abort, LoseReply, tokenVars
<1>3. delivered' \subseteq refresh_tokens
  BY <1>1 DEF RowsInv, HeldBy, ForgotIssue, Notify, ResetPassword, Reply, Abort,
              LoseReply, clientVars
<1>4. CASE ForgotIssue(x) \/ ResetPassword(x)
  <2>1. \A y \in Requests \ {x} : Same(y)
    BY <1>1, <1>4 DEF ForgotIssue, ResetPassword, TypeOK, Same, rowVars
  <2>2. Unheld(x)'
    BY <1>1, <1>2, <1>4 DEF ForgotIssue, ResetPassword, TypeOK, HeldBy, Unheld, rowVars
  <2> QED
    BY <1>2, <1>3, <2>1, <2>2, KeepUnheld
<1>5. CASE Forget(x)
  BY <1>2, <1>3, <1>5, KeepForget
<1> QED
  BY <1>4, <1>5 DEF Notify, Reply, Abort, LoseReply

LEMMA StillLocks ==
  ASSUME IInv, UNCHANGED <<refresh_tokens, family_id, revoked, delivered, pc, req,
                           minted, pending, updated>>
  PROVE  RowLocks'
BY DEF IInv, RowLocks, RowsInv, HeldInv, HeldBy, ApartInv, Apart, Live

----------------------------------------------------------------------------
(* One step of the flows is one step of the chains, or none.               *)

LEMMA RowsStill ==
  ASSUME UNCHANGED tokenVars
  PROVE  UNCHANGED Chains!vars
BY DEF tokenVars, Chains!vars, Live

LEMMA WorkSimulates ==
  ASSUME IInv, NEW x \in Requests, Work(x)
  PROVE  RowLocks' /\ [Chains!Next]_(Chains!vars)
<1>1. CASE LoginIssue(x)
  BY <1>1, LoginLocks DEF Chains!Next
<1>2. CASE Rotate(x)
  BY <1>2, RotateLocks, RowsStill DEF Rotate
<1>3. CASE RotateCommit(x)
  BY <1>3, RotateCommitLocks DEF Chains!Next
<1>4. CASE Scan(x)
  BY <1>4, ScanLocks, RowsStill DEF Scan
<1>5. ASSUME NEW t \in Tokens, UpdateRow(x, t)
      PROVE  RowLocks' /\ [Chains!Next]_(Chains!vars)
  BY <1>5, UpdateRowLocks, RowsStill DEF UpdateRow
<1>6. CASE RevokeCommit(x)
  BY <1>6, RevokeCommitLocks DEF Chains!Next
<1>7. CASE ForgotIssue(x) \/ Notify(x) \/ ResetPassword(x) \/ Reply(x)
  <2>1. UNCHANGED tokenVars
    BY <1>7 DEF ForgotIssue, Notify, ResetPassword, Reply
  <2> QED
    BY <1>7, <2>1, OtherLocks, RowsStill
<1> QED
  BY <1>1, <1>2, <1>3, <1>4, <1>5, <1>6, <1>7 DEF Work

LEMMA StepSimulates ==
  IInv /\ [Next]_vars => RowLocks' /\ [Chains!Next]_(Chains!vars)
<1> SUFFICES ASSUME IInv, [Next]_vars
             PROVE  RowLocks' /\ [Chains!Next]_(Chains!vars)
  OBVIOUS
<1>1. CASE Tick
  <2>1. UNCHANGED <<tokenVars, clientVars, pc, req, rowVars>>
    BY <1>1 DEF Tick
  <2> QED
    BY <2>1, StillLocks, RowsStill DEF tokenVars, clientVars, rowVars
<1>2. ASSUME NEW x \in Requests, Arrive(x)
      PROVE  RowLocks' /\ [Chains!Next]_(Chains!vars)
  <2>1. UNCHANGED tokenVars
    BY <1>2, ArriveBegins DEF Arrived, Begin, IInv
  <2> QED
    BY <1>2, <2>1, ArriveLocks, RowsStill
<1>3. ASSUME NEW x \in Requests, Work(x)
      PROVE  RowLocks' /\ [Chains!Next]_(Chains!vars)
  BY <1>3, WorkSimulates
<1>4. ASSUME NEW x \in Requests, Abort(x) \/ LoseReply(x)
      PROVE  RowLocks' /\ [Chains!Next]_(Chains!vars)
  <2>1. UNCHANGED tokenVars
    BY <1>4 DEF Abort, LoseReply
  <2> QED
    BY <1>4, <2>1, OtherLocks, RowsStill
<1>5. ASSUME NEW u \in Users, NEW b \in BOOLEAN, SetActive(u, b)
      PROVE  RowLocks' /\ [Chains!Next]_(Chains!vars)
  <2>1. UNCHANGED <<tokenVars, clientVars, pc, req, rowVars>>
    BY <1>5 DEF SetActive
  <2> QED
    BY <2>1, StillLocks, RowsStill DEF tokenVars, clientVars, rowVars
<1>6. CASE UNCHANGED vars
  <2>1. UNCHANGED <<tokenVars, clientVars, pc, req, rowVars>>
    BY <1>6 DEF vars
  <2> QED
    BY <2>1, StillLocks, RowsStill DEF tokenVars, clientVars, rowVars
<1> QED
  BY <1>1, <1>2, <1>3, <1>4, <1>5, <1>6 DEF Next

LEMMA Initially == Init => IInv /\ Chains!Init /\ OneLivePerFamily
<1> SUFFICES ASSUME Init
             PROVE  IInv /\ Chains!Init /\ OneLivePerFamily
  OBVIOUS
<1>1. TypeInv
  BY TypeInit
<1>2. RowLocks
  BY DEF Init, RowLocks, RowsInv, HeldInv, HeldBy, ApartInv, Apart
<1>3. Live = {}
  BY DEF Init, Live
<1> QED
  BY <1>1, <1>2, <1>3 DEF IInv, Init, Chains!Init, OneLivePerFamily

LEMMA InvStep == IInv /\ [Next]_vars => IInv'
BY TypeStep, StepSimulates DEF IInv

----------------------------------------------------------------------------
(* What the flows guarantee.                                               *)

\* Login, rotation, logout, replay handling and reset, interleaved statement
\* by statement, implement the chains of single-use tokens.
THEOREM ImplementsTheChains == Spec => ImplementsChains
<1>1. IInv /\ [Next]_vars => [Chains!Next]_(Chains!vars)
  BY StepSimulates
<1> QED
  BY <1>1, Initially, InvStep, PTL DEF Spec, ImplementsChains, Chains!Spec

LEMMA OneLiveStep ==
  IInv /\ OneLivePerFamily /\ [Chains!Next]_(Chains!vars) => OneLivePerFamily'
<1> SUFFICES ASSUME IInv, OneLivePerFamily, [Chains!Next]_(Chains!vars)
             PROVE  OneLivePerFamily'
  OBVIOUS
<1>1. TypeOK /\ RowsInv /\ Live \subseteq refresh_tokens
  BY DEF IInv, TypeInv, RowLocks, Live
<1>2. ASSUME NEW t \in Tokens, Chains!Open(t)
      PROVE  OneLivePerFamily'
  BY <1>1, <1>2 DEF Chains!Open, OneLivePerFamily, RowsInv, TypeOK
<1>3. ASSUME NEW t \in Tokens, NEW s \in Tokens, Chains!Rotate(t, s)
      PROVE  OneLivePerFamily'
  BY <1>1, <1>3 DEF Chains!Rotate, OneLivePerFamily, TypeOK
<1>4. ASSUME NEW S \in SUBSET Live, Chains!End(S)
      PROVE  OneLivePerFamily'
  BY <1>4 DEF Chains!End, OneLivePerFamily
<1>5. CASE UNCHANGED Chains!vars
  BY <1>5 DEF Chains!vars, OneLivePerFamily
<1> QED
  BY <1>2, <1>3, <1>4, <1>5 DEF Chains!Next

\* However rotations, logouts, replays and resets interleave, a family never
\* has two live refresh tokens (rotate in refresh.rs).
THEOREM OneLive == Spec => []OneLivePerFamily
<1>1. IInv /\ OneLivePerFamily /\ [Next]_vars => OneLivePerFamily'
  BY StepSimulates, OneLiveStep
<1> QED
  BY <1>1, Initially, InvStep, PTL DEF Spec

LEMMA EndedStep ==
  IInv /\ [Chains!Next]_(Chains!vars)
    => \A f \in refresh_tokens : Ended(f) => Ended(f)'
<1> SUFFICES ASSUME IInv, [Chains!Next]_(Chains!vars),
                    NEW f \in refresh_tokens, Ended(f)
             PROVE  Ended(f)'
  OBVIOUS
<1>1. TypeOK /\ Live \subseteq refresh_tokens
  BY DEF IInv, TypeInv, Live
<1>2. ASSUME NEW t \in Tokens, Chains!Open(t)
      PROVE  Ended(f)'
  BY <1>1, <1>2 DEF Chains!Open, Ended, TypeOK
<1>3. ASSUME NEW t \in Tokens, NEW s \in Tokens, Chains!Rotate(t, s)
      PROVE  Ended(f)'
  BY <1>1, <1>3 DEF Chains!Rotate, Ended, TypeOK
<1>4. ASSUME NEW S \in SUBSET Live, Chains!End(S)
      PROVE  Ended(f)'
  BY <1>4 DEF Chains!End, Ended
<1>5. CASE UNCHANGED Chains!vars
  BY <1>5 DEF Chains!vars, Ended
<1> QED
  BY <1>2, <1>3, <1>4, <1>5 DEF Chains!Next

\* A session that logout, replay handling or a reset has ended is never revived,
\* not even by a rotation that was under way.
THEOREM EndedForGood == Spec => EndedStaysEnded
<1>1. IInv /\ [Next]_vars
        => [\A f \in refresh_tokens : Ended(f) => Ended(f)']_vars
  BY StepSimulates, EndedStep
<1> QED
  BY <1>1, Initially, InvStep, PTL DEF Spec, EndedStaysEnded
=============================================================================
