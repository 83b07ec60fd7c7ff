---------------------------- MODULE AuthSessions ----------------------------
(***************************************************************************)
(* Sessions of the backend: login, refresh-token rotation with reuse       *)
(* detection, logout, forgotten and reset passwords (src/backend/src/auth),*)
(* running concurrently over the tables refresh_tokens and                 *)
(* password_reset_tokens of one tenant.                                    *)
(*                                                                         *)
(* A request is one transaction of Postgres at READ COMMITTED.  The        *)
(* variables named after columns hold COMMITTED rows only; what a          *)
(* transaction has written and not committed is in its own variables, and  *)
(* the rows it has updated are locked until it ends.  An UPDATE over       *)
(* several rows is a snapshot (Scan) followed by one step per row          *)
(* (UpdateRow), which waits for the row's lock and re-evaluates            *)
(* `revoked_at IS NULL` on the newest version.  An INSERT is invisible     *)
(* until the commit, so it is merged with the statement that follows.      *)
(***************************************************************************)
EXTENDS Naturals, FiniteSets

CONSTANTS
  Users,        \* the users of the tenant
  Tokens,       \* refresh tokens that may be minted (bound)
  ResetTokens,  \* password-reset tokens that may be minted (bound)
  Passwords,
  Requests,     \* slots for requests in flight at the same time (bound)
  None,
  RefreshTTL,
  ResetTTL,
  MaxTime       \* bound of the clock

ASSUME TTLAssumption == RefreshTTL \in Nat \ {0} /\ ResetTTL \in Nat \ {0}
ASSUME MaxTimeAssumption == MaxTime \in Nat
ASSUME NoneAssumption ==
  None \notin Users \cup Tokens \cup ResetTokens \cup Passwords

VARIABLES
  clock,
  password, is_active,                  \* users
  refresh_tokens,                       \* ids of the committed rows
  user_id, family_id, replaced_by,
  expires_at, revoked,                  \* revoked: rows with revoked_at set
  reset_tokens,                         \* ids of the committed rows
  reset_user, reset_expires, consumed,  \* consumed: rows with consumed_at set
  delivered,                            \* refresh tokens the clients received
  mailed,                               \* reset tokens the notifier sent
  pc, req,                              \* where each request is, its inputs
  minted,                               \* the refresh token a request inserted
  pending, updated, skipped             \* the rows of its multi-row UPDATE

userVars   == <<password, is_active>>
tokenVars  == <<refresh_tokens, user_id, family_id, replaced_by, expires_at,
                revoked>>
resetVars  == <<reset_tokens, reset_user, reset_expires, consumed>>
clientVars == <<delivered, mailed>>
rowVars    == <<minted, pending, updated, skipped>>
vars == <<clock, userVars, tokenVars, resetVars, clientVars, pc, req, rowVars>>

Ops == {"login", "refresh", "reuse", "logout", "forgot", "reset"}

Req == [op : Ops \cup {"none"}, now : Nat, user : Users \cup {None},
        token : Tokens \cup {None}, reset : ResetTokens \cup {None},
        password : Passwords \cup {None}]

Ask(op, n, u, t, r, p) ==
  [op |-> op, now |-> n, user |-> u, token |-> t, reset |-> r, password |-> p]

NoReq == Ask("none", 0, None, None, None, None)

PC == {"idle", "issue", "rotate", "commit", "scan", "update_rows", "reply",
       "forgot", "notify", "hash"}

TypeOK ==
  /\ clock \in Nat
  /\ password \in [Users -> Passwords]
  /\ is_active \in [Users -> BOOLEAN]
  /\ refresh_tokens \in SUBSET Tokens
  /\ user_id \in [Tokens -> Users \cup {None}]
  /\ family_id \in [Tokens -> Tokens \cup {None}]
  /\ replaced_by \in [Tokens -> Tokens \cup {None}]
  /\ expires_at \in [Tokens -> Nat]
  /\ revoked \in SUBSET Tokens
  /\ reset_tokens \in SUBSET ResetTokens
  /\ reset_user \in [ResetTokens -> Users \cup {None}]
  /\ reset_expires \in [ResetTokens -> Nat]
  /\ consumed \in SUBSET ResetTokens
  /\ delivered \in SUBSET Tokens
  /\ mailed \in SUBSET ResetTokens
  /\ pc \in [Requests -> PC]
  /\ req \in [Requests -> Req]
  /\ minted \in [Requests -> Tokens \cup {None}]
  /\ pending \in [Requests -> SUBSET Tokens]
  /\ updated \in [Requests -> SUBSET Tokens]
  /\ skipped \in [Requests -> SUBSET Tokens]

Init ==
  /\ clock = 0
  /\ password \in [Users -> Passwords]
  /\ is_active = [u \in Users |-> TRUE]
  /\ refresh_tokens = {}
  /\ user_id = [t \in Tokens |-> None]
  /\ family_id = [t \in Tokens |-> None]
  /\ replaced_by = [t \in Tokens |-> None]
  /\ expires_at = [t \in Tokens |-> 0]
  /\ revoked = {}
  /\ reset_tokens = {}
  /\ reset_user = [r \in ResetTokens |-> None]
  /\ reset_expires = [r \in ResetTokens |-> 0]
  /\ consumed = {}
  /\ delivered = {}
  /\ mailed = {}
  /\ pc = [x \in Requests |-> "idle"]
  /\ req = [x \in Requests |-> NoReq]
  /\ minted = [x \in Requests |-> None]
  /\ pending = [x \in Requests |-> {}]
  /\ updated = [x \in Requests |-> {}]
  /\ skipped = [x \in Requests |-> {}]

----------------------------------------------------------------------------
(* Rows, locks and the bounds of the model.                                *)

Live == refresh_tokens \ revoked

\* Rows of refresh_tokens a transaction has locked: those its UPDATE changed,
\* and those it waited for, found revoked, and left alone.
Locked(x) ==
  IF pc[x] \in {"commit", "update_rows"} THEN updated[x] \cup skipped[x] ELSE {}

RowFree(x, t) == \A y \in Requests \ {x} : t \notin Locked(y)

\* Fault: the row read with a lock that the UPDATE must then upgrade.
HoldsUserFromRead(x, u) ==
  /\ req[x].op = "reset"
  /\ req[x].user = u
  /\ pc[x] \in {"hash", "scan", "update_rows"}

\* apply_reset locks the row of users with its first statement.
HoldsUser(x, u) ==
  /\ req[x].op = "reset"
  /\ req[x].user = u
  /\ pc[x] \in {"scan", "update_rows"}

UserFree(x, u) == \A y \in Requests \ {x} : ~HoldsUser(y, u)

\* A minted token is random: never one of a committed or an uncommitted row.
Fresh == Tokens \ (refresh_tokens \cup {minted[x] : x \in Requests})

\* Bound: a request that will mint starts only if a token is left for it.
TokensLeft ==
  Cardinality({x \in Requests : pc[x] \in {"issue", "rotate"}})
    < Cardinality(Fresh)

ResetTokensLeft ==
  Cardinality({x \in Requests : pc[x] = "forgot"})
    < Cardinality(ResetTokens \ reset_tokens)

----------------------------------------------------------------------------
(* The life of a request.                                                  *)

Begin(x, r, where) ==
  /\ pc[x] = "idle"
  /\ pc' = [pc EXCEPT ![x] = where]
  /\ req' = [req EXCEPT ![x] = r]
  /\ UNCHANGED <<clock, userVars, tokenVars, resetVars, clientVars, rowVars>>

\* The request is over; what it had not committed is gone with its locks.
Forget(x) ==
  /\ pc' = [pc EXCEPT ![x] = "idle"]
  /\ req' = [req EXCEPT ![x] = NoReq]
  /\ minted' = [minted EXCEPT ![x] = None]
  /\ pending' = [pending EXCEPT ![x] = {}]
  /\ updated' = [updated EXCEPT ![x] = {}]
  /\ skipped' = [skipped EXCEPT ![x] = {}]

\* A fault, a dropped connection, AUTH_QUERY_TIMEOUT or a crash before the
\* commit: dropping `tx` rolls back.
Abort(x) ==
  /\ pc[x] \notin {"idle", "reply", "notify"}
  /\ Forget(x)
  /\ UNCHANGED <<clock, userVars, tokenVars, resetVars, clientVars>>

\* Faults: every reply carries a token; the reply precedes the commit.
ReplyAlwaysToken(x) ==
  /\ pc[x] = "reply"
  /\ delivered' = delivered \cup {minted[x]}
  /\ Forget(x)
  /\ UNCHANGED <<clock, userVars, tokenVars, resetVars, mailed>>

ReplyBeforeCommit(x) ==
  /\ pc[x] \in {"commit", "reply"}
  /\ delivered' = delivered \cup ({minted[x]} \ {None})
  /\ Forget(x)
  /\ UNCHANGED <<clock, userVars, tokenVars, resetVars, mailed>>

Reply(x) ==
  /\ pc[x] = "reply"
  /\ delivered' = delivered \cup ({minted[x]} \ {None})
  /\ Forget(x)
  /\ UNCHANGED <<clock, userVars, tokenVars, resetVars, mailed>>

\* Committed, but the caller never learns: the response is lost, the timeout
\* fires during the COMMIT, or the process dies before answering or mailing.
LoseReply(x) ==
  /\ pc[x] \in {"reply", "notify"}
  /\ Forget(x)
  /\ UNCHANGED <<clock, userVars, tokenVars, resetVars, clientVars>>

Tick ==
  /\ clock < MaxTime
  /\ clock' = clock + 1
  /\ UNCHANGED <<userVars, tokenVars, resetVars, clientVars, pc, req, rowVars>>

----------------------------------------------------------------------------
(* Login.                                                                  *)

\* load_user and authenticate: an unknown user, a wrong password or an
\* inactive account ends here without a trace.  `now` was read before the
\* connection was acquired, so it may lie behind the clock.
LoginRead(x, u, p) ==
  /\ password[u] = p
  /\ is_active[u]
  /\ TokensLeft
  /\ \E n \in 0 .. clock :
       Begin(x, Ask("login", n, u, None, None, p), "issue")

\* issue_pair in a family of its own, and the commit.
LoginIssue(x) ==
  /\ pc[x] = "issue"
  /\ \E t \in Fresh :
       /\ refresh_tokens' = refresh_tokens \cup {t}
       /\ user_id' = [user_id EXCEPT ![t] = req[x].user]
       /\ family_id' = [family_id EXCEPT ![t] = t]
       /\ expires_at' = [expires_at EXCEPT ![t] = req[x].now + RefreshTTL]
       /\ minted' = [minted EXCEPT ![x] = t]
  /\ pc' = [pc EXCEPT ![x] = "reply"]
  /\ UNCHANGED <<clock, userVars, replaced_by, revoked, resetVars, clientVars,
                 req, pending, updated, skipped>>

----------------------------------------------------------------------------
(* Refresh.                                                                *)

Reuse(t) == t \in revoked /\ replaced_by[t] # None

\* Fault: a token still accepted at the instant it expires.
DeadAfterExpiry(t, n) ==
  ~Reuse(t) /\ (t \in revoked \/ expires_at[t] < n)

Dead(t, n) == ~Reuse(t) /\ (t \in revoked \/ expires_at[t] <= n)

\* fetch_row and classify.  A client presents what it was given, so the token
\* was issued before the request read the clock.  A dead token changes nothing.
RefreshFetch(x, t) ==
  /\ t \in delivered
  /\ \E n \in 0 .. clock :
       /\ expires_at[t] <= n + RefreshTTL
       /\ ~Dead(t, n)
       /\ IF Reuse(t)
          THEN Begin(x, Ask("reuse", n, None, t, None, None), "scan")
          ELSE /\ TokensLeft
               /\ Begin(x, Ask("refresh", n, None, t, None, None), "rotate")

\* Fault: the UPDATE of the presented row without AND revoked_at IS NULL.
StillLiveUnchecked(t) == TRUE

StillLive(t) == t \notin revoked

\* rotate: the successor is inserted (invisible) and the presented row retired,
\* if it is still live once its lock is free; otherwise the request fails and
\* rolls back.
Rotate(x) ==
  LET t == req[x].token IN
  /\ pc[x] = "rotate"
  /\ RowFree(x, t)
  /\ \/ /\ StillLive(t)
        /\ \E s \in Fresh : minted' = [minted EXCEPT ![x] = s]
        /\ updated' = [updated EXCEPT ![x] = {t}]
        /\ pc' = [pc EXCEPT ![x] = "commit"]
        /\ UNCHANGED <<req, pending, skipped>>
     \/ ~StillLive(t) /\ Forget(x)
  /\ UNCHANGED <<clock, userVars, tokenVars, resetVars, clientVars>>

RotateCommit(x) ==
  LET t == req[x].token
      s == minted[x] IN
  /\ pc[x] = "commit"
  /\ refresh_tokens' = refresh_tokens \cup {s}
  /\ user_id' = [user_id EXCEPT ![s] = user_id[t]]
  /\ family_id' = [family_id EXCEPT ![s] = family_id[t]]
  /\ expires_at' = [expires_at EXCEPT ![s] = req[x].now + RefreshTTL]
  /\ replaced_by' = [replaced_by EXCEPT ![t] = s]
  /\ revoked' = revoked \cup {t}
  /\ pc' = [pc EXCEPT ![x] = "reply"]
  /\ UNCHANGED <<clock, userVars, resetVars, clientVars, req, rowVars>>

----------------------------------------------------------------------------
(* Revoking many rows: logout, the answer to a replayed token, a reset.    *)

Logout(x, t) ==
  /\ t \in delivered
  /\ \E n \in 0 .. clock :
       Begin(x, Ask("logout", n, None, t, None, None), "scan")

\* Fault: the presented token alone.
InScopeToken(x, t) == t = req[x].token

InScope(x, t) ==
  IF req[x].op = "reset"
  THEN user_id[t] = req[x].user
  ELSE family_id[t] = family_id[req[x].token]

\* The snapshot of the UPDATE: the committed live rows its WHERE selects.
Scan(x) ==
  /\ pc[x] = "scan"
  /\ pending' = [pending EXCEPT ![x] = {t \in Live : InScope(x, t)}]
  /\ pc' = [pc EXCEPT ![x] = "update_rows"]
  /\ UNCHANGED <<clock, userVars, tokenVars, resetVars, clientVars, req, minted,
                 updated, skipped>>

\* One row of the snapshot, once no other transaction holds it; a row revoked
\* in the meantime no longer satisfies the WHERE.
UpdateRow(x, t) ==
  /\ pc[x] = "update_rows"
  /\ t \in pending[x]
  /\ RowFree(x, t)
  /\ pending' = [pending EXCEPT ![x] = @ \ {t}]
  /\ IF t \in revoked
     THEN /\ skipped' = [skipped EXCEPT ![x] = @ \cup {t}]
          /\ UNCHANGED updated
     ELSE /\ updated' = [updated EXCEPT ![x] = @ \cup {t}]
          /\ UNCHANGED skipped
  /\ UNCHANGED <<clock, userVars, tokenVars, resetVars, clientVars, pc, req,
                 minted>>

\* The commit; a reset's also publishes the new password and consumes the
\* token, whether or not another reset consumed it meanwhile.
RevokeCommit(x) ==
  LET r == req[x] IN
  /\ pc[x] = "update_rows"
  /\ pending[x] = {}
  /\ revoked' = revoked \cup updated[x]
  /\ IF r.op = "reset"
     THEN /\ password' = [password EXCEPT ![r.user] = r.password]
          /\ consumed' = consumed \cup {r.reset}
     ELSE UNCHANGED <<password, consumed>>
  /\ pc' = [pc EXCEPT ![x] = "reply"]
  /\ UNCHANGED <<clock, is_active, refresh_tokens, user_id, family_id,
                 replaced_by, expires_at, reset_tokens, reset_user,
                 reset_expires, clientVars, req, rowVars>>

----------------------------------------------------------------------------
(* Forgotten and reset passwords.                                          *)

ForgotRead(x, u) ==
  /\ is_active[u]
  /\ ResetTokensLeft
  /\ \E n \in 0 .. clock :
       Begin(x, Ask("forgot", n, u, None, None, None), "forgot")

ForgotIssue(x) ==
  /\ pc[x] = "forgot"
  /\ \E r \in ResetTokens \ reset_tokens :
       /\ reset_tokens' = reset_tokens \cup {r}
       /\ reset_user' = [reset_user EXCEPT ![r] = req[x].user]
       /\ reset_expires' = [reset_expires EXCEPT ![r] = req[x].now + ResetTTL]
       /\ req' = [req EXCEPT ![x].reset = r]
  /\ pc' = [pc EXCEPT ![x] = "notify"]
  /\ UNCHANGED <<clock, userVars, tokenVars, consumed, clientVars, rowVars>>

Notify(x) ==
  /\ pc[x] = "notify"
  /\ mailed' = mailed \cup {req[x].reset}
  /\ Forget(x)
  /\ UNCHANGED <<clock, userVars, tokenVars, resetVars, delivered>>

\* The lookup of reset_password; hashing the new password comes next.
ResetRead(x, r, p) ==
  /\ r \in mailed
  /\ r \notin consumed
  /\ \E n \in 0 .. clock :
       /\ reset_expires[r] <= n + ResetTTL
       /\ reset_expires[r] > n
       /\ Begin(x, Ask("reset", n, reset_user[r], None, r, p), "hash")

\* UPDATE users and UPDATE password_reset_tokens, both by id.  The second never
\* waits: whoever holds that row holds the same user's row already.
ResetPassword(x) ==
  /\ pc[x] = "hash"
  /\ UserFree(x, req[x].user)
  /\ pc' = [pc EXCEPT ![x] = "scan"]
  /\ UNCHANGED <<clock, userVars, tokenVars, resetVars, clientVars, req, rowVars>>

\* An administrator's PATCH of is_active (http/routes/users.rs), which leaves
\* the user's refresh tokens alone.  Module UserAdmin has its inside.
SetActive(u, b) ==
  /\ \A x \in Requests : ~HoldsUser(x, u)
  /\ is_active' = [is_active EXCEPT ![u] = b]
  /\ UNCHANGED <<clock, password, tokenVars, resetVars, clientVars, pc, req,
                 rowVars>>

----------------------------------------------------------------------------
\* The steps a request takes by itself once it has begun.
Work(x) ==
  \/ LoginIssue(x)
  \/ Rotate(x)
  \/ RotateCommit(x)
  \/ Scan(x)
  \/ \E t \in Tokens : UpdateRow(x, t)
  \/ RevokeCommit(x)
  \/ ForgotIssue(x)
  \/ Notify(x)
  \/ ResetPassword(x)
  \/ Reply(x)

Arrive(x) ==
  \/ \E u \in Users, p \in Passwords : LoginRead(x, u, p)
  \/ \E t \in Tokens : RefreshFetch(x, t)
  \/ \E t \in Tokens : Logout(x, t)
  \/ \E u \in Users : ForgotRead(x, u)
  \/ \E r \in ResetTokens, p \in Passwords : ResetRead(x, r, p)

Next ==
  \/ Tick
  \/ \E x \in Requests : Arrive(x) \/ Work(x) \/ Abort(x) \/ LoseReply(x)
  \/ \E u \in Users, b \in BOOLEAN : SetActive(u, b)

Spec == Init /\ [][Next]_vars

\* Every request keeps running: its task is polled, statements return, and a
\* waiter gets a row lock that is freed again and again (Postgres queues
\* waiters).  Strong fairness is for those waits.  No timeout is assumed.
FairSpec == Spec /\ \A x \in Requests : SF_vars(Work(x))

----------------------------------------------------------------------------
(* Properties.                                                             *)

\* Rotation under any interleaving leaves at most one live token in a family:
\* two rotations of one token never both succeed (refresh.rs rotate).
OneLivePerFamily ==
  \A t, s \in Live : family_id[t] = family_id[s] => t = s

\* A family is one linked list from the login's token to its newest one: every
\* other row has exactly one predecessor, of the same family and user, and only
\* retired rows have a successor (replaced_by in rotate, the family in
\* issue_refresh).
FamilyIsOneChain ==
  \A t \in refresh_tokens :
    /\ family_id[t] \in refresh_tokens
    /\ family_id[t] # t =>
         \E s \in refresh_tokens :
           /\ replaced_by[s] = t
           /\ family_id[s] = family_id[t]
           /\ user_id[s] = user_id[t]
           /\ \A r \in refresh_tokens : replaced_by[r] = t => r = s
    /\ replaced_by[t] # None => t \in revoked /\ replaced_by[t] # family_id[t]

\* A successor was asked for while its predecessor was still valid, the instant
\* of expiry excluded (classify): a session has no gap in its validity, however
\* long the request then waited.
NoGapInValidity ==
  \A t \in refresh_tokens :
    replaced_by[t] # None => expires_at[t] + RefreshTTL > expires_at[replaced_by[t]]

\* When logout, replay handling or a reset has committed, no session of which
\* it revoked a row is alive; and a family revocation that met no concurrent
\* rotation (it skipped no row) has ended its session.
CleanRevocation ==
  \A x \in Requests, t \in Live :
    pc[x] = "reply" /\ req[x].op \in {"logout", "reuse", "reset"} =>
      /\ \A s \in updated[x] : family_id[s] # family_id[t]
      /\ req[x].op # "reset" /\ skipped[x] = {} =>
           family_id[t] # family_id[req[x].token]

\* A client or a mailbox never holds a token whose row was rolled back: replies
\* and notifications come after the commit (login, refresh, forgot_password).
DeliveredIsStored ==
  delivered \subseteq refresh_tokens /\ mailed \subseteq reset_tokens

Ended(f) == \A t \in Live : family_id[t] # f

\* A session that was ended never has a live token again, not even from a
\* rotation that was under way (the recheck of revoked_at IS NULL in rotate).
EndedStaysEnded ==
  [][\A f \in refresh_tokens : Ended(f) => Ended(f)']_vars

\* Every request that began ends, without the help of a timeout: the locks of
\* the flows never form a cycle.
RequestsFinish ==
  \A x \in Requests : pc[x] # "idle" ~> pc[x] = "idle"

\* The flows together implement the abstract chains of single-use tokens.
Chains == INSTANCE SessionChains WITH
  used <- refresh_tokens, live <- Live, session <- family_id

ImplementsChains == Chains!Spec

----------------------------------------------------------------------------
(* What the documentation claims and a race breaks.                        *)

\* logout.rs: revoking the family "ends the session even if it was
\* mid-rotation, so the device is truly logged out"; refresh.rs: if an
\* already-rotated token is presented again "the entire family is revoked";
\* reset.rs: "existing sessions cannot outlive the credential change".
RevocationEndsSessions ==
  \A x \in Requests : pc[x] = "reply" =>
    /\ req[x].op \in {"logout", "reuse"} => Ended(family_id[req[x].token])
    /\ req[x].op = "reset" =>
         \A t \in updated[x] \cup skipped[x] : Ended(family_id[t])

\* reset.rs: revoking all of the user's refresh tokens, "existing sessions cannot
\* outlive the credential change".  Stated of the change's own commit: it leaves
\* the user no live token, those included that a login with the old password
\* (login.rs: its SELECT waits for nobody) stored after the UPDATE's snapshot.
ResetEndsEverySession ==
  [][\A x \in Requests :
       req[x].op = "reset" /\ pc[x] = "update_rows" /\ pc'[x] = "reply" =>
         \A t \in Live' : user_id[t] # req[x].user]_vars

\* reset.rs: reset_password "consumes a valid token exactly once".
ResetTokenSingleUse ==
  [][\A x \in Requests :
       req[x].op = "reset" /\ pc[x] = "update_rows" /\ pc'[x] = "reply" =>
         req[x].reset \notin consumed]_vars
=============================================================================
