------------------------------- MODULE Access -------------------------------
(***************************************************************************)
(* What a user of one tenant may do, and for how long                      *)
(* (src/backend/src/auth/claims.rs, context.rs, authz, http/require.rs):   *)
(* an access token carries the role its user had when it was issued, and   *)
(* the guard of a handler believes it, with no look at the database, until *)
(* it expires.  Meanwhile administrators change roles through the same     *)
(* guard.                                                                  *)
(*                                                                         *)
(* Requests run on replicas whose wall clocks differ.  Signatures and the  *)
(* issuer are sound: the tokens presented are those that were issued, and  *)
(* anything else is a 401.  Rotation is in AuthSessions, and the races     *)
(* between PATCHes in UserAdmin; both are one step here.                   *)
(***************************************************************************)
EXTENDS Naturals, FiniteSets

CONSTANTS
  Users,        \* user ids (bound)
  Roles, Permissions,
  Replicas,
  AccessTtl,    \* access_ttl_secs
  MaxIatSkew,   \* MAX_IAT_SKEW_SECS
  MaxSkew,      \* how far the clocks of two replicas differ
  MaxTime,      \* of the earliest clock (bound)
  MaxTokens,    \* access tokens issued (bound)
  Requests,     \* slots for requests in flight at the same time (bound)
  None

ASSUME RolesAssumption == "admin" \in Roles /\ None \notin Roles \cup Users
ASSUME NoneAssumption == None \notin Nat \cup BOOLEAN
ASSUME PermissionsAssumption ==
  "ManageUsers" \in Permissions /\ None \notin Permissions
ASSUME TtlAssumption == AccessTtl \in Nat \ {0}  \* the assert in AccessClaims::new
ASSUME SkewAssumption ==  \* why limits.rs says the tolerance is there
  MaxSkew \in Nat /\ MaxIatSkew \in Nat /\ MaxSkew <= MaxIatSkew
ASSUME BoundsAssumption == MaxTime \in Nat /\ MaxTokens \in Nat

VARIABLES
  clock, ahead,     \* the earliest clock, and how far each replica is ahead
  role, is_active,  \* users; the role is None before the row exists
  tokens,           \* the claims of the access tokens issued
  pc, req,          \* where each request is, what it was asked or has read
  lost              \* history: when a user last lost a role

userVars == <<role, is_active, lost>>
vars == <<clock, ahead, userVars, tokens, pc, req>>

\* `at` is the `now` a request reads when it begins.
Req == [user : Users \cup {None}, role : Roles \cup {None},
        perm : Permissions \cup {None}, at : Nat]

Ask(u, ro, p, n) == [user |-> u, role |-> ro, perm |-> p, at |-> n]

NoReq == Ask(None, None, None, 0)

Claims == [sub : Users, role : Roles, iat : Nat, exp : Nat]

TypeOK ==
  /\ clock \in Nat
  /\ ahead \in [Replicas -> 0 .. MaxSkew]
  /\ role \in [Users -> Roles \cup {None}]
  /\ is_active \in [Users -> BOOLEAN]
  /\ \A u \in Users : is_active[u] => role[u] # None
  /\ tokens \in SUBSET Claims
  /\ pc \in [Requests -> {"idle", "login", "refresh", "issue", "handle"}]
  /\ req \in [Requests -> Req]
  /\ \A x \in Requests : pc[x] # "idle" => req[x].user # None
  /\ \A x \in Requests : pc[x] \in {"issue", "handle"} => req[x].role # None
  /\ \A x \in Requests : pc[x] = "handle" => req[x].perm # None
  /\ lost \in [Users -> [Roles -> Nat \cup {None}]]

\* A tenant is provisioned with one admin.
Init ==
  /\ clock = 0
  /\ ahead \in [Replicas -> 0 .. MaxSkew]
  /\ \E a \in Users :
       /\ role = [u \in Users |-> IF u = a THEN "admin" ELSE None]
       /\ is_active = [u \in Users |-> u = a]
  /\ tokens = {}
  /\ pc = [x \in Requests |-> "idle"]
  /\ req = [x \in Requests |-> NoReq]
  /\ lost = [u \in Users |-> [ro \in Roles |-> None]]

----------------------------------------------------------------------------
\* now_utc on replica r, in seconds.
Clock(r) == clock + ahead[r]

Tick ==
  /\ clock < MaxTime
  /\ clock' = clock + 1
  /\ UNCHANGED <<ahead, userVars, tokens, pc, req>>

Begin(x, r, where) ==
  /\ pc[x] = "idle"
  /\ pc' = [pc EXCEPT ![x] = where]
  /\ req' = [req EXCEPT ![x] = r]
  /\ UNCHANGED <<clock, ahead, userVars, tokens>>

Finish(x) ==
  /\ pc' = [pc EXCEPT ![x] = "idle"]
  /\ req' = [req EXCEPT ![x] = NoReq]

\* A rejection after the guard, a timeout, a fault or a crash.
Abort(x) ==
  /\ pc[x] # "idle"
  /\ Finish(x)
  /\ UNCHANGED <<clock, ahead, userVars, tokens>>

----------------------------------------------------------------------------
(* Issuing: login and refresh.                                             *)

TokensLeft ==
  Cardinality(tokens)
    + Cardinality({x \in Requests : pc[x] \in {"login", "refresh", "issue"}})
  < MaxTokens

\* `now` is read before the database is.
Login(x, u, r) ==
  /\ TokensLeft
  /\ role[u] # None
  /\ Begin(x, Ask(u, None, None, Clock(r)), "login")

\* Whoever has logged in has a refresh token.
Refresh(x, u, r) ==
  /\ TokensLeft
  /\ \E t \in tokens : t.sub = u
  /\ Begin(x, Ask(u, None, None, Clock(r)), "refresh")

\* load_user and authenticate; fetch_row joins users for the role alone.
ReadRole(x) ==
  LET u == req[x].user IN
  /\ pc[x] \in {"login", "refresh"}
  /\ \/ /\ pc[x] = "login" => is_active[u]
        /\ req' = [req EXCEPT ![x].role = role[u]]
        /\ pc' = [pc EXCEPT ![x] = "issue"]
     \/ pc[x] = "login" /\ ~is_active[u] /\ Finish(x)
  /\ UNCHANGED <<clock, ahead, userVars, tokens>>

\* AccessClaims::new
NewClaims(u, ro, n) == [sub |-> u, role |-> ro, iat |-> n, exp |-> n + AccessTtl]

\* Fault: the clock is read again when the token is signed.
IssueLate(x) ==
  /\ pc[x] = "issue"
  /\ \E r \in Replicas :
       tokens' = tokens \cup {NewClaims(req[x].user, req[x].role, Clock(r))}
  /\ Finish(x)
  /\ UNCHANGED <<clock, ahead, userVars>>

\* issue_access, and the commit that makes the answer go out.
Issue(x) ==
  /\ pc[x] = "issue"
  /\ tokens' = tokens \cup {NewClaims(req[x].user, req[x].role, req[x].at)}
  /\ Finish(x)
  /\ UNCHANGED <<clock, ahead, userVars>>

----------------------------------------------------------------------------
(* Calling the API: Require<C>.                                            *)

\* Fault: no tolerance for a clock that is behind the issuer's.
AcceptsStrictly(t, now) == t.exp > now /\ t.iat <= now

\* check_temporal
Accepts(t, now) == t.exp > now /\ t.iat <= now + MaxIatSkew

Everybody == {"ReadTenant", "ReadSettings", "ReadAsset", "ReadCustomer"}

Granted(ro) ==
  CASE ro = "sales" -> Everybody \cup {"CreateAsset", "WriteCustomer"}
    [] ro = "coordinator" ->
         Everybody \cup {"CreateAsset", "DeleteAsset", "WriteCustomer", "DeleteCustomer"}
    [] OTHER -> Everybody

Permits(ro, p) == ro = "admin" \/ p \in Granted(ro)

\* authenticate, then permits; anything else is a 401 or a 403.
Call(x, t, p, r) ==
  /\ Accepts(t, Clock(r))
  /\ Permits(t.role, p)
  /\ Begin(x, Ask(t.sub, t.role, p, Clock(r)), "handle")

\* A handler that touches no user: customers, assets, settings, reads.
Handle(x) ==
  /\ pc[x] = "handle"
  /\ req[x].perm # "ManageUsers"
  /\ Finish(x)
  /\ UNCHANGED <<clock, ahead, userVars, tokens>>

CreateUser(x, u, ro) ==
  /\ pc[x] = "handle" /\ req[x].perm = "ManageUsers"
  /\ role[u] = None
  /\ role' = [role EXCEPT ![u] = ro]
  /\ is_active' = [is_active EXCEPT ![u] = TRUE]
  /\ Finish(x)
  /\ UNCHANGED <<clock, ahead, lost, tokens>>

\* Fault: an absent field is written.
NoCoalesce(new, old) == new

Coalesce(new, old) == IF new = None THEN old ELSE new

\* assert_not_last_admin
AdminRemains(u, new, b) ==
  \/ new \in {None, "admin"} /\ b \in {None, TRUE}
  \/ role[u] # "admin" \/ ~is_active[u]
  \/ \E v \in Users \ {u} : role[v] = "admin" /\ is_active[v]

\* update_user; an absent field is None.
PatchUser(x, u, new, b) ==
  LET ro == Coalesce(new, role[u]) IN
  /\ pc[x] = "handle" /\ req[x].perm = "ManageUsers"
  /\ new # None \/ b # None
  /\ role[u] # None
  /\ AdminRemains(u, new, b)
  /\ role' = [role EXCEPT ![u] = ro]
  /\ is_active' = [is_active EXCEPT ![u] = Coalesce(b, @)]
  /\ lost' = IF ro = role[u] THEN lost ELSE [lost EXCEPT ![u][role[u]] = clock]
  /\ Finish(x)
  /\ UNCHANGED <<clock, ahead, tokens>>

----------------------------------------------------------------------------
Next ==
  \/ Tick
  \/ \E x \in Requests :
       \/ \E u \in Users, r \in Replicas : Login(x, u, r) \/ Refresh(x, u, r)
       \/ ReadRole(x)
       \/ Issue(x)
       \/ \E t \in tokens, p \in Permissions, r \in Replicas : Call(x, t, p, r)
       \/ Handle(x)
       \/ \E u \in Users, ro \in Roles : CreateUser(x, u, ro)
       \/ \E u \in Users, new \in Roles \cup {None}, b \in BOOLEAN \cup {None} :
            PatchUser(x, u, new, b)
       \/ Abort(x)

Spec == Init /\ [][Next]_vars

----------------------------------------------------------------------------
(* Properties.                                                             *)

\* u has the role, or lost it so late that a token read before it may still be
\* accepted at n by some replica.
HeldRecently(u, ro, n) ==
  role[u] = ro \/ (lost[u][ro] # None /\ n < lost[u][ro] + AccessTtl + MaxSkew)

\* Whoever is in a handler holds, or held less than one token's lifetime before
\* the guard, a role that permits it: however long a login or a refresh took
\* between reading the role and answering, on whichever replicas, and whatever
\* PATCHes came in between (Require, issue_access with the `now` of the request's
\* beginning).
ActsWithinAuthority ==
  \A x \in Requests : pc[x] = "handle" =>
    \E ro \in Roles :
      Permits(ro, req[x].perm) /\ HeldRecently(req[x].user, ro, req[x].at)

\* A token is accepted by every replica from the moment it is issued until it
\* expires there, also by one whose clock is behind the issuer's
\* (MAX_IAT_SKEW_SECS: 'minted slightly "in the future" by another instance is
\* accepted').
AcceptedWhileLive ==
  \A t \in tokens, r \in Replicas : Clock(r) < t.exp => Accepts(t, Clock(r))
=============================================================================
