------------------------------- MODULE Settings -------------------------------
(***************************************************************************)
(* The business settings (src/backend/src/http/routes/settings.rs): one    *)
(* row per tenant, replaced whole by PUT, and the logo it may name, an     *)
(* asset that is looked up in a second transaction and presigned.          *)
(*                                                                         *)
(* The module composes the pool, from which every transaction takes its    *)
(* connection, with the life of the assets, which goes on meanwhile.  row  *)
(* holds committed rows only; an upsert holds the row's lock until its     *)
(* transaction ends.                                                       *)
(***************************************************************************)
EXTENDS TenantPool

CONSTANTS
  Assets,  \* assets whose row exists (bound)
  Owner,   \* the tenant of each asset
  Texts,   \* of the columns other than logo_url
  Bodies   \* the bodies that clients of each tenant PUT

\* A configuration; a logo_url that is no asset's id is like none.
Body == [text : Texts, logo : Assets \cup {None}]

ASSUME SettingsAssumption ==
  /\ Owner \in [Assets -> Tenants]
  /\ Bodies \in [Tenants -> SUBSET Body]
  /\ None \notin Assets \cup Body

VARIABLES
  row,     \* business_settings
  locker,  \* the connection that holds the lock of a tenant's row
  asset,   \* the status of each asset
  op, body,  \* what a request was asked to do, with what
  stage,   \* which transaction of the handler it is in or has left
  answer,  \* the row it has read or written
  url      \* the asset it has looked up and presigns

requestVars == <<op, body, stage, answer, url>>
settingsVars == <<row, locker, asset, requestVars>>
vars == <<poolVars, settingsVars>>

Life == INSTANCE AssetLife WITH status <- asset

TypeOK ==
  /\ PoolTypeOK
  /\ row \in [Tenants -> Body \cup {None}]
  /\ locker \in [Tenants -> Conns \cup {None}]
  /\ asset \in [Assets -> {"pending", "ready", "deleted"}]
  /\ op \in [Requests -> {"none", "get", "put", "other"}]
  /\ body \in [Requests -> Body \cup {None}]
  /\ \A x \in Requests : op[x] = "put" => body[x] # None
  /\ stage \in [Requests -> {"row", "logo"}]
  /\ answer \in [Requests -> Body \cup {None}]
  /\ url \in [Requests -> Assets \cup {None}]
  /\ \A x \in Requests : op[x] = "none" =>
       body[x] = None /\ answer[x] = None /\ url[x] = None

Init ==
  /\ PoolInit
  /\ row = [t \in Tenants |-> None]
  /\ locker = [t \in Tenants |-> None]
  /\ asset = [a \in Assets |-> "pending"]
  /\ op = [x \in Requests |-> "none"]
  /\ body = [x \in Requests |-> None]
  /\ stage = [x \in Requests |-> "row"]
  /\ answer = [x \in Requests |-> None]
  /\ url = [x \in Requests |-> None]

----------------------------------------------------------------------------
(* The life of a request.                                                  *)

Begin(x, t, o, b) ==
  /\ Arrive(x, t)
  /\ op' = [op EXCEPT ![x] = o]
  /\ body' = [body EXCEPT ![x] = b]
  /\ UNCHANGED <<row, locker, asset, stage, answer, url>>

GetSettings(x, t) == Begin(x, t, "get", None)

PutSettings(x, t) == \E b \in Bodies[t] : Begin(x, t, "put", b)

\* Login and the probes: here they only use the pool.
OtherRequest(x) == Begin(x, None, "other", None)

\* Fault: the logo is kept where the next request finds it.
ForgetButUrl(x) ==
  /\ op' = [op EXCEPT ![x] = "none"]
  /\ body' = [body EXCEPT ![x] = None]
  /\ stage' = [stage EXCEPT ![x] = "row"]
  /\ answer' = [answer EXCEPT ![x] = None]
  /\ UNCHANGED <<url, row, locker, asset>>

Forget(x) ==
  /\ op' = [op EXCEPT ![x] = "none"]
  /\ body' = [body EXCEPT ![x] = None]
  /\ stage' = [stage EXCEPT ![x] = "row"]
  /\ answer' = [answer EXCEPT ![x] = None]
  /\ url' = [url EXCEPT ![x] = None]
  /\ UNCHANGED <<row, locker, asset>>

\* A request fails as a whole: 500, 504, or nobody reads the answer.
Fail(x) == Drop(x) /\ Forget(x)

\* The locks of a transaction go with it.
Unlocked(c) == [t \in Tenants |-> IF locker[t] = c THEN None ELSE locker[t]]

RecycleConn(c) ==
  /\ Recycle(c)
  /\ locker' = Unlocked(c)
  /\ UNCHANGED <<row, asset, requestVars>>

----------------------------------------------------------------------------
(* The first transaction: load_row or upsert_row.                          *)

\* Fault: a SELECT without a WHERE, and without the policy.
AnyRow(x) ==
  IF \E t \in Tenants : row[t] # None
  THEN row[CHOOSE t \in Tenants : row[t] # None] ELSE None

\* SELECT_SETTINGS has no WHERE either: the policy picks the row.
VisibleRow(x) == row[Visible(x)]

LoadRow(x) ==
  /\ op[x] = "get" /\ stage[x] = "row"
  /\ Execute(x)
  /\ answer' = [answer EXCEPT ![x] = VisibleRow(x)]
  /\ UNCHANGED <<row, locker, asset, op, body, stage, url>>

\* DO UPDATE sets every column to EXCLUDED's.
UpsertRow(x) ==
  /\ op[x] = "put" /\ stage[x] = "row"
  /\ Execute(x)
  /\ locker[Visible(x)] = None
  /\ locker' = [locker EXCEPT ![Visible(x)] = conn[x]]
  /\ answer' = [answer EXCEPT ![x] = body[x]]
  /\ UNCHANGED <<row, asset, op, body, stage, url>>

CommitRow(x) ==
  /\ op[x] \in {"get", "put"} /\ stage[x] = "row"
  /\ Commit(x)
  /\ row' = [t \in Tenants |->
               IF op[x] = "put" /\ locker[t] = conn[x] THEN answer[x] ELSE row[t]]
  /\ locker' = Unlocked(conn[x])
  /\ UNCHANGED <<asset, requestVars>>

----------------------------------------------------------------------------
(* attach_logo and resolve_logo: the second transaction and the URL.       *)

NamesLogo(x) == answer[x] # None /\ answer[x].logo # None

ResolveLogo(x) ==
  /\ op[x] \in {"get", "put"} /\ stage[x] = "row"
  /\ NamesLogo(x)
  /\ Again(x, tenant[x])
  /\ stage' = [stage EXCEPT ![x] = "logo"]
  /\ UNCHANGED <<row, locker, asset, op, body, answer, url>>

\* Fault: any asset that is not deleted.
ServableUnready(s) == s \in {"pending", "ready"}

Servable(s) == s = "ready"

\* assets::repo::get under the policy, then the check of the status.
FetchLogo(x) ==
  LET a == answer[x].logo IN
  /\ stage[x] = "logo"
  /\ Execute(x)
  /\ url' = [url EXCEPT ![x] =
               IF Owner[a] = Visible(x) /\ Servable(asset[a]) THEN a ELSE None]
  /\ UNCHANGED <<row, locker, asset, op, body, stage, answer>>

\* The connection goes back before presign_get.
CommitLogo(x) ==
  /\ stage[x] = "logo"
  /\ Commit(x)
  /\ UNCHANGED settingsVars

\* No URL, whatever goes wrong in the transaction or in presign_get: resolution
\* never fails the response.
GiveUpLogo(x) ==
  /\ stage[x] = "logo"
  /\ \/ Abandon(x)
     \/ pc[x] = "out" /\ UNCHANGED poolVars
  /\ url' = [url EXCEPT ![x] = None]
  /\ UNCHANGED <<row, locker, asset, op, body, stage, answer>>

\* A GET without a row is a 404.
Reply(x) ==
  /\ op[x] \in {"get", "put"}
  /\ stage[x] = "logo" \/ ~NamesLogo(x)
  /\ Answer(x)
  /\ Forget(x)

----------------------------------------------------------------------------
\* login: resolve_by_slug on the bare pool, then the statements and the COMMIT of
\* its transaction; check_database, the probe: one bare statement.
OtherStep(x) ==
  /\ op[x] = "other"
  /\ \/ Execute(x) /\ UNCHANGED settingsVars
     \/ Commit(x) /\ UNCHANGED settingsVars
     \/ Bare(x) /\ UNCHANGED settingsVars
     \/ Answer(x) /\ Forget(x)

\* login, between the two: resolve_by_slug has found the tenant.
TenantResolved(x) ==
  /\ op[x] = "other" /\ tenant[x] = None
  /\ \E t \in Tenants : Again(x, t)
  /\ UNCHANGED settingsVars

Work(x) ==
  \/ \E c \in Conns : (BeginTenantTx(x, c) \/ Acquire(x, c)) /\ UNCHANGED settingsVars
  \/ LoadRow(x)
  \/ UpsertRow(x)
  \/ CommitRow(x)
  \/ ResolveLogo(x)
  \/ FetchLogo(x)
  \/ CommitLogo(x)
  \/ Reply(x)
  \/ OtherStep(x)

\* The file service goes on meanwhile (module Assets).
AssetChanges ==
  /\ \E a \in Assets : Life!Confirm(a) \/ Life!Discard(a)
  /\ UNCHANGED <<poolVars, row, locker, requestVars>>

Next ==
  \/ \E x \in Requests :
       \/ \E t \in Tenants : GetSettings(x, t) \/ PutSettings(x, t)
       \/ OtherRequest(x)
       \/ Work(x)
       \/ TenantResolved(x)
       \/ GiveUpLogo(x)
       \/ Fail(x)
  \/ \E c \in Conns : RecycleConn(c)
  \/ AssetChanges

Spec == Init /\ [][Next]_vars

\* Requests keep running.  The pool and Postgres serve waiters in their order,
\* hence strong fairness; a dropped connection is recycled.  No timeout is
\* assumed.
FairSpec ==
  /\ Spec
  /\ \A x \in Requests : SF_vars(Work(x))
  /\ \A c \in Conns : WF_vars(RecycleConn(c))

----------------------------------------------------------------------------
(* Properties.                                                             *)

\* A tenant's row is a body that was PUT for this tenant, and an answer holds a
\* row of the caller's tenant, though SELECT_SETTINGS names no tenant and
\* connections serve all of them.  (That a row is one body whole is the form of
\* UPSERT_SETTINGS, which sets every column: here a body is one value.)
OwnSettings ==
  /\ \A t \in Tenants : row[t] # None => row[t] \in Bodies[t]
  /\ \A x \in Requests : answer[x] # None => answer[x] \in Bodies[tenant[x]]

\* A logo's URL is for the asset that the row of the same answer names, which is
\* the tenant's own and has been ready, whatever happened to the row and to the
\* asset between the two transactions (resolve_logo).
UrlIsOwnReadyAsset ==
  \A x \in Requests : url[x] # None =>
    /\ url[x] = answer[x].logo
    /\ Owner[url[x]] = tenant[x]
    /\ asset[url[x]] \in {"ready", "deleted"}

\* Every request ends without the help of a timeout: with the pool empty and
\* requests waiting for a row, whoever holds a connection needs no second one
\* ("committing before the presign so the pooled connection is released").
RequestsFinish ==
  \A x \in Requests : pc[x] # "idle" ~> pc[x] = "idle"
===============================================================================
