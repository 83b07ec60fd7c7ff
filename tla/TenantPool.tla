----------------------------- MODULE TenantPool -----------------------------
(***************************************************************************)
(* The pool of database connections and the transactions scoped to one     *)
(* tenant (src/backend/src/db.rs), shared by all requests of all tenants.  *)
(*                                                                         *)
(* A handler uses the pool several times in a row, one connection at a     *)
(* time.  begin_tenant_tx is pool.begin and then set_config of             *)
(* app.current_tenant, local to the transaction; the policies of           *)
(* Row-Level Security compare it with tenant_id.  A transaction that is    *)
(* dropped (an error, a timeout, a panic, a client that went away) is      *)
(* rolled back when the connection is recycled, before the pool lends it   *)
(* again.                                                                  *)
(***************************************************************************)
EXTENDS Naturals, FiniteSets

CONSTANTS
  Tenants,
  Conns,     \* max_connections of them
  Requests,  \* slots for requests in flight at the same time (bound)
  None

ASSUME PoolAssumption == None \notin Tenants \cup Conns

VARIABLES
  pc,       \* where each request is in its use of the pool
  tenant,   \* whom it acts for; None before the tenant is resolved
  conn,     \* the connection it has checked out
  open,     \* connections with a transaction that has not ended
  setting   \* app.current_tenant on each connection, None: NULL or ''

poolVars == <<pc, tenant, conn, open, setting>>

\* "out": between two uses of the pool, with no connection.
PoolTypeOK ==
  /\ pc \in [Requests -> {"idle", "wait", "bare", "scoped", "done", "out"}]
  /\ tenant \in [Requests -> Tenants \cup {None}]
  /\ conn \in [Requests -> Conns \cup {None}]
  /\ open \in SUBSET Conns
  /\ setting \in [Conns -> Tenants \cup {None}]

PoolInit ==
  /\ pc = [x \in Requests |-> "idle"]
  /\ tenant = [x \in Requests |-> None]
  /\ conn = [x \in Requests |-> None]
  /\ open = {}
  /\ setting = [c \in Conns |-> None]

----------------------------------------------------------------------------
GoTo(x, where) == pc' = [pc EXCEPT ![x] = where]

Lent(c) == \E x \in Requests : conn[x] = c

Free(c) == ~Lent(c) /\ c \notin open

\* A request arrives: for the tenant of its access token, or, at login, for none
\* yet.
Arrive(x, t) ==
  /\ pc[x] = "idle"
  /\ GoTo(x, "wait")
  /\ tenant' = [tenant EXCEPT ![x] = t]
  /\ UNCHANGED <<conn, open, setting>>

\* begin_tenant_tx: pool.begin, then SELECT set_config(TENANT_GUC, tenant, true).
\* Between the two nobody else sees the connection, and giving up there is like
\* giving up after both.
BeginTenantTx(x, c) ==
  /\ pc[x] = "wait"
  /\ tenant[x] # None
  /\ Free(c)
  /\ GoTo(x, "scoped")
  /\ conn' = [conn EXCEPT ![x] = c]
  /\ open' = open \cup {c}
  /\ setting' = [setting EXCEPT ![c] = tenant[x]]
  /\ UNCHANGED tenant

\* A statement on the pool itself, outside a transaction.
Acquire(x, c) ==
  /\ pc[x] = "wait"
  /\ tenant[x] = None
  /\ Free(c)
  /\ GoTo(x, "bare")
  /\ conn' = [conn EXCEPT ![x] = c]
  /\ UNCHANGED <<tenant, open, setting>>

\* The statements of the transaction.
Execute(x) ==
  /\ pc[x] = "scoped"
  /\ GoTo(x, "done")
  /\ UNCHANGED <<tenant, conn, open, setting>>

\* The tenant whose rows a statement of x can see, or write.
Visible(x) == setting[conn[x]]

\* Fault: set_config(..., false), a setting of the session.
CommitKeepsSetting(x) ==
  /\ pc[x] = "done"
  /\ GoTo(x, "out")
  /\ conn' = [conn EXCEPT ![x] = None]
  /\ open' = open \ {conn[x]}
  /\ UNCHANGED <<tenant, setting>>

\* Fault: the next connection is taken before this one is given back.
CommitAfterNext(x) ==
  /\ pc[x] = "done"
  /\ \E c \in Conns : Free(c)
  /\ GoTo(x, "out")
  /\ conn' = [conn EXCEPT ![x] = None]
  /\ open' = open \ {conn[x]}
  /\ setting' = [setting EXCEPT ![conn[x]] = None]
  /\ UNCHANGED tenant

\* The end of a transaction undoes a local setting.
Commit(x) ==
  /\ pc[x] = "done"
  /\ GoTo(x, "out")
  /\ conn' = [conn EXCEPT ![x] = None]
  /\ open' = open \ {conn[x]}
  /\ setting' = [setting EXCEPT ![conn[x]] = None]
  /\ UNCHANGED tenant

\* resolve_by_slug and ping: one statement on the bare pool.
Bare(x) ==
  /\ pc[x] = "bare"
  /\ GoTo(x, "out")
  /\ conn' = [conn EXCEPT ![x] = None]
  /\ UNCHANGED <<tenant, open, setting>>

\* The handler's next transaction, for the tenant it has resolved.
Again(x, t) ==
  /\ pc[x] = "out"
  /\ tenant[x] \in {None, t}
  /\ GoTo(x, "wait")
  /\ tenant' = [tenant EXCEPT ![x] = t]
  /\ UNCHANGED <<conn, open, setting>>

EndRequest(x) ==
  /\ GoTo(x, "idle")
  /\ tenant' = [tenant EXCEPT ![x] = None]
  /\ conn' = [conn EXCEPT ![x] = None]
  /\ UNCHANGED <<open, setting>>

Answer(x) == pc[x] = "out" /\ EndRequest(x)

\* An error, a timeout, acquire_timeout, a panic or a disconnect.  The
\* connection keeps its transaction until it is recycled.
Drop(x) == pc[x] # "idle" /\ EndRequest(x)

\* A part of the handler that may fail is given up; the request goes on.
Abandon(x) ==
  /\ pc[x] \in {"wait", "scoped", "done"}
  /\ GoTo(x, "out")
  /\ conn' = [conn EXCEPT ![x] = None]
  /\ UNCHANGED <<tenant, open, setting>>

Recycle(c) ==
  /\ c \in open /\ ~Lent(c)
  /\ open' = open \ {c}
  /\ setting' = [setting EXCEPT ![c] = None]
  /\ UNCHANGED <<pc, tenant, conn>>

PoolNext ==
  \/ \E x \in Requests :
       \/ \E t \in Tenants \cup {None} : Arrive(x, t)
       \/ \E c \in Conns : BeginTenantTx(x, c) \/ Acquire(x, c)
       \/ Execute(x)
       \/ Commit(x)
       \/ Bare(x)
       \/ \E t \in Tenants : Again(x, t)
       \/ Answer(x)
       \/ Drop(x)
       \/ Abandon(x)
  \/ \E c \in Conns : Recycle(c)

PoolSpec == PoolInit /\ [][PoolNext]_poolVars

----------------------------------------------------------------------------
(* Properties.                                                             *)

\* Statements run on a connection nobody else has, set to the tenant of the
\* request; and a connection that the pool may lend carries no tenant, however
\* its last transaction ended (begin_tenant_tx: "the setting never leaks to the
\* next checkout of this pooled connection").
TenantIsolation ==
  /\ \A x \in Requests : pc[x] \in {"scoped", "done"} =>
       /\ conn[x] # None
       /\ Visible(x) = tenant[x] /\ tenant[x] # None
       /\ \A y \in Requests : conn[y] = conn[x] => y = x
  /\ \A c \in Conns : Free(c) => setting[c] = None
=============================================================================
