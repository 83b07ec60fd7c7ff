------------------------------ MODULE UserAdmin ------------------------------
(***************************************************************************)
(* The last-admin guard of the user-management API                         *)
(* (src/backend/src/http/routes/users.rs): concurrent PATCHes of a user's  *)
(* role and active state, each one transaction of Postgres at READ         *)
(* COMMITTED, and the creation of users.                                   *)
(*                                                                         *)
(* SELECT ... ORDER BY id FOR UPDATE is a snapshot (Select) whose rows are *)
(* then locked one at a time in id order (LockNext); a row that is no      *)
(* longer an active admin when its lock is obtained stays locked and is    *)
(* left out of the result.  Locks are held to the end of the transaction.  *)
(***************************************************************************)
EXTENDS Naturals, FiniteSets

CONSTANTS
  Users,    \* user ids; their order is the order of the uuids
  Roles,
  Patches,  \* the PATCH bodies, with their target, that callers send
  Requests  \* slots for requests in flight at the same time (bound)

Statuses == {"active", "inactive"}

\* A PATCH: "keep" stands for an absent field.
Patch == [target : Users, role : Roles \cup {"keep"},
          status : Statuses \cup {"keep"}]

\* What an idle slot holds.
NoPatch == CHOOSE p \in Patch : TRUE

ASSUME UsersAssumption == Users \subseteq Nat /\ Users # {}
ASSUME RolesAssumption == "admin" \in Roles /\ "keep" \notin Roles
ASSUME PatchesAssumption == Patches \subseteq Patch

VARIABLES
  rows,          \* ids of the committed rows of users
  role, status,  \* their committed columns (status: is_active)
  pc,            \* where each request is
  patch,         \* what it was asked to do
  todo,          \* rows of its snapshot it has still to lock
  locked,        \* rows it has locked
  admins         \* active_admins: the result of its SELECT ... FOR UPDATE

tableVars == <<rows, role, status>>
vars == <<tableVars, pc, patch, todo, locked, admins>>

TypeOK ==
  /\ rows \in SUBSET Users
  /\ role \in [Users -> Roles]
  /\ status \in [Users -> Statuses]
  /\ pc \in [Requests -> {"idle", "select", "lock", "update", "commit"}]
  /\ patch \in [Requests -> Patch]
  /\ todo \in [Requests -> SUBSET Users]
  /\ locked \in [Requests -> SUBSET Users]
  /\ admins \in [Requests -> SUBSET Users]

ActiveAdmins == {u \in rows : role[u] = "admin" /\ status[u] = "active"}

\* A tenant is provisioned with an active admin.
Init ==
  /\ rows \in SUBSET Users
  /\ role \in [Users -> Roles]
  /\ status \in [Users -> Statuses]
  /\ ActiveAdmins # {}
  /\ pc = [x \in Requests |-> "idle"]
  /\ patch = [x \in Requests |-> NoPatch]
  /\ todo = [x \in Requests |-> {}]
  /\ locked = [x \in Requests |-> {}]
  /\ admins = [x \in Requests |-> {}]

----------------------------------------------------------------------------
RowFree(x, u) == \A y \in Requests \ {x} : u \notin locked[y]

\* stays_admin && stays_active: the patch cannot remove an active admin.
FastPath(p) == p.role \in {"admin", "keep"} /\ p.status \in {"active", "keep"}

\* Ending a transaction, by its commit or by rolling back, frees its locks.
Finish(x) ==
  /\ pc' = [pc EXCEPT ![x] = "idle"]
  /\ patch' = [patch EXCEPT ![x] = NoPatch]
  /\ todo' = [todo EXCEPT ![x] = {}]
  /\ locked' = [locked EXCEPT ![x] = {}]
  /\ admins' = [admins EXCEPT ![x] = {}]

\* update_user: an empty patch is refused without a transaction.
Begin(x, p) ==
  /\ pc[x] = "idle"
  /\ p.role # "keep" \/ p.status # "keep"
  /\ patch' = [patch EXCEPT ![x] = p]
  /\ pc' = [pc EXCEPT ![x] = IF FastPath(p) THEN "update" ELSE "select"]
  /\ UNCHANGED <<tableVars, todo, locked, admins>>

\* The snapshot of assert_not_last_admin's query.
Select(x) ==
  /\ pc[x] = "select"
  /\ todo' = [todo EXCEPT ![x] = ActiveAdmins]
  /\ pc' = [pc EXCEPT ![x] = "lock"]
  /\ UNCHANGED <<tableVars, patch, locked, admins>>

\* Fault: no ORDER BY id.
MayLockAnyOrder(x, u) == u \in todo[x]

\* Rows are locked in id order.
MayLock(x, u) == u \in todo[x] /\ \A v \in todo[x] : u <= v

\* Fault: the row as it was in the snapshot.
StaleSnapshot(u) == {u}

\* A locked row enters the result if it still is an active admin.
Recheck(u) == {u} \cap ActiveAdmins

LockNext(x, u) ==
  /\ pc[x] = "lock"
  /\ MayLock(x, u)
  /\ RowFree(x, u)
  /\ todo' = [todo EXCEPT ![x] = @ \ {u}]
  /\ locked' = [locked EXCEPT ![x] = @ \cup {u}]
  /\ admins' = [admins EXCEPT ![x] = @ \cup Recheck(u)]
  /\ UNCHANGED <<tableVars, pc, patch>>

\* Fault: len() < 1.
AnyRemains(x) == patch[x].target \notin admins[x] \/ admins[x] # {}

\* The target is not an active admin, or another one remains.
AnotherRemains(x) ==
  \/ patch[x].target \notin admins[x]
  \/ admins[x] # {patch[x].target}

\* Fault: LastAdmin leaves the transaction open.
CheckStaysOpen(x) ==
  /\ pc[x] = "lock"
  /\ todo[x] = {}
  /\ AnotherRemains(x)
  /\ pc' = [pc EXCEPT ![x] = "update"]
  /\ UNCHANGED <<tableVars, patch, todo, locked, admins>>

\* The decision over the locked set; LastAdmin rolls back.
Check(x) ==
  /\ pc[x] = "lock"
  /\ todo[x] = {}
  /\ \/ /\ AnotherRemains(x)
        /\ pc' = [pc EXCEPT ![x] = "update"]
        /\ UNCHANGED <<patch, todo, locked, admins>>
     \/ ~AnotherRemains(x) /\ Finish(x)
  /\ UNCHANGED tableVars

\* patch_user finds the row by id and locks it; no such row is a 404.
Update(x) ==
  LET u == patch[x].target IN
  /\ pc[x] = "update"
  /\ \/ /\ u \in rows
        /\ RowFree(x, u)
        /\ locked' = [locked EXCEPT ![x] = @ \cup {u}]
        /\ pc' = [pc EXCEPT ![x] = "commit"]
        /\ UNCHANGED <<patch, todo, admins>>
     \/ u \notin rows /\ Finish(x)
  /\ UNCHANGED tableVars

\* Fault: an absent field overwrites the column.
NoCoalesce(new, old) == new

Coalesce(new, old) == IF new = "keep" THEN old ELSE new

\* The patch applies to the newest version, which the lock has held still.
Commit(x) ==
  LET p == patch[x] IN
  /\ pc[x] = "commit"
  /\ role' = [role EXCEPT ![p.target] = Coalesce(p.role, @)]
  /\ status' = [status EXCEPT ![p.target] = Coalesce(p.status, @)]
  /\ Finish(x)
  /\ UNCHANGED rows

\* create_user inserts an active user.  The id is minted by the database: no
\* request under way can have named it.  A taken email changes nothing.
CreateUser(u, r) ==
  /\ u \notin rows
  /\ \A x \in Requests : pc[x] # "idle" => patch[x].target # u
  /\ rows' = rows \cup {u}
  /\ role' = [role EXCEPT ![u] = r]
  /\ status' = [status EXCEPT ![u] = "active"]
  /\ UNCHANGED <<pc, patch, todo, locked, admins>>

\* A fault, a timeout or a crash before the commit.  (An answer lost after it
\* changes nothing here.)
Abort(x) ==
  /\ pc[x] # "idle"
  /\ Finish(x)
  /\ UNCHANGED tableVars

\* y holds a row that x waits for.
Blocks(y, x) ==
  \E u \in locked[y] :
    \/ pc[x] = "lock" /\ MayLock(x, u)
    \/ pc[x] = "update" /\ patch[x].target = u

\* Requests each of which waits for another one of them.
WaitCycle(S) == S # {} /\ \A x \in S : \E y \in S \ {x} : Blocks(y, x)

\* Postgres's deadlock detector fails a request of a cycle, never one that only
\* waits for a cycle.
DetectDeadlock(x) ==
  /\ \E S \in SUBSET Requests :
       /\ x \in S
       /\ WaitCycle(S)
       /\ \A T \in SUBSET S : WaitCycle(T) => T = S
  /\ Finish(x)
  /\ UNCHANGED tableVars

Work(x) ==
  \/ Select(x)
  \/ \E u \in Users : LockNext(x, u)
  \/ Check(x)
  \/ Update(x)
  \/ Commit(x)

Next ==
  \/ \E x \in Requests :
       \/ \E p \in Patches : Begin(x, p)
       \/ Work(x)
       \/ Abort(x)
       \/ DetectDeadlock(x)
  \/ \E u \in Users, r \in Roles : CreateUser(u, r)

Spec == Init /\ [][Next]_vars

\* Requests keep running, and a waiter gets a row lock that is freed again and
\* again: Postgres queues waiters, hence strong fairness.  Its deadlock detector
\* runs after deadlock_timeout (1 s).  No timeout of the application is assumed.
FairSpec ==
  /\ Spec
  /\ \A x \in Requests : SF_vars(Work(x))
  /\ WF_vars(\E x \in Requests : DetectDeadlock(x))

----------------------------------------------------------------------------
(* Properties.                                                             *)

\* A request that saw its target among the active admins and passed the guard
\* will leave another active admin, whatever the others do until it commits
\* (assert_not_last_admin: "another must remain").
CheckedRemovalIsSafe ==
  \A x \in Requests :
    pc[x] \in {"update", "commit"} /\ patch[x].target \in admins[x] =>
      ActiveAdmins \ {patch[x].target} # {}

\* SPEC.md: the guard "refuses any change that would leave a tenant with no
\* active admin".  It holds when no PATCH promotes or reactivates anyone.
SomeActiveAdmin == ActiveAdmins # {}

\* assert_not_last_admin locks the admins in id order: requests whose target was
\* among the active admins of their snapshot never wait for one another in a
\* cycle, however often the set changes under them.  (Others can: the row of a
\* target that was demoted meanwhile stays locked by whoever waited for it.)
AdminRemovalsDoNotDeadlock ==
  ~\E S \in SUBSET {x \in Requests : patch[x].target \in locked[x] \cup todo[x]} :
     WaitCycle(S)

\* Every PATCH ends, at worst by the deadlock detector, never by a timeout of
\* the application.
RequestsFinish ==
  \A x \in Requests : pc[x] # "idle" ~> pc[x] = "idle"
=============================================================================
