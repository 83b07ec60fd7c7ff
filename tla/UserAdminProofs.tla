--------------------------- MODULE UserAdminProofs ---------------------------
(***************************************************************************)
(* For every set of users, roles, patches and concurrent requests: the     *)
(* guard's own promise (CheckedRemovalIsSafe), the tenant's                *)
(* (SomeActiveAdmin) unless a promotion commits after the snapshot of a    *)
(* removal of the same user, and that removals which saw their target      *)
(* never deadlock, and every PATCH has boundedly many steps left.          *)
(***************************************************************************)
EXTENDS UserAdmin, FiniteSetTheorems, TLAPS, WellFoundedInduction

\* Row locks exclude one another.
LocksExclusive ==
  \A x, y \in Requests : x # y => locked[x] \cap locked[y] = {}

\* What a request counted it still holds, and it still is an active admin.
CountedHeld ==
  \A x \in Requests : admins[x] \subseteq locked[x] \cap ActiveAdmins

\* Nothing is counted before the snapshot; afterwards the guard was passed.
GuardPassed ==
  \A x \in Requests :
    /\ pc[x] \in {"idle", "select"} => admins[x] = {}
    /\ pc[x] \in {"update", "commit"} => AnotherRemains(x)

\* patch_user holds the row it is about to change.
TargetHeld ==
  \A x \in Requests : pc[x] = "commit" => patch[x].target \in locked[x] \cap rows

Inv ==
  /\ TypeOK
  /\ LocksExclusive
  /\ CountedHeld
  /\ GuardPassed
  /\ TargetHeld

----------------------------------------------------------------------------
(* Typing.                                                                 *)

LEMMA NoPatchType == NoPatch \in Patch
<1>1. PICK u \in Users : TRUE
  BY UsersAssumption
<1>2. [target |-> u, role |-> "keep", status |-> "keep"] \in Patch
  BY DEF Patch
<1> QED
  BY <1>2 DEF NoPatch

LEMMA FinishType ==
  ASSUME TypeOK, NEW x \in Requests, Finish(x), UNCHANGED tableVars
  PROVE  TypeOK'
BY NoPatchType DEF TypeOK, Finish, tableVars

\* Every step keeps the variables in their types (the columns, the requests).
LEMMA TypeStep == TypeOK /\ [Next]_vars => TypeOK'
<1> SUFFICES ASSUME TypeOK, [Next]_vars
             PROVE  TypeOK'
  OBVIOUS
<1>1. ASSUME NEW x \in Requests, NEW p \in Patches, Begin(x, p)
      PROVE  TypeOK'
  BY <1>1, PatchesAssumption DEF TypeOK, Begin, tableVars
<1>2. ASSUME NEW x \in Requests, Select(x)
      PROVE  TypeOK'
  BY <1>2 DEF TypeOK, Select, tableVars, ActiveAdmins
<1>3. ASSUME NEW x \in Requests, NEW u \in Users, LockNext(x, u)
      PROVE  TypeOK'
  BY <1>3 DEF TypeOK, LockNext, tableVars, Recheck
<1>4. ASSUME NEW x \in Requests, Check(x)
      PROVE  TypeOK'
  <2>1. CASE Finish(x)
    BY <1>4, <2>1, FinishType DEF Check
  <2>2. CASE ~Finish(x)
    BY <1>4, <2>2 DEF TypeOK, Check, tableVars
  <2> QED
    BY <2>1, <2>2
<1>5. ASSUME NEW x \in Requests, Update(x)
      PROVE  TypeOK'
  <2>1. CASE Finish(x)
    BY <1>5, <2>1, FinishType DEF Update
  <2>2. CASE ~Finish(x)
    <3>1. patch[x] \in Patch /\ patch[x].target \in Users
      BY DEF TypeOK, Patch
    <3>2. locked' = [locked EXCEPT ![x] = @ \cup {patch[x].target}]
          /\ pc' = [pc EXCEPT ![x] = "commit"]
          /\ UNCHANGED <<tableVars, patch, todo, admins>>
      BY <1>5, <2>2 DEF Update
    <3> QED
      BY <3>1, <3>2 DEF TypeOK, tableVars
  <2> QED
    BY <2>1, <2>2
<1>6. ASSUME NEW x \in Requests, Commit(x)
      PROVE  TypeOK'
  <2>1. patch[x] \in Patch
    BY DEF TypeOK
  <2>2. role' \in [Users -> Roles] /\ status' \in [Users -> Statuses]
    BY <1>6, <2>1 DEF TypeOK, Commit, Coalesce, Patch
  <2> QED
    BY <1>6, <2>2, NoPatchType DEF TypeOK, Commit, Finish
<1>7. ASSUME NEW x \in Requests, Abort(x) \/ DetectDeadlock(x)
      PROVE  TypeOK'
  BY <1>7, FinishType DEF Abort, DetectDeadlock
<1>8. ASSUME NEW u \in Users, NEW r \in Roles, CreateUser(u, r)
      PROVE  TypeOK'
  BY <1>8 DEF TypeOK, CreateUser, Statuses
<1>9. CASE UNCHANGED vars
  BY <1>9 DEF TypeOK, vars, tableVars
<1> QED
  BY <1>1, <1>2, <1>3, <1>4, <1>5, <1>6, <1>7, <1>8, <1>9 DEF Next, Work

\* The committed rows and the requests' registers always have their types.
THEOREM TypeCorrect == Spec => []TypeOK
<1>1. Init => TypeOK
  BY NoPatchType DEF Init, TypeOK
<1> QED
  BY <1>1, TypeStep, PTL DEF Spec

----------------------------------------------------------------------------
(* The guard.                                                              *)

LEMMA InvInit == Init => Inv
BY NoPatchType DEF Init, Inv, TypeOK, LocksExclusive, CountedHeld, GuardPassed,
                   TargetHeld

\* A request that ends, with the table as it was, leaves the others alone.
LEMMA FinishInv ==
  ASSUME Inv, NEW x \in Requests, Finish(x), UNCHANGED tableVars
  PROVE  Inv'
<1>1. TypeOK'
  BY FinishType DEF Inv
<1>2. ActiveAdmins' = ActiveAdmins
  BY DEF ActiveAdmins, tableVars
<1>3. LocksExclusive' /\ CountedHeld'
  BY <1>2 DEF Inv, TypeOK, Finish, LocksExclusive, CountedHeld
<1>4. GuardPassed' /\ TargetHeld'
  BY DEF Inv, TypeOK, Finish, GuardPassed, TargetHeld, AnotherRemains, tableVars
<1> QED
  BY <1>1, <1>3, <1>4 DEF Inv

LEMMA BeginInv ==
  ASSUME Inv, NEW x \in Requests, NEW p \in Patches, Begin(x, p), TypeOK'
  PROVE  Inv'
<1>1. ActiveAdmins' = ActiveAdmins
  BY DEF ActiveAdmins, tableVars, Begin
<1>2. LocksExclusive' /\ CountedHeld'
  BY <1>1 DEF Inv, Begin, LocksExclusive, CountedHeld
<1>3. ASSUME NEW y \in Requests
      PROVE  /\ pc'[y] \in {"idle", "select"} => admins'[y] = {}
             /\ pc'[y] \in {"update", "commit"} => AnotherRemains(y)'
  <2>1. CASE y = x
    BY <2>1 DEF Inv, TypeOK, Begin, GuardPassed, AnotherRemains
  <2>2. CASE y # x
    BY <2>2 DEF Inv, TypeOK, Begin, GuardPassed, AnotherRemains
  <2> QED
    BY <2>1, <2>2
<1>4. TargetHeld'
  BY DEF Inv, TypeOK, Begin, TargetHeld, tableVars
<1> QED
  BY <1>2, <1>3, <1>4 DEF Inv, GuardPassed

LEMMA SelectInv ==
  ASSUME Inv, NEW x \in Requests, Select(x), TypeOK'
  PROVE  Inv'
<1>1. ActiveAdmins' = ActiveAdmins
  BY DEF ActiveAdmins, tableVars, Select
<1>2. LocksExclusive' /\ CountedHeld'
  BY <1>1 DEF Inv, Select, LocksExclusive, CountedHeld
<1>3. GuardPassed' /\ TargetHeld'
  BY DEF Inv, TypeOK, Select, GuardPassed, TargetHeld, AnotherRemains, tableVars
<1> QED
  BY <1>2, <1>3 DEF Inv

LEMMA LockNextInv ==
  ASSUME Inv, NEW x \in Requests, NEW u \in Users, LockNext(x, u), TypeOK'
  PROVE  Inv'
<1>1. ActiveAdmins' = ActiveAdmins
  BY DEF ActiveAdmins, tableVars, LockNext
<1>2. LocksExclusive'
  BY DEF Inv, TypeOK, LockNext, LocksExclusive, RowFree
<1>3. CountedHeld'
  BY <1>1 DEF Inv, TypeOK, LockNext, CountedHeld, Recheck
<1>4. GuardPassed' /\ TargetHeld'
  BY DEF Inv, TypeOK, LockNext, GuardPassed, TargetHeld, AnotherRemains, tableVars
<1> QED
  BY <1>2, <1>3, <1>4 DEF Inv

LEMMA CheckInv ==
  ASSUME Inv, NEW x \in Requests, Check(x), TypeOK'
  PROVE  Inv'
<1>1. CASE Finish(x)
  BY <1>1, FinishInv DEF Check
<1>2. CASE ~Finish(x)
  <2>1. /\ AnotherRemains(x)
        /\ pc' = [pc EXCEPT ![x] = "update"]
        /\ UNCHANGED <<rows, role, status, patch, todo, locked, admins>>
    BY <1>2 DEF Check, tableVars
  <2>2. LocksExclusive' /\ CountedHeld'
    BY <2>1 DEF Inv, LocksExclusive, CountedHeld, ActiveAdmins
  <2>3. GuardPassed' /\ TargetHeld'
    BY <2>1 DEF Inv, TypeOK, GuardPassed, TargetHeld, AnotherRemains
  <2> QED
    BY <2>2, <2>3 DEF Inv
<1> QED
  BY <1>1, <1>2

LEMMA UpdateInv ==
  ASSUME Inv, NEW x \in Requests, Update(x), TypeOK'
  PROVE  Inv'
<1>1. CASE Finish(x)
  BY <1>1, FinishInv DEF Update
<1>2. CASE ~Finish(x)
  <2> DEFINE u == patch[x].target
  <2>1. /\ u \in rows
        /\ RowFree(x, u)
        /\ pc[x] = "update"
        /\ locked' = [locked EXCEPT ![x] = @ \cup {u}]
        /\ pc' = [pc EXCEPT ![x] = "commit"]
        /\ UNCHANGED <<rows, role, status, patch, todo, admins>>
    BY <1>2 DEF Update, tableVars
  <2> HIDE DEF u
  <2>2. LocksExclusive'
    BY <2>1 DEF Inv, TypeOK, LocksExclusive, RowFree
  <2>3. CountedHeld'
    BY <2>1 DEF Inv, TypeOK, CountedHeld, ActiveAdmins
  <2>4. GuardPassed'
    BY <2>1 DEF Inv, TypeOK, GuardPassed, AnotherRemains
  <2>5. TargetHeld'
    BY <2>1 DEF Inv, TypeOK, TargetHeld, u
  <2> QED
    BY <2>2, <2>3, <2>4, <2>5 DEF Inv
<1> QED
  BY <1>1, <1>2

\* The row a commit changes is one no other request has counted.
LEMMA CommitInv ==
  ASSUME Inv, NEW x \in Requests, Commit(x), TypeOK'
  PROVE  Inv'
<1> DEFINE u == patch[x].target
<1>1. u \in locked[x] \cap rows
  BY DEF Inv, TargetHeld, Commit
<1>2. \A v \in Users : v # u => (v \in ActiveAdmins <=> v \in ActiveAdmins')
  BY DEF Inv, TypeOK, Commit, ActiveAdmins
<1> HIDE DEF u
<1>3. LocksExclusive'
  BY DEF Inv, TypeOK, Commit, Finish, LocksExclusive
<1>4. CountedHeld'
  <2> SUFFICES ASSUME NEW y \in Requests
               PROVE  admins'[y] \subseteq locked'[y] \cap ActiveAdmins'
    BY DEF CountedHeld
  <2>1. CASE y = x
    BY <2>1 DEF Inv, TypeOK, Commit, Finish
  <2>2. CASE y # x
    <3>1. u \notin locked[y]
      BY <1>1, <2>2 DEF Inv, LocksExclusive
    <3>2. admins'[y] = admins[y] /\ locked'[y] = locked[y]
      BY <2>2 DEF Inv, TypeOK, Commit, Finish
    <3> QED
      BY <1>2, <3>1, <3>2 DEF Inv, TypeOK, CountedHeld
  <2> QED
    BY <2>1, <2>2
<1>5. GuardPassed' /\ TargetHeld'
  BY DEF Inv, TypeOK, Commit, Finish, GuardPassed, TargetHeld, AnotherRemains
<1> QED
  BY <1>3, <1>4, <1>5 DEF Inv

LEMMA CreateUserInv ==
  ASSUME Inv, NEW u \in Users, NEW r \in Roles, CreateUser(u, r), TypeOK'
  PROVE  Inv'
<1>1. ActiveAdmins \subseteq ActiveAdmins'
  BY DEF Inv, TypeOK, CreateUser, ActiveAdmins
<1>2. LocksExclusive' /\ CountedHeld'
  BY <1>1 DEF Inv, CreateUser, LocksExclusive, CountedHeld
<1>3. GuardPassed' /\ TargetHeld'
  BY DEF Inv, CreateUser, GuardPassed, TargetHeld, AnotherRemains
<1> QED
  BY <1>2, <1>3 DEF Inv

LEMMA InvStep == Inv /\ [Next]_vars => Inv'
<1> SUFFICES ASSUME Inv, [Next]_vars
             PROVE  Inv'
  OBVIOUS
<1>0. TypeOK'
  BY TypeStep DEF Inv
<1>1. ASSUME NEW x \in Requests, Abort(x) \/ DetectDeadlock(x)
      PROVE  Inv'
  BY <1>1, FinishInv DEF Abort, DetectDeadlock
<1>2. CASE UNCHANGED vars
  BY <1>0, <1>2 DEF Inv, vars, tableVars, LocksExclusive, CountedHeld,
     GuardPassed, TargetHeld, AnotherRemains, ActiveAdmins
<1> QED
  BY <1>0, <1>1, <1>2, BeginInv, SelectInv, LockNextInv, CheckInv, UpdateInv,
     CommitInv, CreateUserInv DEF Next, Work

LEMMA InvHolds == Spec => []Inv
BY InvInit, InvStep, PTL DEF Spec

\* A request that counted its target among the active admins and passed the
\* guard leaves another active admin, for every set of patches, promotions
\* included (assert_not_last_admin).
THEOREM CheckedRemoval == Spec => []CheckedRemovalIsSafe
<1>1. Inv => CheckedRemovalIsSafe
  BY DEF Inv, CountedHeld, GuardPassed, AnotherRemains, CheckedRemovalIsSafe
<1> QED
  BY <1>1, InvHolds, PTL

----------------------------------------------------------------------------
(* The tenant keeps an active admin unless a promotion comes late.         *)

\* y makes x's target an active admin, and x, which removes it, will not look at
\* the row again: its snapshot had left it out.
LatePromotion(x, y) ==
  LET u == patch[x].target IN
  /\ pc[x] \in {"lock", "update"} /\ ~FastPath(patch[x]) /\ u \notin todo[x]
  /\ Commit(y) /\ FastPath(patch[y]) /\ patch[y].target = u
  /\ u \notin ActiveAdmins

NoLatePromotion == \A x, y \in Requests : ~LatePromotion(x, y)

\* A removal past its snapshot has the target in hand if the target is an active
\* admin.
Seen(x) ==
  /\ pc[x] # "idle" => patch[x] \in Patches
  /\ pc[x] \in {"lock", "update", "commit"} /\ ~FastPath(patch[x]) =>
       /\ patch[x].target \in ActiveAdmins => patch[x].target \in todo[x] \cup admins[x]
       /\ pc[x] # "lock" => todo[x] = {}

TargetSeen == \A x \in Requests : Seen(x)

KeptInv == Inv /\ TargetSeen /\ SomeActiveAdmin

\* A request that ends leaves the others' view of an unchanged table alone.
LEMMA FinishSeen ==
  ASSUME KeptInv, NEW x \in Requests, Finish(x), UNCHANGED tableVars
  PROVE  TargetSeen' /\ SomeActiveAdmin'
<1>1. ActiveAdmins' = ActiveAdmins
  BY DEF ActiveAdmins, tableVars
<1> QED
  BY <1>1 DEF KeptInv, Inv, TypeOK, TargetSeen, Seen, SomeActiveAdmin, Finish

\* The steps that change neither the table nor end a request.
LEMMA QuietSeen ==
  ASSUME KeptInv, NEW x \in Requests, UNCHANGED tableVars,
         \/ \E p \in Patches : Begin(x, p)
         \/ Select(x)
         \/ \E u \in Users : LockNext(x, u)
         \/ Check(x) /\ ~Finish(x)
         \/ Update(x) /\ ~Finish(x)
  PROVE  TargetSeen' /\ SomeActiveAdmin'
<1>1. ActiveAdmins' = ActiveAdmins
  BY DEF ActiveAdmins, tableVars
<1>2. ASSUME NEW y \in Requests, y # x
      PROVE  Seen(y)'
  <2>1. Seen(y) /\ pc'[y] = pc[y] /\ patch'[y] = patch[y] /\ todo'[y] = todo[y]
        /\ admins'[y] = admins[y]
    BY <1>2 DEF KeptInv, Inv, TypeOK, TargetSeen, Begin, Select, LockNext, Check,
                Update
  <2> QED
    BY <1>1, <2>1 DEF Seen
<1>3. ASSUME NEW p \in Patches, Begin(x, p)
      PROVE  Seen(x)'
  <2>1. patch'[x] = p /\ pc'[x] = (IF FastPath(p) THEN "update" ELSE "select")
    BY <1>3 DEF KeptInv, Inv, TypeOK, Begin
  <2> QED
    BY <2>1 DEF Seen
<1>4. ASSUME Select(x)
      PROVE  Seen(x)'
  <2>1. pc'[x] = "lock" /\ patch'[x] = patch[x] /\ todo'[x] = ActiveAdmins
        /\ patch[x] \in Patches
    BY <1>4 DEF KeptInv, Inv, TypeOK, TargetSeen, Seen, Select
  <2> QED
    BY <1>1, <2>1 DEF Seen
<1>5. ASSUME NEW u \in Users, LockNext(x, u)
      PROVE  Seen(x)'
  <2>1. /\ pc[x] = "lock" /\ pc'[x] = "lock" /\ patch'[x] = patch[x] /\ Seen(x)
        /\ todo'[x] = todo[x] \ {u} /\ admins'[x] = admins[x] \cup ({u} \cap ActiveAdmins)
    BY <1>5 DEF KeptInv, Inv, TypeOK, TargetSeen, LockNext, Recheck
  <2> QED
    BY <1>1, <2>1 DEF Seen
<1>6. ASSUME Check(x), ~Finish(x)
      PROVE  Seen(x)'
  <2>1. pc'[x] = "update" /\ pc[x] = "lock" /\ todo[x] = {}
        /\ UNCHANGED <<patch, todo, admins>>
    BY <1>6 DEF KeptInv, Inv, TypeOK, Check
  <2> QED
    BY <1>1, <2>1 DEF KeptInv, TargetSeen, Seen
<1>7. ASSUME Update(x), ~Finish(x)
      PROVE  Seen(x)'
  <2>1. pc'[x] = "commit" /\ pc[x] = "update" /\ UNCHANGED <<patch, todo, admins>>
    BY <1>7 DEF KeptInv, Inv, TypeOK, Update
  <2> QED
    BY <1>1, <2>1 DEF KeptInv, TargetSeen, Seen
<1> QED
  BY <1>1, <1>2, <1>3, <1>4, <1>5, <1>6, <1>7
     DEF KeptInv, SomeActiveAdmin, TargetSeen

\* A commit changes what its target is and nobody else.
LEMMA CommitTable ==
  ASSUME Inv, TargetSeen, NEW x \in Requests, Commit(x)
  PROVE  LET u == patch[x].target IN
           /\ u \in Users
           /\ ActiveAdmins' \subseteq Users /\ ActiveAdmins \subseteq Users
           /\ \A v \in Users \ {u} : v \in ActiveAdmins' <=> v \in ActiveAdmins
           /\ IF FastPath(patch[x]) THEN u \in ActiveAdmins => u \in ActiveAdmins'
                                    ELSE u \notin ActiveAdmins'
<1> DEFINE u == patch[x].target
<1>1. patch[x] \in Patch /\ u \in Users
  BY PatchesAssumption DEF TargetSeen, Seen, Commit, Patch
<1>2. /\ role'[u] = Coalesce(patch[x].role, role[u])
      /\ status'[u] = Coalesce(patch[x].status, status[u])
      /\ rows' = rows
  BY <1>1 DEF Inv, TypeOK, Commit
<1>3. \A v \in Users \ {u} : v \in ActiveAdmins' <=> v \in ActiveAdmins
  BY DEF Inv, TypeOK, Commit, ActiveAdmins
<1>4. ActiveAdmins \subseteq Users /\ ActiveAdmins' \subseteq Users
  BY DEF Inv, TypeOK, Commit, ActiveAdmins
<1>5. CASE FastPath(patch[x])
  BY <1>1, <1>2, <1>3, <1>4, <1>5 DEF FastPath, Coalesce, ActiveAdmins
<1>6. CASE ~FastPath(patch[x])
  <2>1. role'[u] # "admin" \/ status'[u] # "active"
    BY <1>1, <1>2, <1>6 DEF FastPath, Coalesce, Patch, Statuses
  <2> QED
    BY <1>1, <1>3, <1>4, <1>6, <2>1 DEF ActiveAdmins
<1> QED
  BY <1>5, <1>6

\* A commit removes at most its target, and then another admin was counted; what
\* it promotes, no removal has passed by.
LEMMA CommitSeen ==
  ASSUME KeptInv, NoLatePromotion, NEW x \in Requests, Commit(x)
  PROVE  TargetSeen' /\ SomeActiveAdmin'
<1>0. Inv /\ TargetSeen /\ TypeOK /\ SomeActiveAdmin
  BY DEF KeptInv, Inv
<1> DEFINE u == patch[x].target
<1>1. /\ u \in Users
      /\ ActiveAdmins' \subseteq Users /\ ActiveAdmins \subseteq Users
      /\ \A v \in Users \ {u} : v \in ActiveAdmins' <=> v \in ActiveAdmins
  BY <1>0, CommitTable
<1>2. ASSUME FastPath(patch[x])
      PROVE  SomeActiveAdmin'
  <2>1. \A v \in ActiveAdmins : v \in ActiveAdmins'
    BY <1>0, <1>1, <1>2, CommitTable
  <2> QED
    BY <1>0, <2>1 DEF SomeActiveAdmin
<1>3. ASSUME ~FastPath(patch[x])
      PROVE  SomeActiveAdmin'
  <2>1. ActiveAdmins \ {u} # {}
    <3>1. CASE u \in ActiveAdmins
      <4>1. u \in admins[x]
        BY <1>0, <1>3, <3>1 DEF TargetSeen, Seen, Commit
      <4> QED
        BY <1>0, <4>1 DEF Inv, CountedHeld, GuardPassed, AnotherRemains, Commit
    <3>2. CASE u \notin ActiveAdmins
      BY <1>0, <3>2 DEF SomeActiveAdmin
    <3> QED
      BY <3>1, <3>2
  <2> QED
    BY <1>1, <2>1 DEF SomeActiveAdmin
<1>4. ASSUME NEW y \in Requests
      PROVE  Seen(y)'
  <2>1. CASE y = x
    <3>1. pc'[x] = "idle"
      BY <1>0 DEF TypeOK, Commit, Finish
    <3> QED
      BY <2>1, <3>1 DEF Seen
  <2>2. CASE y # x
    <3>1. /\ pc'[y] = pc[y] /\ patch'[y] = patch[y] /\ todo'[y] = todo[y]
          /\ admins'[y] = admins[y] /\ Seen(y)
      BY <1>0, <2>2 DEF TypeOK, TargetSeen, Commit, Finish
    <3>2. ASSUME pc[y] \in {"lock", "update", "commit"}, ~FastPath(patch[y]),
                 patch[y].target \in ActiveAdmins'
          PROVE  patch[y].target \in todo[y] \cup admins[y]
      <4>1. CASE patch[y].target \in ActiveAdmins
        BY <3>1, <3>2, <4>1 DEF Seen
      <4>2. CASE patch[y].target \notin ActiveAdmins
        <5>1. patch[y].target = u /\ FastPath(patch[x])
          BY <1>0, <1>1, <3>2, <4>2, CommitTable
        <5>2. Commit(x) /\ u \in locked[x]
          BY <1>0 DEF Inv, TargetHeld, Commit
        <5>3. pc[y] # "commit"
          BY <1>0, <2>2, <5>1, <5>2 DEF Inv, TargetHeld, LocksExclusive
        <5>4. ~LatePromotion(y, x)
          BY DEF NoLatePromotion
        <5> QED
          BY <3>2, <4>2, <5>1, <5>2, <5>3, <5>4 DEF LatePromotion
      <4> QED
        BY <4>1, <4>2
    <3> QED
      BY <3>1, <3>2 DEF Seen
  <2> QED
    BY <2>1, <2>2
<1> QED
  BY <1>2, <1>3, <1>4 DEF TargetSeen

LEMMA CreateUserSeen ==
  ASSUME KeptInv, NEW u \in Users, NEW r \in Roles, CreateUser(u, r)
  PROVE  TargetSeen' /\ SomeActiveAdmin'
<1>1. \A v \in Users \ {u} : v \in ActiveAdmins' <=> v \in ActiveAdmins
  BY DEF KeptInv, Inv, TypeOK, CreateUser, ActiveAdmins
<1>2. u \notin ActiveAdmins
  BY DEF CreateUser, ActiveAdmins
<1>3. ActiveAdmins \subseteq Users
  BY DEF KeptInv, Inv, TypeOK, ActiveAdmins
<1>4. SomeActiveAdmin'
  BY <1>1, <1>2, <1>3 DEF KeptInv, SomeActiveAdmin
<1>5. ASSUME NEW x \in Requests, pc[x] # "idle"
      PROVE  patch[x].target \in Users \ {u}
  BY <1>5 DEF KeptInv, Inv, TypeOK, Patch, CreateUser
<1>6. TargetSeen'
  BY <1>1, <1>5 DEF KeptInv, TargetSeen, Seen, CreateUser
<1> QED
  BY <1>4, <1>6

LEMMA KeptStep == KeptInv /\ [Next]_vars /\ [NoLatePromotion]_vars => KeptInv'
<1> SUFFICES ASSUME KeptInv, [Next]_vars, [NoLatePromotion]_vars
             PROVE  TargetSeen' /\ SomeActiveAdmin'
  BY InvStep DEF KeptInv
<1>0. CASE UNCHANGED vars
  BY <1>0 DEF KeptInv, vars, tableVars, TargetSeen, Seen, SomeActiveAdmin, ActiveAdmins
<1>1. ASSUME NEW x \in Requests, Finish(x), UNCHANGED tableVars
      PROVE  TargetSeen' /\ SomeActiveAdmin'
  BY <1>1, FinishSeen
<1>2. ASSUME NEW x \in Requests, NEW p \in Patches, Begin(x, p)
      PROVE  TargetSeen' /\ SomeActiveAdmin'
  BY <1>2, QuietSeen DEF Begin
<1>3. ASSUME NEW x \in Requests, Work(x)
      PROVE  TargetSeen' /\ SomeActiveAdmin'
  <2>1. CASE Commit(x)
    BY <1>0, <2>1, CommitSeen
  <2>2. CASE ~Commit(x)
    <3>1. UNCHANGED tableVars
      BY <1>3, <2>2 DEF Work, Select, LockNext, Check, Update
    <3> QED
      BY <1>1, <1>3, <2>2, <3>1, QuietSeen DEF Work
  <2> QED
    BY <2>1, <2>2
<1>4. ASSUME NEW x \in Requests, Abort(x) \/ DetectDeadlock(x)
      PROVE  TargetSeen' /\ SomeActiveAdmin'
  BY <1>1, <1>4 DEF Abort, DetectDeadlock
<1> QED
  BY <1>0, <1>2, <1>3, <1>4, CreateUserSeen DEF Next

LEMMA KeptInit == Init => KeptInv
BY InvInit DEF Init, KeptInv, TargetSeen, Seen, SomeActiveAdmin

\* The one way to lose the last active admin: a promotion or reactivation commits
\* after the snapshot of a removal of the same user, which then never looks at it.
\* Without that, no interleaving of any patches and creations does (update_user,
\* assert_not_last_admin).
THEOREM OnlyLatePromotions ==
  Spec /\ [][NoLatePromotion]_vars => []SomeActiveAdmin
<1>1. KeptInv => SomeActiveAdmin
  BY DEF KeptInv
<1> QED
  BY <1>1, KeptInit, KeptStep, PTL DEF Spec

NoPromotions == \A p \in Patches : ~FastPath(p)

\* If no patch promotes or reactivates, no interleaving of demotions,
\* deactivations and creations leaves the tenant without an active admin.
THEOREM LastAdmin ==
  ASSUME NoPromotions
  PROVE  Spec => []SomeActiveAdmin
<1>1. KeptInv => NoLatePromotion
  BY DEF KeptInv, TargetSeen, Seen, NoLatePromotion, LatePromotion, NoPromotions, Commit
<1>2. KeptInv => SomeActiveAdmin
  BY DEF KeptInv
<1> QED
  BY <1>1, <1>2, KeptInit, KeptStep, PTL DEF Spec

----------------------------------------------------------------------------
(* Locks in id order.                                                      *)

\* What a request has locked lies before what it has still to lock.
Ordered(x) ==
  /\ pc[x] \in {"idle", "select"} => locked[x] = {} /\ todo[x] = {}
  /\ pc[x] = "lock" => \A u \in locked[x], v \in todo[x] : u < v
  /\ pc[x] = "update" => todo[x] = {}

OrderInv == \A x \in Requests : Ordered(x)

LEMMA OrderStep == Inv /\ OrderInv /\ [Next]_vars => OrderInv'
<1> SUFFICES ASSUME Inv, OrderInv, [Next]_vars
             PROVE  OrderInv'
  OBVIOUS
<1>1. TypeOK
  BY DEF Inv
<1>2. ASSUME NEW x \in Requests, Finish(x)
      PROVE  OrderInv'
  BY <1>1, <1>2 DEF TypeOK, Finish, OrderInv, Ordered
<1>3. ASSUME NEW x \in Requests,
             (\E p \in Patches : Begin(x, p)) \/ Select(x) \/ Check(x) \/ Update(x)
      PROVE  OrderInv'
  <2>1. CASE Finish(x)
    BY <1>2, <2>1
  <2>2. CASE ~Finish(x)
    BY <1>1, <1>3, <2>2 DEF TypeOK, Begin, Select, Check, Update, OrderInv, Ordered
  <2> QED
    BY <2>1, <2>2
<1>4. ASSUME NEW x \in Requests, NEW u \in Users, LockNext(x, u)
      PROVE  OrderInv'
  <2>1. /\ pc[x] = "lock" /\ u \in todo[x] /\ \A v \in todo[x] : u <= v
        /\ pc' = pc
        /\ todo' = [todo EXCEPT ![x] = @ \ {u}]
        /\ locked' = [locked EXCEPT ![x] = @ \cup {u}]
    BY <1>4 DEF LockNext, MayLock
  <2>2. \A v \in todo[x] \ {u} : u < v
    BY <1>1, <2>1, UsersAssumption DEF TypeOK
  <2>3. Ordered(x)'
    BY <1>1, <2>1, <2>2 DEF TypeOK, OrderInv, Ordered
  <2>4. \A y \in Requests \ {x} : Ordered(y)'
    BY <1>1, <2>1 DEF TypeOK, OrderInv, Ordered
  <2> QED
    BY <2>3, <2>4 DEF OrderInv
<1>5. ASSUME NEW x \in Requests, Commit(x) \/ Abort(x) \/ DetectDeadlock(x)
      PROVE  OrderInv'
  BY <1>2, <1>5 DEF Commit, Abort, DetectDeadlock
<1>6. ASSUME NEW u \in Users, NEW r \in Roles, CreateUser(u, r)
      PROVE  OrderInv'
  BY <1>6 DEF CreateUser, OrderInv, Ordered
<1>7. CASE UNCHANGED vars
  BY <1>7 DEF vars, OrderInv, Ordered
<1> QED
  BY <1>3, <1>4, <1>5, <1>6, <1>7 DEF Next, Work

\* A bounded set of naturals has a greatest element.
LEMMA Greatest ==
  ASSUME NEW n \in Nat, NEW T, \A k \in T : k \in Nat /\ k <= n, T # {}
  PROVE  \E m \in T : \A k \in T : k <= m
<1> DEFINE D == {d \in Nat : d <= n /\ n - d \in T}
<1>1. \A k \in T : n - k \in D
  <2> SUFFICES ASSUME NEW k \in T
               PROVE  n - k \in D
    OBVIOUS
  <2>1. k \in Nat /\ k <= n
    OBVIOUS
  <2>2. n - k \in Nat /\ n - k <= n /\ n - (n - k) = k
    BY <2>1
  <2> QED
    BY <2>2
<1>2. PICK d \in D : \A e \in D : <<e, d>> \notin OpToRel(<, Nat)
  <2>1. D \subseteq Nat /\ D # {}
    BY <1>1
  <2> HIDE DEF D
  <2> QED
    BY <2>1, NatLessThanWellFounded, WFMin
<1>3. \A e \in D : ~(e < d)
  BY <1>2 DEF OpToRel
<1>4. n - d \in T /\ d \in Nat
  OBVIOUS
<1>5. ASSUME NEW k \in T
      PROVE  k <= n - d
  BY <1>1, <1>3, <1>4, <1>5
<1> QED
  BY <1>4, <1>5

\* In a cycle of removals everyone would wait, in id order, for a row after all
\* it holds; the request that holds the last row of the cycle has nobody to wait
\* for.  A removal past the guard waits for no row it does not hold already.
LEMMA NobodyWaitsInACycle ==
  ASSUME Inv, OrderInv, NEW last \in Nat, \A u \in Users : u <= last
  PROVE  AdminRemovalsDoNotDeadlock
<1> SUFFICES ASSUME NEW S \in SUBSET {x \in Requests : patch[x].target \in locked[x] \cup todo[x]},
                    WaitCycle(S)
             PROVE  FALSE
  BY DEF AdminRemovalsDoNotDeadlock
<1>1. TypeOK /\ LocksExclusive
  BY DEF Inv
<1>2. ASSUME NEW x \in S
      PROVE  pc[x] = "lock" /\ \E y \in S : \E u \in locked[y] : u \in todo[x]
  <2>1. x \in Requests /\ patch[x].target \in locked[x] \cup todo[x]
    OBVIOUS
  <2>2. PICK y \in S \ {x} : \E u \in locked[y] :
          \/ pc[x] = "lock" /\ MayLock(x, u)
          \/ pc[x] = "update" /\ patch[x].target = u
    BY <1>2 DEF WaitCycle, Blocks
  <2>3. PICK u \in locked[y] :
          \/ pc[x] = "lock" /\ MayLock(x, u)
          \/ pc[x] = "update" /\ patch[x].target = u
    BY <2>2
  <2>4. CASE pc[x] = "update" /\ patch[x].target = u
    <3>1. u \in locked[x]
      BY <2>1, <2>4 DEF OrderInv, Ordered
    <3> QED
      BY <1>1, <2>1, <2>3, <3>1 DEF LocksExclusive
  <2> QED
    BY <2>3, <2>4 DEF MayLock
<1> DEFINE T == {u \in Users : \E x \in S : u \in locked[x]}
<1>3. T # {} /\ \A k \in T : k \in Nat /\ k <= last
  <2>1. PICK x \in S : TRUE
    BY DEF WaitCycle
  <2>2. PICK y \in S : \E u \in locked[y] : u \in todo[x]
    BY <1>2
  <2>3. \E u \in locked[y] : u \in T
    BY <1>1, <2>2 DEF TypeOK
  <2> QED
    BY <2>3, UsersAssumption
<1>4. PICK m \in T : \A k \in T : k <= m
  <2> HIDE DEF T
  <2> QED
    BY <1>3, Greatest
<1>5. PICK x \in S : m \in locked[x]
  OBVIOUS
<1>6. PICK y \in S : pc[x] = "lock" /\ \E u \in locked[y] : u \in todo[x]
  BY <1>2
<1>7. PICK u \in locked[y] : u \in todo[x]
  BY <1>6
<1>8. m < u
  BY <1>5, <1>6, <1>7 DEF OrderInv, Ordered
<1>9. u \in T /\ m \in Nat /\ u \in Nat
  BY <1>1, <1>7, UsersAssumption DEF TypeOK
<1> QED
  BY <1>4, <1>8, <1>9

\* Removals whose target was among the active admins of their snapshot never
\* wait for one another in a cycle, for any requests and patches; ids have a
\* greatest one, as uuids do (ORDER BY id in assert_not_last_admin).
THEOREM RemovalsDoNotDeadlock ==
  ASSUME NEW last \in Nat, \A u \in Users : u <= last
  PROVE  Spec => []AdminRemovalsDoNotDeadlock
<1>1. Init => Inv /\ OrderInv
  BY InvInit DEF Init, OrderInv, Ordered
<1>2. Inv /\ OrderInv => AdminRemovalsDoNotDeadlock
  BY NobodyWaitsInACycle
<1> QED
  BY <1>1, <1>2, OrderStep, InvStep, PTL DEF Spec

----------------------------------------------------------------------------
(* How much work is left.                                                  *)

\* At most so many steps of its own does a request still take.
StepsLeft(x) ==
  CASE pc[x] = "idle"   -> 0
    [] pc[x] = "commit" -> 1
    [] pc[x] = "update" -> 2
    [] pc[x] = "lock"   -> 3 + Cardinality(todo[x])
    [] pc[x] = "select" -> 4 + Cardinality(Users)

NoneTurnsBack ==
  \A x \in Requests : pc[x] # "idle" =>
    /\ StepsLeft(x)' <= StepsLeft(x)
    /\ Work(x) => StepsLeft(x)' < StepsLeft(x)

LEMMA FewToLock ==
  ASSUME IsFiniteSet(Users), NEW T \in SUBSET Users
  PROVE  /\ IsFiniteSet(T)
         /\ Cardinality(T) \in Nat
         /\ Cardinality(Users) \in Nat
         /\ Cardinality(T) <= Cardinality(Users)
BY FS_Subset, FS_CardinalityType

LEMMA WorkShortens ==
  ASSUME IsFiniteSet(Users), TypeOK, NEW x \in Requests, Work(x)
  PROVE  StepsLeft(x)' < StepsLeft(x) /\ StepsLeft(x)' \in Nat
<1> USE DEF StepsLeft
<1>1. todo[x] \in SUBSET Users
  BY DEF TypeOK
<1>2. Cardinality(todo[x]) \in Nat /\ Cardinality(Users) \in Nat
  BY <1>1, FewToLock
<1>3. ASSUME Finish(x), pc[x] \in {"lock", "update", "commit"}
      PROVE  StepsLeft(x)' < StepsLeft(x) /\ StepsLeft(x)' \in Nat
  <2>1. pc'[x] = "idle"
    BY <1>3 DEF Finish, TypeOK
  <2> QED
    BY <1>2, <1>3, <2>1
<1>4. CASE Select(x)
  <2>1. pc[x] = "select" /\ pc'[x] = "lock" /\ todo'[x] = ActiveAdmins
    BY <1>4 DEF Select, TypeOK
  <2>2. ActiveAdmins \in SUBSET Users
    BY DEF ActiveAdmins, TypeOK
  <2>3. /\ Cardinality(ActiveAdmins) \in Nat
        /\ Cardinality(ActiveAdmins) <= Cardinality(Users)
    BY <2>2, FewToLock
  <2> QED
    BY <1>2, <2>1, <2>3
<1>5. ASSUME NEW u \in Users, LockNext(x, u)
      PROVE  StepsLeft(x)' < StepsLeft(x) /\ StepsLeft(x)' \in Nat
  <2>1. /\ pc[x] = "lock" /\ pc'[x] = "lock"
        /\ todo'[x] = todo[x] \ {u} /\ u \in todo[x]
    BY <1>5 DEF LockNext, MayLock, TypeOK
  <2>2. Cardinality(todo'[x]) = Cardinality(todo[x]) - 1
    <3>1. IsFiniteSet(todo[x])
      BY <1>1, FewToLock
    <3>2. Cardinality(todo[x] \ {u}) = Cardinality(todo[x]) - 1
      BY <2>1, <3>1, FS_RemoveElement
    <3> QED
      BY <2>1, <3>2
  <2>3. Cardinality(todo'[x]) \in Nat
    BY <1>1, <2>1, FewToLock
  <2> QED
    BY <1>2, <2>1, <2>2, <2>3
<1>6. CASE Check(x)
  <2>1. pc[x] = "lock" /\ (pc'[x] = "update" \/ Finish(x))
    BY <1>6 DEF Check, TypeOK
  <2>2. CASE Finish(x)
    BY <1>3, <2>1, <2>2
  <2>3. CASE pc'[x] = "update"
    BY <1>2, <2>1, <2>3
  <2> QED
    BY <2>1, <2>2, <2>3
<1>7. CASE Update(x)
  <2>1. pc[x] = "update" /\ (pc'[x] = "commit" \/ Finish(x))
    BY <1>7 DEF Update, TypeOK
  <2>2. CASE Finish(x)
    BY <1>3, <2>1, <2>2
  <2>3. CASE pc'[x] = "commit"
    BY <1>2, <2>1, <2>3
  <2> QED
    BY <2>1, <2>2, <2>3
<1>8. CASE Commit(x)
  BY <1>3, <1>8 DEF Commit
<1> QED
  BY <1>4, <1>5, <1>6, <1>7, <1>8 DEF Work

LEMMA OthersStay ==
  ASSUME TypeOK, [Next]_vars, NEW x \in Requests, pc[x] # "idle"
  PROVE  \/ pc'[x] = pc[x] /\ todo'[x] = todo[x]
         \/ pc'[x] = "idle"
         \/ Work(x)
<1> USE DEF TypeOK
<1>1. ASSUME NEW y \in Requests, NEW p \in Patches, Begin(y, p)
      PROVE  pc'[x] = pc[x] /\ todo'[x] = todo[x]
  BY <1>1 DEF Begin
<1>2. ASSUME NEW y \in Requests, Work(y), y # x
      PROVE  pc'[x] = pc[x] /\ todo'[x] = todo[x]
  BY <1>2 DEF Work, Select, LockNext, Check, Update, Commit, Finish
<1>3. ASSUME NEW y \in Requests, Abort(y) \/ DetectDeadlock(y)
      PROVE  (pc'[x] = pc[x] /\ todo'[x] = todo[x]) \/ pc'[x] = "idle"
  BY <1>3 DEF Abort, DetectDeadlock, Finish
<1>4. CASE UNCHANGED vars \/ \E u \in Users, r \in Roles : CreateUser(u, r)
  BY <1>4 DEF vars, CreateUser
<1> QED
  BY <1>1, <1>2, <1>3, <1>4 DEF Next

\* A PATCH never takes a step back and each step of its own brings it nearer to its
\* end: the guard locks each row of its snapshot once and tries nothing again
\* (assert_not_last_admin, patch_user).  It is why every PATCH ends
\* (RequestsFinish) once those that wait in a cycle are failed.
THEOREM RequestsAdvance ==
  ASSUME IsFiniteSet(Users)
  PROVE  Spec => [][NoneTurnsBack]_vars
<1>1. ASSUME TypeOK, [Next]_vars
      PROVE  NoneTurnsBack
  <2> SUFFICES ASSUME NEW x \in Requests, pc[x] # "idle"
               PROVE  /\ StepsLeft(x)' <= StepsLeft(x)
                      /\ Work(x) => StepsLeft(x)' < StepsLeft(x)
    BY DEF NoneTurnsBack
  <2>1. todo[x] \in SUBSET Users /\ pc[x] \in {"select", "lock", "update", "commit"}
    BY <1>1 DEF TypeOK
  <2>2. Cardinality(todo[x]) \in Nat /\ Cardinality(Users) \in Nat
    BY <2>1, FewToLock
  <2>3. StepsLeft(x) \in Nat
    BY <2>1, <2>2 DEF StepsLeft
  <2>4. CASE Work(x)
    BY <1>1, <2>3, <2>4, WorkShortens
  <2>5. CASE ~Work(x) /\ pc'[x] = pc[x] /\ todo'[x] = todo[x]
    <3>1. StepsLeft(x)' = StepsLeft(x)
      BY <2>5 DEF StepsLeft
    <3> QED
      BY <2>3, <2>5, <3>1
  <2>6. CASE ~Work(x) /\ pc'[x] = "idle"
    <3>1. StepsLeft(x)' = 0
      BY <2>6 DEF StepsLeft
    <3> QED
      BY <2>3, <2>6, <3>1
  <2> QED
    BY <1>1, <2>4, <2>5, <2>6, OthersStay
<1> QED
  BY <1>1, TypeCorrect, PTL DEF Spec
=============================================================================
