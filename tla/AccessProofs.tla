---------------------------- MODULE AccessProofs ----------------------------
(***************************************************************************)
(* For any users, roles, permissions, replicas, lifetimes and tolerances:  *)
(* whoever is in a handler held a role that permits it less than one       *)
(* lifetime, and the difference of two clocks, before the guard; and every *)
(* replica accepts a token until it expires.                               *)
(***************************************************************************)
EXTENDS Access, TLAPS

USE RolesAssumption, NoneAssumption, PermissionsAssumption, TtlAssumption, SkewAssumption

\* u had the role when a replica's clock showed n, or a replica's clock may still
\* show n when u lost it.
Vouched(u, ro, n) ==
  role[u] = ro \/ (lost[u][ro] # None /\ n <= lost[u][ro] + MaxSkew)

\* Nothing was read from a clock that is further ahead than clocks are.
NoFuture ==
  /\ \A t \in tokens : t.iat <= clock + MaxSkew
  /\ \A x \in Requests : req[x].at <= clock + MaxSkew

\* A token, and a request that is about to issue one, carries a role its user had
\* when the request began, or later.
VouchedInv ==
  /\ \A t \in tokens : t.exp = t.iat + AccessTtl /\ Vouched(t.sub, t.role, t.iat)
  /\ \A x \in Requests :
       pc[x] = "issue" => Vouched(req[x].user, req[x].role, req[x].at)

\* The role a guard believed permits the call, and was held recently.
GuardInv ==
  \A x \in Requests : pc[x] = "handle" =>
    /\ Permits(req[x].role, req[x].perm)
    /\ HeldRecently(req[x].user, req[x].role, req[x].at)

\* Users are never deleted: whoever a token or a request is about has a role.
PresentInv ==
  /\ \A t \in tokens : role[t.sub] # None
  /\ \A x \in Requests : pc[x] # "idle" => role[req[x].user] # None

IInv == TypeOK /\ NoFuture /\ VouchedInv /\ GuardInv /\ PresentInv

LEMMA InvInit == Init => IInv
<1> SUFFICES ASSUME Init
             PROVE  IInv
  OBVIOUS
<1>1. TypeOK
  BY DEF Init, TypeOK, Req, NoReq, Ask
<1>2. NoFuture /\ VouchedInv /\ GuardInv /\ PresentInv
  BY DEF Init, NoFuture, VouchedInv, GuardInv, PresentInv, NoReq, Ask
<1> QED
  BY <1>1, <1>2 DEF IInv

LEMMA ClockType ==
  ASSUME TypeOK, NEW r \in Replicas
  PROVE  Clock(r) \in Nat /\ clock <= Clock(r) /\ Clock(r) <= clock + MaxSkew
BY DEF TypeOK, Clock

LEMMA TickStep == IInv /\ Tick => IInv'
<1> SUFFICES ASSUME IInv, Tick
             PROVE  IInv'
  OBVIOUS
<1> USE DEF Tick, IInv, userVars, TypeOK, Req, Claims
<1>1. TypeOK'
  OBVIOUS
<1>2. NoFuture'
  BY DEF NoFuture
<1>3. VouchedInv' /\ GuardInv' /\ PresentInv'
  BY DEF VouchedInv, Vouched, GuardInv, HeldRecently, PresentInv
<1> QED
  BY <1>1, <1>2, <1>3

\* A request that ends, or that stands at a point where nothing is claimed of it.
LEMMA QuietStep ==
  ASSUME IInv, NEW x \in Requests,
         UNCHANGED <<clock, ahead, userVars, tokens>>,
         NEW where \in {"idle", "login", "refresh"}, NEW r \in Req,
         pc' = [pc EXCEPT ![x] = where], req' = [req EXCEPT ![x] = r],
         r.at <= clock + MaxSkew,
         where # "idle" => r.user \in Users /\ role[r.user] # None
  PROVE  IInv'
<1> USE DEF IInv, userVars, TypeOK
<1>1. TypeOK'
  OBVIOUS
<1>2. NoFuture'
  BY DEF NoFuture
<1>3. VouchedInv' /\ GuardInv' /\ PresentInv'
  BY DEF VouchedInv, Vouched, GuardInv, HeldRecently, PresentInv
<1> QED
  BY <1>1, <1>2, <1>3

LEMMA NoReqType ==
  ASSUME TypeOK
  PROVE  NoReq \in Req /\ NoReq.at <= clock + MaxSkew
BY DEF TypeOK, NoReq, Ask, Req

LEMMA EndStep ==
  ASSUME IInv, NEW x \in Requests, Finish(x),
         UNCHANGED <<clock, ahead, userVars, tokens>>
  PROVE  IInv'
BY QuietStep, NoReqType DEF Finish, IInv

LEMMA BeginStep ==
  ASSUME IInv, NEW x \in Requests, NEW u \in Users, NEW r \in Replicas,
         Login(x, u, r) \/ Refresh(x, u, r)
  PROVE  IInv'
<1>1. PICK where \in {"login", "refresh"} : Begin(x, Ask(u, None, None, Clock(r)), where)
  BY DEF Login, Refresh
<1>2. PICK a \in Req : a = Ask(u, None, None, Clock(r))
  BY ClockType DEF IInv, Ask, Req
<1>3. a.at <= clock + MaxSkew /\ a.user \in Users /\ role[a.user] # None
  BY <1>2, ClockType DEF IInv, Ask, Login, Refresh, PresentInv
<1> QED
  BY <1>1, <1>2, <1>3, QuietStep DEF Begin

LEMMA ReadRoleStep ==
  ASSUME IInv, NEW x \in Requests, ReadRole(x)
  PROVE  IInv'
<1>1. CASE Finish(x)
  BY <1>1, EndStep DEF ReadRole
<1>2. CASE ~Finish(x)
  <2>1. PICK u \in Users, ro \in Roles :
          /\ u = req[x].user /\ ro = role[u]
          /\ req' = [req EXCEPT ![x].role = ro]
          /\ pc' = [pc EXCEPT ![x] = "issue"]
          /\ UNCHANGED <<clock, ahead, userVars, tokens>>
    BY <1>2 DEF ReadRole, IInv, TypeOK, Req, PresentInv
  <2> USE DEF IInv, userVars, TypeOK, Req
  <2>2. TypeOK'
    BY <2>1
  <2>3. NoFuture' /\ PresentInv'
    BY <2>1 DEF NoFuture, PresentInv
  <2>4. VouchedInv'
    <3>1. req'[x].user = u /\ req'[x].role = ro /\ role'[u] = ro
      BY <2>1
    <3>2. \A y \in Requests : y # x => req'[y] = req[y] /\ pc'[y] = pc[y]
      BY <2>1
    <3> QED
      BY <2>1, <3>1, <3>2 DEF VouchedInv, Vouched
  <2>5. GuardInv'
    BY <2>1 DEF GuardInv, HeldRecently
  <2> QED
    BY <2>2, <2>3, <2>4, <2>5
<1> QED
  BY <1>1, <1>2

LEMMA IssueStep ==
  ASSUME IInv, NEW x \in Requests, Issue(x)
  PROVE  IInv'
<1>1. req[x].user \in Users /\ req[x].role \in Roles /\ req[x].at \in Nat
  BY DEF Issue, IInv, TypeOK, Req
<1>2. PICK t \in Claims :
        /\ t = NewClaims(req[x].user, req[x].role, req[x].at)
        /\ tokens' = tokens \cup {t}
  <2>1. NewClaims(req[x].user, req[x].role, req[x].at) \in Claims
    BY <1>1 DEF Claims, NewClaims
  <2> QED
    BY <2>1 DEF Issue
<1>3. /\ t.sub = req[x].user /\ t.role = req[x].role /\ t.iat = req[x].at
      /\ t.exp = t.iat + AccessTtl
  BY <1>2 DEF NewClaims
<1>4. /\ t.iat <= clock + MaxSkew /\ t.exp = t.iat + AccessTtl
      /\ Vouched(t.sub, t.role, t.iat) /\ role[t.sub] # None
  BY <1>3 DEF Issue, IInv, NoFuture, VouchedInv, PresentInv
<1>5. /\ pc' = [pc EXCEPT ![x] = "idle"] /\ req' = [req EXCEPT ![x] = NoReq]
      /\ NoReq \in Req /\ NoReq.at <= clock + MaxSkew
      /\ UNCHANGED <<clock, ahead, userVars>>
  BY NoReqType DEF Issue, Finish, IInv
<1> USE DEF IInv, userVars, TypeOK
<1>6. TypeOK'
  BY <1>2, <1>5
<1>7. NoFuture' /\ PresentInv'
  BY <1>2, <1>4, <1>5 DEF NoFuture, PresentInv
<1>8. VouchedInv' /\ GuardInv'
  BY <1>2, <1>4, <1>5 DEF VouchedInv, Vouched, GuardInv, HeldRecently
<1> QED
  BY <1>6, <1>7, <1>8

\* What the guard accepts was vouched for when it was issued, and is not older
\* than a lifetime.
LEMMA CallStep ==
  ASSUME IInv, NEW x \in Requests, NEW t \in tokens,
         NEW p \in Permissions, NEW r \in Replicas, Call(x, t, p, r)
  PROVE  IInv'
<1>1. t \in Claims /\ p # None
  BY DEF IInv, TypeOK
<1>2. PICK a \in Req : a = Ask(t.sub, t.role, p, Clock(r))
  BY <1>1, ClockType DEF IInv, Ask, Req, Claims
<1>3. /\ a.user = t.sub /\ a.role = t.role /\ a.perm = p /\ a.at = Clock(r)
      /\ a.user \in Users /\ a.role \in Roles /\ a.at \in Nat
      /\ t.iat \in Nat /\ t.exp \in Nat
  BY <1>1, <1>2, ClockType DEF Ask, Claims, IInv
<1>4. /\ pc' = [pc EXCEPT ![x] = "handle"] /\ req' = [req EXCEPT ![x] = a]
      /\ UNCHANGED <<clock, ahead, userVars, tokens>>
  BY <1>2 DEF Call, Begin
<1>5. Permits(a.role, a.perm) /\ role[a.user] # None
  BY <1>3 DEF Call, IInv, PresentInv
<1>6. HeldRecently(a.user, a.role, a.at)
  BY <1>3 DEF Call, Accepts, IInv, TypeOK, VouchedInv, Vouched, HeldRecently
<1>7. a.at <= clock + MaxSkew
  BY <1>3, ClockType DEF IInv
<1> USE DEF IInv, userVars, TypeOK
<1>8. TypeOK'
  BY <1>1, <1>3, <1>4
<1>9. NoFuture' /\ PresentInv' /\ VouchedInv'
  BY <1>3, <1>4, <1>5, <1>7 DEF NoFuture, PresentInv, VouchedInv, Vouched
<1>10. GuardInv'
  BY <1>3, <1>4, <1>5, <1>6 DEF GuardInv, HeldRecently
<1> QED
  BY <1>8, <1>9, <1>10

LEMMA CreateUserStep ==
  ASSUME IInv, NEW x \in Requests, NEW u \in Users, NEW ro \in Roles,
         CreateUser(x, u, ro)
  PROVE  IInv'
<1>1. /\ pc' = [pc EXCEPT ![x] = "idle"] /\ req' = [req EXCEPT ![x] = NoReq]
      /\ NoReq \in Req /\ NoReq.at <= clock + MaxSkew
  BY NoReqType DEF CreateUser, Finish, IInv
<1> USE DEF CreateUser, IInv, TypeOK
<1>2. TypeOK'
  BY <1>1
<1>3. NoFuture' /\ PresentInv'
  BY <1>1 DEF NoFuture, PresentInv, Claims, Req
<1>4. VouchedInv' /\ GuardInv'
  BY <1>1 DEF VouchedInv, Vouched, GuardInv, HeldRecently, Claims, Req
<1> QED
  BY <1>2, <1>3, <1>4

\* A role that is lost now was held until now, and no clock is further ahead.
LEMMA PatchUserStep ==
  ASSUME IInv, NEW x \in Requests, NEW u \in Users,
         NEW new \in Roles \cup {None}, NEW b \in BOOLEAN \cup {None},
         PatchUser(x, u, new, b)
  PROVE  IInv'
<1>1. /\ pc' = [pc EXCEPT ![x] = "idle"] /\ req' = [req EXCEPT ![x] = NoReq]
      /\ NoReq \in Req /\ NoReq.at <= clock + MaxSkew
      /\ UNCHANGED <<clock, ahead, tokens>>
  BY NoReqType DEF PatchUser, Finish, IInv
<1>2. PICK ro \in Roles : /\ ro = Coalesce(new, role[u])
                         /\ role' = [role EXCEPT ![u] = ro]
                         /\ lost' = IF ro = role[u] THEN lost
                                    ELSE [lost EXCEPT ![u][role[u]] = clock]
  BY DEF PatchUser, Coalesce, IInv, TypeOK
<1>3. PICK c \in BOOLEAN : is_active' = [is_active EXCEPT ![u] = c]
  BY DEF PatchUser, Coalesce, IInv, TypeOK
<1>4. role[u] \in Roles
  BY DEF PatchUser, IInv, TypeOK
<1> USE DEF IInv, TypeOK
<1>5. TypeOK'
  BY <1>1, <1>2, <1>3, <1>4
<1>6. NoFuture' /\ PresentInv'
  BY <1>1, <1>2 DEF NoFuture, PresentInv, Claims, Req
<1>7. ASSUME NEW v \in Users, NEW w \in Roles, NEW n \in Nat, n <= clock + MaxSkew
      PROVE  /\ Vouched(v, w, n) => Vouched(v, w, n)'
             /\ HeldRecently(v, w, n) => HeldRecently(v, w, n)'
  BY <1>1, <1>2, <1>4, <1>7 DEF Vouched, HeldRecently
<1>8. VouchedInv'
  <2>1. ASSUME NEW t \in tokens
        PROVE  Vouched(t.sub, t.role, t.iat)'
    BY <1>7, <2>1 DEF VouchedInv, NoFuture, Claims
  <2>2. ASSUME NEW y \in Requests, y # x, pc[y] = "issue"
        PROVE  Vouched(req[y].user, req[y].role, req[y].at)'
    <3>1. req'[y] = req[y] /\ req[y].user \in Users /\ req[y].role \in Roles
            /\ req[y].at \in Nat
      BY <1>1, <2>2 DEF Req
    <3> QED
      BY <1>7, <2>2, <3>1 DEF VouchedInv, NoFuture, Vouched
  <2> QED
    BY <1>1, <2>1, <2>2 DEF VouchedInv
<1>9. GuardInv'
  <2>1. ASSUME NEW y \in Requests, y # x, pc[y] = "handle"
        PROVE  HeldRecently(req[y].user, req[y].role, req[y].at)'
    <3>1. req'[y] = req[y] /\ req[y].user \in Users /\ req[y].role \in Roles
            /\ req[y].at \in Nat
      BY <1>1, <2>1 DEF Req
    <3> QED
      BY <1>7, <2>1, <3>1 DEF GuardInv, NoFuture, HeldRecently
  <2> QED
    BY <1>1, <2>1 DEF GuardInv
<1> QED
  BY <1>5, <1>6, <1>8, <1>9

LEMMA StutterStep == IInv /\ UNCHANGED vars => IInv'
BY DEF vars, userVars, IInv, TypeOK, NoFuture, VouchedInv, Vouched, GuardInv,
       HeldRecently, PresentInv

LEMMA InvStep == IInv /\ [Next]_vars => IInv'
<1> SUFFICES ASSUME IInv, [Next]_vars
             PROVE  IInv'
  OBVIOUS
<1>1. CASE Tick
  BY <1>1, TickStep
<1>2. ASSUME NEW x \in Requests, NEW u \in Users, NEW r \in Replicas,
             Login(x, u, r) \/ Refresh(x, u, r)
      PROVE  IInv'
  BY <1>2, BeginStep
<1>3. ASSUME NEW x \in Requests, ReadRole(x)
      PROVE  IInv'
  BY <1>3, ReadRoleStep
<1>4. ASSUME NEW x \in Requests, Issue(x)
      PROVE  IInv'
  BY <1>4, IssueStep
<1>5. ASSUME NEW x \in Requests, NEW t \in tokens, NEW p \in Permissions,
             NEW r \in Replicas, Call(x, t, p, r)
      PROVE  IInv'
  BY <1>5, CallStep
<1>6. ASSUME NEW x \in Requests, Handle(x) \/ Abort(x)
      PROVE  IInv'
  BY <1>6, EndStep DEF Handle, Abort
<1>7. ASSUME NEW x \in Requests, NEW u \in Users, NEW ro \in Roles,
             CreateUser(x, u, ro)
      PROVE  IInv'
  BY <1>7, CreateUserStep
<1>8. ASSUME NEW x \in Requests, NEW u \in Users, NEW new \in Roles \cup {None},
             NEW b \in BOOLEAN \cup {None}, PatchUser(x, u, new, b)
      PROVE  IInv'
  BY <1>8, PatchUserStep
<1>9. CASE UNCHANGED vars
  BY <1>9, StutterStep
<1> QED
  BY <1>1, <1>2, <1>3, <1>4, <1>5, <1>6, <1>7, <1>8, <1>9 DEF Next

LEMMA Invariance == Spec => []IInv
BY InvInit, InvStep, PTL DEF Spec

\* Every variable has its type, and what is under way is about a user who exists
\* (the claims, the requests and the rows of users).
THEOREM TypeCorrect == Spec => []TypeOK
BY Invariance, PTL DEF IInv

\* Whoever is in a handler holds a role that permits it, or lost it so late that a
\* token read before may still have been alive at the guard: the property the run
\* Access checks, for any lifetime, tolerance and difference of clocks.
THEOREM WithinAuthority == Spec => []ActsWithinAuthority
<1>1. IInv => ActsWithinAuthority
  BY DEF IInv, GuardInv, TypeOK, Req, ActsWithinAuthority
<1> QED
  BY <1>1, Invariance, PTL

\* With a tolerance at least as large as the difference of two clocks, every
\* replica accepts a token until it expires there.
THEOREM LiveAccepted == Spec => []AcceptedWhileLive
<1>1. IInv => AcceptedWhileLive
  <2> SUFFICES ASSUME IInv, NEW t \in tokens, NEW r \in Replicas, Clock(r) < t.exp
               PROVE  Accepts(t, Clock(r))
    BY DEF AcceptedWhileLive
  <2>1. t.iat \in Nat /\ t.exp \in Nat /\ clock \in Nat /\ t.iat <= clock + MaxSkew
    BY DEF IInv, TypeOK, Claims, NoFuture
  <2> QED
    BY <2>1, ClockType DEF IInv, Accepts
<1> QED
  BY <1>1, Invariance, PTL
=============================================================================
