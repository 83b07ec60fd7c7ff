---------------------------- MODULE SettingsProofs ----------------------------
(***************************************************************************)
(* For any tenants, connections and requests, failing anywhere: statements *)
(* run under the tenant of their request, answers hold rows of the         *)
(* caller's tenant, and a logo's URL is for an asset of its own.           *)
(*                                                                         *)
(* First the pool alone, whose invariant speaks of no handler; then the    *)
(* settings, every step of which is a step of the pool or none.            *)
(***************************************************************************)
EXTENDS Settings, TLAPS

USE PoolAssumption, SettingsAssumption

----------------------------------------------------------------------------
(* The pool.                                                               *)

\* Who is past the checkout has a connection, and nobody else has one.
HoldInv ==
  \A x \in Requests : conn[x] # None <=> pc[x] \in {"bare", "scoped", "done"}

AloneInv ==
  \A x, y \in Requests : conn[x] # None /\ conn[x] = conn[y] => x = y

\* A transaction is open while its request has the connection, and bears the
\* request's tenant; a statement on the bare pool opens none.
OpenInv ==
  \A x \in Requests :
    /\ pc[x] \in {"scoped", "done"} =>
         tenant[x] # None /\ conn[x] \in open /\ setting[conn[x]] = tenant[x]
    /\ pc[x] = "bare" => conn[x] \notin open

\* A setting does not outlive its transaction.
CleanInv == \A c \in Conns : c \notin open => setting[c] = None

PoolInv == PoolTypeOK /\ HoldInv /\ AloneInv /\ OpenInv /\ CleanInv

LEMMA PoolStart == PoolInit => PoolInv
BY DEF PoolInit, PoolInv, PoolTypeOK, HoldInv, AloneInv, OpenInv, CleanInv

LEMMA PoolArrive ==
  ASSUME PoolInv, NEW x \in Requests, NEW t \in Tenants \cup {None}, Arrive(x, t)
  PROVE  PoolInv'
BY DEF PoolInv, PoolTypeOK, HoldInv, AloneInv, OpenInv, CleanInv, Arrive, GoTo

LEMMA PoolBegin ==
  ASSUME PoolInv, NEW x \in Requests, NEW c \in Conns, BeginTenantTx(x, c)
  PROVE  PoolInv'
<1>1. PoolTypeOK' /\ HoldInv' /\ CleanInv'
  BY DEF PoolInv, PoolTypeOK, HoldInv, CleanInv, BeginTenantTx, GoTo
<1>2. AloneInv' /\ OpenInv'
  BY DEF PoolInv, PoolTypeOK, AloneInv, OpenInv, HoldInv, BeginTenantTx, GoTo, Free, Lent
<1> QED
  BY <1>1, <1>2 DEF PoolInv

LEMMA PoolAcquire ==
  ASSUME PoolInv, NEW x \in Requests, NEW c \in Conns, Acquire(x, c)
  PROVE  PoolInv'
<1>1. PoolTypeOK' /\ HoldInv' /\ CleanInv'
  BY DEF PoolInv, PoolTypeOK, HoldInv, CleanInv, Acquire, GoTo
<1>2. AloneInv' /\ OpenInv'
  BY DEF PoolInv, PoolTypeOK, AloneInv, OpenInv, HoldInv, Acquire, GoTo, Free, Lent
<1> QED
  BY <1>1, <1>2 DEF PoolInv

LEMMA PoolExecute ==
  ASSUME PoolInv, NEW x \in Requests, Execute(x)
  PROVE  PoolInv'
BY DEF PoolInv, PoolTypeOK, HoldInv, AloneInv, OpenInv, CleanInv, Execute, GoTo

LEMMA PoolCommit ==
  ASSUME PoolInv, NEW x \in Requests, Commit(x)
  PROVE  PoolInv'
<1>1. PoolTypeOK' /\ HoldInv' /\ CleanInv'
  BY DEF PoolInv, PoolTypeOK, HoldInv, OpenInv, CleanInv, Commit, GoTo
<1>2. AloneInv' /\ OpenInv'
  BY DEF PoolInv, PoolTypeOK, AloneInv, OpenInv, HoldInv, Commit, GoTo
<1> QED
  BY <1>1, <1>2 DEF PoolInv

LEMMA PoolBare ==
  ASSUME PoolInv, NEW x \in Requests, Bare(x)
  PROVE  PoolInv'
BY DEF PoolInv, PoolTypeOK, HoldInv, AloneInv, OpenInv, CleanInv, Bare, GoTo

LEMMA PoolAgain ==
  ASSUME PoolInv, NEW x \in Requests, NEW t \in Tenants, Again(x, t)
  PROVE  PoolInv'
BY DEF PoolInv, PoolTypeOK, HoldInv, AloneInv, OpenInv, CleanInv, Again, GoTo

LEMMA PoolEnd ==
  ASSUME PoolInv, NEW x \in Requests, EndRequest(x)
  PROVE  PoolInv'
BY DEF PoolInv, PoolTypeOK, HoldInv, AloneInv, OpenInv, CleanInv, EndRequest, GoTo

LEMMA PoolAbandon ==
  ASSUME PoolInv, NEW x \in Requests, Abandon(x)
  PROVE  PoolInv'
BY DEF PoolInv, PoolTypeOK, HoldInv, AloneInv, OpenInv, CleanInv, Abandon, GoTo

LEMMA PoolRecycle ==
  ASSUME PoolInv, NEW c \in Conns, Recycle(c)
  PROVE  PoolInv'
BY DEF PoolInv, PoolTypeOK, HoldInv, AloneInv, OpenInv, CleanInv, Recycle, Lent

LEMMA PoolStep == PoolInv /\ [PoolNext]_poolVars => PoolInv'
<1> SUFFICES ASSUME PoolInv, [PoolNext]_poolVars
             PROVE  PoolInv'
  OBVIOUS
<1>1. CASE UNCHANGED poolVars
  BY <1>1 DEF PoolInv, PoolTypeOK, HoldInv, AloneInv, OpenInv, CleanInv, poolVars
<1>2. ASSUME NEW x \in Requests, NEW t \in Tenants \cup {None}, Arrive(x, t)
      PROVE  PoolInv'
  BY <1>2, PoolArrive
<1>3. ASSUME NEW x \in Requests, NEW c \in Conns, BeginTenantTx(x, c) \/ Acquire(x, c)
      PROVE  PoolInv'
  BY <1>3, PoolBegin, PoolAcquire
<1>4. ASSUME NEW x \in Requests,
             Execute(x) \/ Commit(x) \/ Bare(x) \/ Answer(x) \/ Drop(x) \/ Abandon(x)
      PROVE  PoolInv'
  BY <1>4, PoolExecute, PoolCommit, PoolBare, PoolEnd, PoolAbandon DEF Answer, Drop
<1>5. ASSUME NEW x \in Requests, NEW t \in Tenants, Again(x, t)
      PROVE  PoolInv'
  BY <1>5, PoolAgain
<1>6. ASSUME NEW c \in Conns, Recycle(c)
      PROVE  PoolInv'
  BY <1>6, PoolRecycle
<1> QED
  BY <1>1, <1>2, <1>3, <1>4, <1>5, <1>6 DEF PoolNext

LEMMA PoolIsolates == PoolInv => TenantIsolation
<1> SUFFICES ASSUME PoolInv
             PROVE  TenantIsolation
  OBVIOUS
<1>1. ASSUME NEW x \in Requests, pc[x] \in {"scoped", "done"}
      PROVE  /\ conn[x] # None
             /\ Visible(x) = tenant[x] /\ tenant[x] # None
             /\ \A y \in Requests : conn[y] = conn[x] => y = x
  BY <1>1 DEF PoolInv, HoldInv, AloneInv, OpenInv, Visible
<1>2. \A c \in Conns : Free(c) => setting[c] = None
  BY DEF PoolInv, CleanInv, Free
<1> QED
  BY <1>1, <1>2 DEF TenantIsolation

----------------------------------------------------------------------------
(* The settings.                                                           *)

\* Who acts for nobody yet has read nothing, and a request that is over has left
\* nothing behind.
NamedInv ==
  \A x \in Requests :
    /\ op[x] = "none" <=> pc[x] = "idle"
    /\ op[x] \in {"get", "put"} => tenant[x] # None
    /\ op[x] \in {"none", "other"} => answer[x] = None

\* The second transaction follows a row that names a logo, which does not change
\* any more.
StageInv ==
  \A x \in Requests :
    /\ stage[x] = "logo" => op[x] \in {"get", "put"} /\ NamesLogo(x)
    /\ url[x] # None => stage[x] = "logo"

\* A row's lock belongs to an open transaction of its tenant that upserts.
LockInv ==
  /\ \A t \in Tenants : locker[t] # None => locker[t] \in open /\ setting[locker[t]] = t
  /\ \A t \in Tenants, x \in Requests :
       locker[t] # None /\ locker[t] = conn[x] => op[x] = "put" /\ stage[x] = "row"

BodyInv == \A x \in Requests : op[x] = "put" => body[x] \in Bodies[tenant[x]]

RowsInv ==
  /\ TypeOK /\ NamedInv /\ StageInv /\ LockInv /\ BodyInv
  /\ OwnSettings /\ UrlIsOwnReadyAsset

LEMMA RowsStart == Init => RowsInv
BY DEF Init, PoolInit, RowsInv, TypeOK, PoolTypeOK, NamedInv, StageInv, LockInv, BodyInv,
       OwnSettings, UrlIsOwnReadyAsset

LEMMA BeginRequest ==
  ASSUME PoolInv, RowsInv, NEW x \in Requests, NEW t \in Tenants,
         GetSettings(x, t) \/ PutSettings(x, t)
  PROVE  RowsInv'
<1> USE DEF PoolInv, RowsInv, GetSettings, PutSettings, Begin, Arrive, GoTo
<1>1. TypeOK'
  BY DEF TypeOK, PoolTypeOK
<1>2. NamedInv'
  BY DEF TypeOK, PoolTypeOK, NamedInv, StageInv
<1>3. StageInv'
  BY DEF TypeOK, PoolTypeOK, NamedInv, StageInv, NamesLogo
<1>4. LockInv'
  BY DEF TypeOK, PoolTypeOK, NamedInv, HoldInv, AloneInv, OpenInv, LockInv
<1>5. BodyInv'
  <2>1. op'[x] = "put" => body'[x] \in Bodies[t]
    BY DEF TypeOK
  <2>2. \A y \in Requests \ {x} : op'[y] = op[y] /\ body'[y] = body[y] /\ tenant'[y] = tenant[y]
    BY DEF TypeOK, PoolTypeOK
  <2> QED
    BY <2>1, <2>2 DEF TypeOK, PoolTypeOK, BodyInv
<1>6. OwnSettings'
  BY DEF TypeOK, PoolTypeOK, NamedInv, OwnSettings
<1>7. UrlIsOwnReadyAsset'
  BY DEF TypeOK, PoolTypeOK, NamedInv, StageInv, NamesLogo, OpenInv, UrlIsOwnReadyAsset
<1> QED
  BY <1>1, <1>2, <1>3, <1>4, <1>5, <1>6, <1>7

LEMMA OtherBegins ==
  ASSUME PoolInv, RowsInv, NEW x \in Requests, OtherRequest(x)
  PROVE  RowsInv'
<1> USE DEF PoolInv, RowsInv, OtherRequest, Begin, Arrive, GoTo
<1>1. TypeOK'
  BY DEF TypeOK, PoolTypeOK
<1>2. NamedInv'
  BY DEF TypeOK, PoolTypeOK, NamedInv, StageInv
<1>3. StageInv'
  BY DEF TypeOK, PoolTypeOK, NamedInv, StageInv, NamesLogo
<1>4. LockInv'
  BY DEF TypeOK, PoolTypeOK, NamedInv, HoldInv, AloneInv, OpenInv, LockInv
<1>5. BodyInv' /\ OwnSettings'
  BY DEF TypeOK, PoolTypeOK, NamedInv, StageInv, OpenInv, LockInv, BodyInv, OwnSettings
<1>6. UrlIsOwnReadyAsset'
  BY DEF TypeOK, PoolTypeOK, NamedInv, StageInv, NamesLogo, OpenInv, UrlIsOwnReadyAsset
<1> QED
  BY <1>1, <1>2, <1>3, <1>4, <1>5, <1>6

LEMMA CheckoutStep ==
  ASSUME PoolInv, RowsInv, NEW x \in Requests, NEW c \in Conns,
         BeginTenantTx(x, c) \/ Acquire(x, c), UNCHANGED settingsVars
  PROVE  RowsInv'
<1> USE DEF PoolInv, RowsInv, BeginTenantTx, Acquire, GoTo, Free, Lent, settingsVars,
        requestVars
<1>1. TypeOK'
  BY DEF TypeOK, PoolTypeOK
<1>2. NamedInv'
  BY DEF TypeOK, PoolTypeOK, NamedInv, StageInv
<1>3. StageInv'
  BY DEF TypeOK, PoolTypeOK, NamedInv, StageInv, NamesLogo
<1>4. LockInv'
  BY DEF TypeOK, PoolTypeOK, NamedInv, HoldInv, AloneInv, OpenInv, LockInv
<1>5. BodyInv' /\ OwnSettings'
  BY DEF TypeOK, PoolTypeOK, NamedInv, StageInv, OpenInv, LockInv, BodyInv, OwnSettings
<1>6. UrlIsOwnReadyAsset'
  BY DEF TypeOK, PoolTypeOK, NamedInv, StageInv, NamesLogo, OpenInv, UrlIsOwnReadyAsset
<1> QED
  BY <1>1, <1>2, <1>3, <1>4, <1>5, <1>6

LEMMA LoadRowStep ==
  ASSUME PoolInv, RowsInv, NEW x \in Requests, LoadRow(x)
  PROVE  RowsInv'
<1> USE DEF PoolInv, RowsInv, LoadRow, Execute, GoTo, VisibleRow, Visible
<1>1. TypeOK'
  <2>1. row[tenant[x]] \in Body \cup {None}
    BY DEF TypeOK, PoolTypeOK, OpenInv
  <2> QED
    BY <2>1 DEF TypeOK, PoolTypeOK, OpenInv
<1>2. NamedInv'
  BY DEF TypeOK, PoolTypeOK, NamedInv, StageInv
<1>3. StageInv'
  BY DEF TypeOK, PoolTypeOK, NamedInv, StageInv, NamesLogo
<1>4. LockInv'
  BY DEF TypeOK, PoolTypeOK, NamedInv, HoldInv, AloneInv, OpenInv, LockInv
<1>5. BodyInv' /\ OwnSettings'
  BY DEF TypeOK, PoolTypeOK, NamedInv, StageInv, OpenInv, LockInv, BodyInv, OwnSettings
<1>6. UrlIsOwnReadyAsset'
  BY DEF TypeOK, PoolTypeOK, NamedInv, StageInv, NamesLogo, OpenInv, UrlIsOwnReadyAsset
<1> QED
  BY <1>1, <1>2, <1>3, <1>4, <1>5, <1>6

LEMMA UpsertRowStep ==
  ASSUME PoolInv, RowsInv, NEW x \in Requests, UpsertRow(x)
  PROVE  RowsInv'
<1> USE DEF PoolInv, RowsInv, UpsertRow, Execute, GoTo, Visible
<1>1. TypeOK'
  BY DEF TypeOK, PoolTypeOK
<1>2. NamedInv'
  BY DEF TypeOK, PoolTypeOK, NamedInv, StageInv
<1>3. StageInv'
  BY DEF TypeOK, PoolTypeOK, NamedInv, StageInv, NamesLogo
<1>4. LockInv'
  BY DEF TypeOK, PoolTypeOK, NamedInv, HoldInv, AloneInv, OpenInv, LockInv
<1>5. BodyInv' /\ OwnSettings'
  BY DEF TypeOK, PoolTypeOK, NamedInv, StageInv, OpenInv, LockInv, BodyInv, OwnSettings
<1>6. UrlIsOwnReadyAsset'
  BY DEF TypeOK, PoolTypeOK, NamedInv, StageInv, NamesLogo, OpenInv, UrlIsOwnReadyAsset
<1> QED
  BY <1>1, <1>2, <1>3, <1>4, <1>5, <1>6

LEMMA CommitRowStep ==
  ASSUME PoolInv, RowsInv, NEW x \in Requests, CommitRow(x)
  PROVE  RowsInv'
<1> USE DEF PoolInv, RowsInv, CommitRow, Commit, GoTo, Unlocked, requestVars
<1>1. TypeOK'
  BY DEF TypeOK, PoolTypeOK
<1>2. NamedInv'
  BY DEF TypeOK, PoolTypeOK, NamedInv, StageInv
<1>3. StageInv'
  BY DEF TypeOK, PoolTypeOK, NamedInv, StageInv, NamesLogo
<1>4. LockInv'
  BY DEF TypeOK, PoolTypeOK, NamedInv, HoldInv, AloneInv, OpenInv, LockInv
<1>5. BodyInv' /\ OwnSettings'
  BY DEF TypeOK, PoolTypeOK, NamedInv, StageInv, OpenInv, LockInv, BodyInv, OwnSettings
<1>6. UrlIsOwnReadyAsset'
  BY DEF TypeOK, PoolTypeOK, NamedInv, StageInv, NamesLogo, OpenInv, UrlIsOwnReadyAsset
<1> QED
  BY <1>1, <1>2, <1>3, <1>4, <1>5, <1>6

LEMMA ResolveLogoStep ==
  ASSUME PoolInv, RowsInv, NEW x \in Requests, ResolveLogo(x)
  PROVE  RowsInv'
<1> USE DEF PoolInv, RowsInv, ResolveLogo, Again, GoTo
<1>1. TypeOK'
  BY DEF TypeOK, PoolTypeOK
<1>2. NamedInv'
  BY DEF TypeOK, PoolTypeOK, NamedInv, StageInv
<1>3. StageInv'
  BY DEF TypeOK, PoolTypeOK, NamedInv, StageInv, NamesLogo
<1>4. LockInv'
  BY DEF TypeOK, PoolTypeOK, NamedInv, HoldInv, AloneInv, OpenInv, LockInv
<1>5. BodyInv' /\ OwnSettings'
  BY DEF TypeOK, PoolTypeOK, NamedInv, StageInv, OpenInv, LockInv, BodyInv, OwnSettings
<1>6. UrlIsOwnReadyAsset'
  BY DEF TypeOK, PoolTypeOK, NamedInv, StageInv, NamesLogo, OpenInv, UrlIsOwnReadyAsset
<1> QED
  BY <1>1, <1>2, <1>3, <1>4, <1>5, <1>6

LEMMA FetchLogoStep ==
  ASSUME PoolInv, RowsInv, NEW x \in Requests, FetchLogo(x)
  PROVE  RowsInv'
<1> USE DEF PoolInv, RowsInv, FetchLogo, Execute, GoTo, Visible, Servable
<1>1. TypeOK'
  <2>1. answer[x].logo \in Assets
    BY DEF TypeOK, Body, StageInv, NamesLogo
  <2>2. url' \in [Requests -> Assets \cup {None}]
    BY <2>1 DEF TypeOK
  <2>3. \A y \in Requests : op[y] = "none" => url'[y] = None
    BY DEF TypeOK, StageInv
  <2> QED
    BY <2>2, <2>3 DEF TypeOK, PoolTypeOK
<1>2. NamedInv'
  BY DEF TypeOK, PoolTypeOK, NamedInv, StageInv
<1>3. StageInv'
  BY DEF TypeOK, PoolTypeOK, NamedInv, StageInv, NamesLogo
<1>4. LockInv'
  BY DEF TypeOK, PoolTypeOK, NamedInv, HoldInv, AloneInv, OpenInv, LockInv
<1>5. BodyInv' /\ OwnSettings'
  BY DEF TypeOK, PoolTypeOK, NamedInv, StageInv, OpenInv, LockInv, BodyInv, OwnSettings
<1>6. UrlIsOwnReadyAsset'
  BY DEF TypeOK, PoolTypeOK, NamedInv, StageInv, NamesLogo, OpenInv, UrlIsOwnReadyAsset
<1> QED
  BY <1>1, <1>2, <1>3, <1>4, <1>5, <1>6

LEMMA CommitLogoStep ==
  ASSUME PoolInv, RowsInv, NEW x \in Requests, CommitLogo(x)
  PROVE  RowsInv'
<1> USE DEF PoolInv, RowsInv, CommitLogo, Commit, GoTo, settingsVars, requestVars
<1>1. TypeOK'
  BY DEF TypeOK, PoolTypeOK
<1>2. NamedInv'
  BY DEF TypeOK, PoolTypeOK, NamedInv, StageInv
<1>3. StageInv'
  BY DEF TypeOK, PoolTypeOK, NamedInv, StageInv, NamesLogo
<1>4. LockInv'
  BY DEF TypeOK, PoolTypeOK, NamedInv, HoldInv, AloneInv, OpenInv, LockInv
<1>5. BodyInv' /\ OwnSettings'
  BY DEF TypeOK, PoolTypeOK, NamedInv, StageInv, OpenInv, LockInv, BodyInv, OwnSettings
<1>6. UrlIsOwnReadyAsset'
  BY DEF TypeOK, PoolTypeOK, NamedInv, StageInv, NamesLogo, OpenInv, UrlIsOwnReadyAsset
<1> QED
  BY <1>1, <1>2, <1>3, <1>4, <1>5, <1>6

LEMMA GiveUpLogoStep ==
  ASSUME PoolInv, RowsInv, NEW x \in Requests, GiveUpLogo(x)
  PROVE  RowsInv'
<1> USE DEF PoolInv, RowsInv, GiveUpLogo, Abandon, GoTo, poolVars
<1>1. TypeOK'
  BY DEF TypeOK, PoolTypeOK
<1>2. NamedInv'
  BY DEF TypeOK, PoolTypeOK, NamedInv, StageInv
<1>3. StageInv'
  BY DEF TypeOK, PoolTypeOK, NamedInv, StageInv, NamesLogo
<1>4. LockInv'
  BY DEF TypeOK, PoolTypeOK, NamedInv, HoldInv, AloneInv, OpenInv, LockInv
<1>5. BodyInv' /\ OwnSettings'
  BY DEF TypeOK, PoolTypeOK, NamedInv, StageInv, OpenInv, LockInv, BodyInv, OwnSettings
<1>6. UrlIsOwnReadyAsset'
  BY DEF TypeOK, PoolTypeOK, NamedInv, StageInv, NamesLogo, OpenInv, UrlIsOwnReadyAsset
<1> QED
  BY <1>1, <1>2, <1>3, <1>4, <1>5, <1>6

LEMMA EndStep ==
  ASSUME PoolInv, RowsInv, NEW x \in Requests, EndRequest(x), Forget(x)
  PROVE  RowsInv'
<1> USE DEF PoolInv, RowsInv, EndRequest, Forget, GoTo
<1>1. TypeOK'
  BY DEF TypeOK, PoolTypeOK
<1>2. NamedInv'
  BY DEF TypeOK, PoolTypeOK, NamedInv, StageInv
<1>3. StageInv'
  BY DEF TypeOK, PoolTypeOK, NamedInv, StageInv, NamesLogo
<1>4. LockInv'
  BY DEF TypeOK, PoolTypeOK, NamedInv, HoldInv, AloneInv, OpenInv, LockInv
<1>5. BodyInv' /\ OwnSettings'
  BY DEF TypeOK, PoolTypeOK, NamedInv, StageInv, OpenInv, LockInv, BodyInv, OwnSettings
<1>6. UrlIsOwnReadyAsset'
  BY DEF TypeOK, PoolTypeOK, NamedInv, StageInv, NamesLogo, OpenInv, UrlIsOwnReadyAsset
<1> QED
  BY <1>1, <1>2, <1>3, <1>4, <1>5, <1>6

LEMMA OtherExecutes ==
  ASSUME PoolInv, RowsInv, NEW x \in Requests, op[x] = "other",
         Execute(x) \/ Commit(x) \/ Bare(x), UNCHANGED settingsVars
  PROVE  RowsInv'
<1> USE DEF PoolInv, RowsInv, Execute, Commit, Bare, GoTo, settingsVars, requestVars
<1>1. TypeOK'
  BY DEF TypeOK, PoolTypeOK
<1>2. NamedInv'
  BY DEF TypeOK, PoolTypeOK, NamedInv, StageInv
<1>3. StageInv'
  BY DEF TypeOK, PoolTypeOK, NamedInv, StageInv, NamesLogo
<1>4. LockInv'
  BY DEF TypeOK, PoolTypeOK, NamedInv, HoldInv, AloneInv, OpenInv, LockInv
<1>5. BodyInv' /\ OwnSettings'
  BY DEF TypeOK, PoolTypeOK, NamedInv, StageInv, OpenInv, LockInv, BodyInv, OwnSettings
<1>6. UrlIsOwnReadyAsset'
  BY DEF TypeOK, PoolTypeOK, NamedInv, StageInv, NamesLogo, OpenInv, UrlIsOwnReadyAsset
<1> QED
  BY <1>1, <1>2, <1>3, <1>4, <1>5, <1>6

LEMMA ResolvedStep ==
  ASSUME PoolInv, RowsInv, NEW x \in Requests, TenantResolved(x)
  PROVE  RowsInv'
<1> USE DEF PoolInv, RowsInv, TenantResolved, Again, GoTo, settingsVars, requestVars
<1>1. TypeOK'
  BY DEF TypeOK, PoolTypeOK
<1>2. NamedInv'
  BY DEF TypeOK, PoolTypeOK, NamedInv, StageInv
<1>3. StageInv'
  BY DEF TypeOK, PoolTypeOK, NamedInv, StageInv, NamesLogo
<1>4. LockInv'
  BY DEF TypeOK, PoolTypeOK, NamedInv, HoldInv, AloneInv, OpenInv, LockInv
<1>5. BodyInv' /\ OwnSettings'
  BY DEF TypeOK, PoolTypeOK, NamedInv, StageInv, OpenInv, LockInv, BodyInv, OwnSettings
<1>6. UrlIsOwnReadyAsset'
  BY DEF TypeOK, PoolTypeOK, NamedInv, StageInv, NamesLogo, OpenInv, UrlIsOwnReadyAsset
<1> QED
  BY <1>1, <1>2, <1>3, <1>4, <1>5, <1>6

LEMMA RecycleStep ==
  ASSUME PoolInv, RowsInv, NEW c \in Conns, RecycleConn(c)
  PROVE  RowsInv'
<1> USE DEF PoolInv, RowsInv, RecycleConn, Recycle, Lent, Unlocked, requestVars
<1>1. TypeOK'
  BY DEF TypeOK, PoolTypeOK
<1>2. NamedInv'
  BY DEF TypeOK, PoolTypeOK, NamedInv, StageInv
<1>3. StageInv'
  BY DEF TypeOK, PoolTypeOK, NamedInv, StageInv, NamesLogo
<1>4. LockInv'
  BY DEF TypeOK, PoolTypeOK, NamedInv, HoldInv, AloneInv, OpenInv, LockInv
<1>5. BodyInv' /\ OwnSettings'
  BY DEF TypeOK, PoolTypeOK, NamedInv, StageInv, OpenInv, LockInv, BodyInv, OwnSettings
<1>6. UrlIsOwnReadyAsset'
  BY DEF TypeOK, PoolTypeOK, NamedInv, StageInv, NamesLogo, OpenInv, UrlIsOwnReadyAsset
<1> QED
  BY <1>1, <1>2, <1>3, <1>4, <1>5, <1>6

LEMMA AssetStep ==
  ASSUME PoolInv, RowsInv, AssetChanges
  PROVE  RowsInv'
<1> USE DEF PoolInv, RowsInv, AssetChanges, Life!Confirm, Life!Discard,
        poolVars, requestVars
<1>1. TypeOK'
  BY DEF TypeOK, PoolTypeOK
<1>2. NamedInv'
  BY DEF TypeOK, PoolTypeOK, NamedInv, StageInv
<1>3. StageInv'
  BY DEF TypeOK, PoolTypeOK, NamedInv, StageInv, NamesLogo
<1>4. LockInv'
  BY DEF TypeOK, PoolTypeOK, NamedInv, HoldInv, AloneInv, OpenInv, LockInv
<1>5. BodyInv' /\ OwnSettings'
  BY DEF TypeOK, PoolTypeOK, NamedInv, StageInv, OpenInv, LockInv, BodyInv, OwnSettings
<1>6. UrlIsOwnReadyAsset'
  BY DEF TypeOK, PoolTypeOK, NamedInv, StageInv, NamesLogo, OpenInv, UrlIsOwnReadyAsset
<1> QED
  BY <1>1, <1>2, <1>3, <1>4, <1>5, <1>6

LEMMA WorkStep ==
  ASSUME PoolInv, RowsInv, NEW x \in Requests, Work(x)
  PROVE  RowsInv'
BY CheckoutStep, LoadRowStep, UpsertRowStep, CommitRowStep, ResolveLogoStep, FetchLogoStep,
   CommitLogoStep, EndStep, OtherExecutes
   DEF Work, Reply, Answer, OtherStep

LEMMA RowsStep == PoolInv /\ RowsInv /\ [Next]_vars => RowsInv'
<1> SUFFICES ASSUME PoolInv, RowsInv, [Next]_vars
             PROVE  RowsInv'
  OBVIOUS
<1>1. CASE UNCHANGED vars
  BY <1>1
  DEF vars, poolVars, settingsVars, requestVars, RowsInv, TypeOK, PoolTypeOK, NamedInv,
      StageInv, NamesLogo, LockInv, BodyInv, OwnSettings, UrlIsOwnReadyAsset
<1>2. ASSUME NEW x \in Requests, NEW t \in Tenants, GetSettings(x, t) \/ PutSettings(x, t)
      PROVE  RowsInv'
  BY <1>2, BeginRequest
<1>3. ASSUME NEW x \in Requests, OtherRequest(x) \/ TenantResolved(x) \/ GiveUpLogo(x) \/ Fail(x)
      PROVE  RowsInv'
  BY <1>3, OtherBegins, ResolvedStep, GiveUpLogoStep, EndStep DEF Fail, Drop
<1>4. ASSUME NEW x \in Requests, Work(x)
      PROVE  RowsInv'
  BY <1>4, WorkStep
<1>5. ASSUME NEW c \in Conns, RecycleConn(c)
      PROVE  RowsInv'
  BY <1>5, RecycleStep
<1>6. CASE AssetChanges
  BY <1>6, AssetStep
<1> QED
  BY <1>1, <1>2, <1>3, <1>4, <1>5, <1>6 DEF Next

----------------------------------------------------------------------------
(* The settings use the pool as it allows.                                 *)

LEMMA BeginUsesPool ==
  ASSUME NEW x \in Requests,
         \/ \E t \in Tenants : GetSettings(x, t) \/ PutSettings(x, t)
         \/ OtherRequest(x)
  PROVE  PoolNext
BY DEF GetSettings, PutSettings, OtherRequest, Begin, PoolNext

LEMMA WorkUsesPool ==
  ASSUME RowsInv, NEW x \in Requests, Work(x)
  PROVE  PoolNext
<1>1. \A c \in Conns : BeginTenantTx(x, c) \/ Acquire(x, c) => PoolNext
  BY DEF PoolNext
<1>2. Execute(x) \/ Commit(x) \/ Bare(x) \/ Answer(x) => PoolNext
  BY DEF PoolNext
<1>3. ResolveLogo(x) => PoolNext
  <2> SUFFICES ASSUME ResolveLogo(x) PROVE PoolNext
    OBVIOUS
  <2>1. Again(x, tenant[x])
    BY DEF ResolveLogo
  <2>2. tenant[x] \in Tenants
    BY DEF ResolveLogo, RowsInv, TypeOK, PoolTypeOK, NamedInv
  <2> QED
    BY <2>1, <2>2 DEF PoolNext
<1> QED
  BY <1>1, <1>2, <1>3
  DEF Work, LoadRow, UpsertRow, CommitRow, FetchLogo, CommitLogo, Reply, OtherStep

LEMMA UsesPool == RowsInv /\ [Next]_vars => [PoolNext]_poolVars
<1> SUFFICES ASSUME RowsInv, [Next]_vars
             PROVE  [PoolNext]_poolVars
  OBVIOUS
<1>1. CASE UNCHANGED vars
  BY <1>1 DEF vars
<1>2. ASSUME NEW x \in Requests,
             \/ \E t \in Tenants : GetSettings(x, t) \/ PutSettings(x, t)
             \/ OtherRequest(x)
      PROVE  PoolNext
  BY <1>2, BeginUsesPool
<1>3. ASSUME NEW x \in Requests, Work(x)
      PROVE  PoolNext
  BY <1>3, WorkUsesPool
<1>4. ASSUME NEW x \in Requests, TenantResolved(x) \/ GiveUpLogo(x) \/ Fail(x)
      PROVE  PoolNext \/ UNCHANGED poolVars
  BY <1>4 DEF TenantResolved, GiveUpLogo, Fail, PoolNext
<1>5. ASSUME NEW c \in Conns, RecycleConn(c)
      PROVE  PoolNext
  BY <1>5 DEF RecycleConn, PoolNext
<1>6. CASE AssetChanges
  BY <1>6 DEF AssetChanges
<1> QED
  BY <1>1, <1>2, <1>3, <1>4, <1>5, <1>6 DEF Next

LEMMA Invariant == Spec => [](PoolInv /\ RowsInv)
<1>1. Init => PoolInv /\ RowsInv
  BY PoolStart, RowsStart DEF Init
<1>2. PoolInv /\ RowsInv /\ [Next]_vars => (PoolInv /\ RowsInv)'
  BY UsesPool, PoolStep, RowsStep
<1> QED
  BY <1>1, <1>2, PTL DEF Spec

----------------------------------------------------------------------------
(* The theorems.                                                           *)

\* Rows, locks, requests and the pool keep their types (the business_settings
\* table and the handlers of GET and PUT).
THEOREM TypeCorrect == Spec => []TypeOK
<1>1. RowsInv => TypeOK
  BY DEF RowsInv
<1> QED
  BY <1>1, Invariant, PTL

\* The handlers take and return connections only as the pool allows: what holds
\* of TenantPool holds of them.
THEOREM ImplementsThePool == Spec => PoolSpec
<1>1. Init => PoolInit
  BY DEF Init
<1> QED
  BY <1>1, UsesPool, Invariant, PTL DEF Spec, PoolSpec

\* The pool alone, for any handlers that use it as it allows: begin_tenant_tx
\* isolates the tenants.
THEOREM PoolIsolation == PoolSpec => []TenantIsolation
<1>1. PoolSpec => []PoolInv
  BY PoolStart, PoolStep, PTL DEF PoolSpec
<1> QED
  BY <1>1, PoolIsolates, PTL

\* Every statement of the settings runs on a connection of its own, under the
\* tenant of its request, and no tenant stays on a connection that is given back.
THEOREM Isolation == Spec => []TenantIsolation
BY ImplementsThePool, PoolIsolation, PTL

\* A row is one body PUT for its tenant, and an answer a row of the caller's.
THEOREM Own == Spec => []OwnSettings
<1>1. RowsInv => OwnSettings
  BY DEF RowsInv
<1> QED
  BY <1>1, Invariant, PTL

\* The URL in an answer is for the asset the same answer names, its tenant's, and
\* once ready, whatever happens between the handler's two transactions.
THEOREM OwnUrl == Spec => []UrlIsOwnReadyAsset
<1>1. RowsInv => UrlIsOwnReadyAsset
  BY DEF RowsInv
<1> QED
  BY <1>1, Invariant, PTL

----------------------------------------------------------------------------
(* Waiting.                                                                *)

\* Who holds the lock of a row has done all but commit.
DoneInv ==
  \A t \in Tenants, x \in Requests :
    locker[t] # None /\ locker[t] = conn[x] => pc[x] = "done"

LEMMA OnlyUpsertsLock ==
  ASSUME RowsInv, [Next]_vars
  PROVE  \/ \E x \in Requests : UpsertRow(x)
         \/ \A t \in Tenants : locker'[t] \in {locker[t], None}
<1>1. ASSUME NEW x \in Requests,
             \/ \E t \in Tenants : GetSettings(x, t) \/ PutSettings(x, t)
             \/ OtherRequest(x) \/ TenantResolved(x) \/ GiveUpLogo(x) \/ Fail(x)
      PROVE  locker' = locker
  BY <1>1 DEF GetSettings, PutSettings, OtherRequest, Begin, TenantResolved, GiveUpLogo, Fail,
     Forget, settingsVars
<1>2. ASSUME NEW c
      PROVE  \A t \in Tenants : Unlocked(c)[t] \in {locker[t], None}
  BY DEF Unlocked
<1>3. ASSUME NEW x \in Requests, Work(x), ~UpsertRow(x), ~CommitRow(x)
      PROVE  locker' = locker
  BY <1>3 DEF Work, LoadRow, ResolveLogo, FetchLogo, CommitLogo, Reply, OtherStep, Forget,
     settingsVars
<1>4. ASSUME NEW x \in Requests, CommitRow(x)
      PROVE  \A t \in Tenants : locker'[t] \in {locker[t], None}
  BY <1>2, <1>4 DEF CommitRow
<1>5. ASSUME NEW c \in Conns, RecycleConn(c)
      PROVE  \A t \in Tenants : locker'[t] \in {locker[t], None}
  BY <1>2, <1>5 DEF RecycleConn
<1>6. CASE AssetChanges \/ UNCHANGED vars
  BY <1>6 DEF AssetChanges, vars, settingsVars
<1> QED
  BY <1>1, <1>3, <1>4, <1>5, <1>6 DEF Next

\* A connection that is lent anew holds no lock.
LEMMA PoolKeepsDone ==
  ASSUME PoolInv, LockInv, DoneInv, [PoolNext]_poolVars,
         \A t \in Tenants : locker'[t] \in {locker[t], None}
  PROVE  DoneInv'
<1> SUFFICES ASSUME NEW t \in Tenants, NEW y \in Requests,
                    locker'[t] # None, locker'[t] = conn'[y]
             PROVE  pc'[y] = "done"
  BY DEF DoneInv
<1>1. PoolTypeOK /\ HoldInv /\ locker'[t] = locker[t] /\ locker[t] \in open
  BY DEF PoolInv, LockInv
<1>2. conn'[y] = conn[y] => pc[y] = "done"
  BY <1>1 DEF DoneInv
<1>3. CASE UNCHANGED poolVars
  BY <1>2, <1>3 DEF poolVars
<1>4. ASSUME NEW x \in Requests, \E s \in Tenants \cup {None} : Arrive(x, s)
      PROVE  pc'[y] = "done"
  BY <1>1, <1>2, <1>4 DEF Arrive, GoTo, PoolTypeOK
<1>5. ASSUME NEW x \in Requests, NEW c \in Conns, BeginTenantTx(x, c) \/ Acquire(x, c)
      PROVE  pc'[y] = "done"
  BY <1>1, <1>2, <1>5 DEF BeginTenantTx, Acquire, Free, GoTo, PoolTypeOK
<1>6. ASSUME NEW x \in Requests, Execute(x)
      PROVE  pc'[y] = "done"
  BY <1>1, <1>2, <1>6 DEF Execute, GoTo, PoolTypeOK
<1>7. ASSUME NEW x \in Requests, Commit(x) \/ Bare(x) \/ Abandon(x)
      PROVE  pc'[y] = "done"
  BY <1>1, <1>2, <1>7 DEF Commit, Bare, Abandon, GoTo, PoolTypeOK
<1>8. ASSUME NEW x \in Requests, \E s \in Tenants : Again(x, s)
      PROVE  pc'[y] = "done"
  BY <1>1, <1>2, <1>8 DEF Again, GoTo, PoolTypeOK
<1>9. ASSUME NEW x \in Requests, Answer(x) \/ Drop(x)
      PROVE  pc'[y] = "done"
  BY <1>1, <1>2, <1>9 DEF Answer, Drop, EndRequest, GoTo, PoolTypeOK
<1>10. ASSUME NEW c \in Conns, Recycle(c)
      PROVE  pc'[y] = "done"
  BY <1>1, <1>2, <1>10 DEF Recycle
<1> QED
  BY <1>3, <1>4, <1>5, <1>6, <1>7, <1>8, <1>9, <1>10 DEF PoolNext

LEMMA DoneStep == PoolInv /\ RowsInv /\ DoneInv /\ [Next]_vars => DoneInv'
<1> SUFFICES ASSUME PoolInv, RowsInv, DoneInv, [Next]_vars
             PROVE  DoneInv'
  OBVIOUS
<1>1. ASSUME NEW x \in Requests, UpsertRow(x)
      PROVE  DoneInv'
  <2>1. PoolTypeOK /\ AloneInv /\ locker \in [Tenants -> Conns \cup {None}]
    BY DEF PoolInv, RowsInv, TypeOK
  <2>2. /\ conn' = conn /\ pc' = [pc EXCEPT ![x] = "done"]
        /\ locker' = [locker EXCEPT ![Visible(x)] = conn[x]]
    BY <1>1 DEF UpsertRow, Execute, GoTo
  <2>3. ASSUME NEW t \in Tenants, NEW y \in Requests,
               locker'[t] # None, locker'[t] = conn[y]
        PROVE  pc'[y] = "done"
    <3>1. CASE t = Visible(x)
      BY <2>1, <2>2, <2>3, <3>1 DEF AloneInv, PoolTypeOK
    <3>2. CASE t # Visible(x)
      BY <2>1, <2>2, <2>3, <3>2 DEF DoneInv, PoolTypeOK
    <3> QED
      BY <3>1, <3>2
  <2> QED
    BY <2>2, <2>3 DEF DoneInv
<1>2. ASSUME \A t \in Tenants : locker'[t] \in {locker[t], None}
      PROVE  DoneInv'
  BY <1>2, UsesPool, PoolKeepsDone DEF RowsInv
<1> QED
  BY <1>1, <1>2, OnlyUpsertsLock

\* y has what x waits for: any connection, as none is free, or the lock of the row
\* that x upserts.
Blocks(y, x) ==
  \/ pc[x] = "wait" /\ (\A c \in Conns : ~Free(c)) /\ conn[y] # None
  \/ /\ pc[x] = "scoped" /\ op[x] = "put" /\ stage[x] = "row"
     /\ locker[Visible(x)] # None /\ locker[Visible(x)] = conn[y]

NoDeadlock ==
  ~\E S \in SUBSET Requests :
     S # {} /\ \A x \in S : \E y \in S \ {x} : Blocks(y, x)

\* With every connection lent and requests waiting for one row, nobody waits in a
\* cycle: who waits for a connection has none, and who has the lock of a row waits
\* for nothing (commit before resolve_logo, one transaction at a time).  For any
\* number of requests and of connections.
THEOREM NobodyDeadlocks == Spec => []NoDeadlock
<1>1. Init => DoneInv
  BY DEF Init, DoneInv
<1>2. ASSUME PoolInv, DoneInv
      PROVE  NoDeadlock
  <2> SUFFICES ASSUME NEW S \in SUBSET Requests, NEW x \in S,
                      \A v \in S : \E w \in S \ {v} : Blocks(w, v)
               PROVE  FALSE
    BY DEF NoDeadlock
  <2>1. PICK y \in S : Blocks(y, x)
    OBVIOUS
  <2>2. PICK z \in S : Blocks(z, y)
    OBVIOUS
  <2>3. PICK w \in S : Blocks(w, z)
    OBVIOUS
  <2>4. pc[y] = "scoped" /\ locker[Visible(y)] # None /\ locker[Visible(y)] = conn[z]
    <3>1. conn[y] # None
      BY <2>1 DEF Blocks
    <3>2. pc[y] # "wait"
      BY <1>2, <3>1 DEF PoolInv, HoldInv
    <3> QED
      BY <2>2, <3>2 DEF Blocks
  <2>5. Visible(y) \in Tenants
    BY <1>2, <2>4 DEF PoolInv, PoolTypeOK, OpenInv, Visible
  <2>6. pc[z] = "done"
    BY <1>2, <2>4, <2>5 DEF DoneInv
  <2> QED
    BY <2>3, <2>6 DEF Blocks
<1> QED
  BY <1>1, <1>2, DoneStep, Invariant, PTL DEF Spec

\* A lock that nobody is about to release by a commit is one whose connection the
\* pool recycles.
LocksEnd ==
  \A t \in Tenants : locker[t] # None =>
    /\ locker[t] \in open
    /\ \A x \in Requests : conn[x] = locker[t] =>
         pc[x] = "done" /\ op[x] = "put" /\ stage[x] = "row"

\* Nobody keeps the lock of a row while it does something else: the holder has its
\* COMMIT before it, or was dropped (a timeout, a disconnect), and then the
\* connection is recycled before it is lent again.
THEOREM LocksAreShort == Spec => []LocksEnd
<1>1. Init => DoneInv
  BY DEF Init, DoneInv
<1>2. RowsInv /\ DoneInv => LocksEnd
  BY DEF RowsInv, LockInv, DoneInv, LocksEnd
<1> QED
  BY <1>1, <1>2, DoneStep, Invariant, PTL DEF Spec
===============================================================================
