------------------------------- MODULE Assets -------------------------------
(***************************************************************************)
(* Files of one tenant (src/backend/src/assets, http/routes/assets.rs,     *)
(* storage): a row in the table assets and an object in an S3 store, which *)
(* share no transaction.  Clients PUT the bytes themselves, with a         *)
(* presigned URL that lives for PRESIGN_PUT_TTL.                           *)
(*                                                                         *)
(* A request makes several round-trips, each a step: to the database, in a *)
(* transaction of one statement over one row, or to the store.  It may end *)
(* between any two, and a call to the store that timed out may still take  *)
(* effect later.                                                           *)
(***************************************************************************)
EXTENDS Naturals, FiniteSets

CONSTANTS
  Assets,    \* assets that may be created (bound)
  Sizes,     \* of declared files and of uploaded bytes
  Requests,  \* slots for requests in flight at the same time (bound)
  None

ASSUME NoneAssumption == None \notin Assets \cup Sizes

VARIABLES
  status, size_bytes,  \* the rows
  object,              \* the size of the stored bytes, None without any
  url,                 \* what the client can do with its upload URL
  stray,               \* DELETE calls on their way to the store, given up on
  pc, req,             \* where each request is, the asset it is about
  \* History, for the properties:
  uploads,             \* PUTs of each asset; 2 stands for more
  removed,             \* assets of which a DELETE reached the store
  reuploaded,          \* ... and a PUT after it
  wanted               \* assets somebody asked to delete

rowVars     == <<status, size_bytes>>
storeVars   == <<object, stray>>
historyVars == <<uploads, removed, reuploaded, wanted>>
vars == <<rowVars, storeVars, url, pc, req, historyVars>>

Life == INSTANCE AssetLife

NoReq == [asset |-> None, size |-> None]

TypeOK ==
  /\ status \in [Assets -> {"absent", "pending", "ready", "deleted"}]
  /\ size_bytes \in [Assets -> Sizes \cup {None}]
  /\ \A a \in Assets : status[a] # "absent" => size_bytes[a] # None
  /\ object \in [Assets -> Sizes \cup {None}]
  /\ url \in [Assets -> {"unsent", "usable", "expired"}]
  /\ stray \in SUBSET Assets
  /\ pc \in [Requests -> {"idle", "insert", "reply", "head", "mark_ready",
                          "remove", "soft_delete"}]
  /\ req \in [Requests -> [asset : Assets \cup {None}, size : Sizes \cup {None}]]
  /\ \A x \in Requests : pc[x] # "idle" => req[x].asset # None
  /\ uploads \in [Assets -> 0 .. 2]
  /\ removed \in SUBSET Assets
  /\ reuploaded \in SUBSET Assets
  /\ wanted \in SUBSET Assets

Init ==
  /\ status = [a \in Assets |-> "absent"]
  /\ size_bytes = [a \in Assets |-> None]
  /\ object = [a \in Assets |-> None]
  /\ url = [a \in Assets |-> "unsent"]
  /\ stray = {}
  /\ pc = [x \in Requests |-> "idle"]
  /\ req = [x \in Requests |-> NoReq]
  /\ uploads = [a \in Assets |-> 0]
  /\ removed = {}
  /\ reuploaded = {}
  /\ wanted = {}

----------------------------------------------------------------------------
(* The life of a request.                                                  *)

\* Rows a query with status <> 'deleted' sees.
Visible(a) == status[a] \in {"pending", "ready"}

Begin(x, a, n, where) ==
  /\ pc[x] = "idle"
  /\ pc' = [pc EXCEPT ![x] = where]
  /\ req' = [req EXCEPT ![x] = [asset |-> a, size |-> n]]

GoTo(x, where) == pc' = [pc EXCEPT ![x] = where] /\ UNCHANGED req

Finish(x) ==
  /\ pc' = [pc EXCEPT ![x] = "idle"]
  /\ req' = [req EXCEPT ![x] = NoReq]

\* A fault, a timeout or a crash between two round-trips, or a lost answer.
Abort(x) ==
  /\ pc[x] # "idle"
  /\ Finish(x)
  /\ UNCHANGED <<rowVars, storeVars, url, historyVars>>

----------------------------------------------------------------------------
(* POST /assets: presign a PUT for a new id, then insert the row.          *)

Create(x, a, n) ==
  /\ status[a] = "absent"
  /\ \A y \in Requests : req[y].asset # a
  /\ Begin(x, a, n, "insert")
  /\ UNCHANGED <<rowVars, storeVars, url, historyVars>>

\* Fault: the declared size is not stored.
InsertWithoutSize(x) ==
  /\ pc[x] = "insert"
  /\ status' = [status EXCEPT ![req[x].asset] = "pending"]
  /\ GoTo(x, "reply")
  /\ UNCHANGED <<size_bytes, storeVars, url, historyVars>>

InsertPending(x) ==
  LET a == req[x].asset IN
  /\ pc[x] = "insert"
  /\ status' = [status EXCEPT ![a] = "pending"]
  /\ size_bytes' = [size_bytes EXCEPT ![a] = req[x].size]
  /\ GoTo(x, "reply")
  /\ UNCHANGED <<storeVars, url, historyVars>>

\* Fault: the URL is handed out before the row is inserted.
ReplyEarly(x) ==
  /\ pc[x] \in {"insert", "reply"}
  /\ url' = [url EXCEPT ![req[x].asset] = "usable"]
  /\ Finish(x)
  /\ UNCHANGED <<rowVars, storeVars, historyVars>>

\* The client has the URL only if it gets this answer.
Reply(x) ==
  /\ pc[x] = "reply"
  /\ url' = [url EXCEPT ![req[x].asset] = "usable"]
  /\ Finish(x)
  /\ UNCHANGED <<rowVars, storeVars, historyVars>>

\* The store takes any bytes: the declared size is not signed.
Upload(a, n) ==
  /\ url[a] = "usable"
  /\ object' = [object EXCEPT ![a] = n]
  /\ uploads' = [uploads EXCEPT ![a] = IF @ < 2 THEN @ + 1 ELSE @]
  /\ reuploaded' = reuploaded \cup ({a} \cap removed)
  /\ UNCHANGED <<rowVars, stray, url, pc, req, removed, wanted>>

Expire(a) ==
  /\ url[a] = "usable"
  /\ url' = [url EXCEPT ![a] = "expired"]
  /\ UNCHANGED <<rowVars, storeVars, pc, req, historyVars>>

----------------------------------------------------------------------------
(* POST /assets/{id}/complete: fetch, HEAD, mark_ready.                    *)

Complete(x, a) ==
  /\ Visible(a)
  /\ Begin(x, a, size_bytes[a], "head")
  /\ UNCHANGED <<rowVars, storeVars, url, historyVars>>

\* Fault: any object will do.
UploadedUnchecked(a, n) == object[a] # None

Uploaded(a, n) == object[a] = n

\* No object, or one of another size, ends the request.
Head(x) ==
  /\ pc[x] = "head"
  /\ \/ Uploaded(req[x].asset, req[x].size) /\ GoTo(x, "mark_ready")
     \/ ~Uploaded(req[x].asset, req[x].size) /\ Finish(x)
  /\ UNCHANGED <<rowVars, storeVars, url, historyVars>>

\* Fault: UPDATE by id alone.
MarkReadyUnguarded(x) ==
  /\ pc[x] = "mark_ready"
  /\ status' = [status EXCEPT ![req[x].asset] = "ready"]
  /\ Finish(x)
  /\ UNCHANGED <<size_bytes, storeVars, url, historyVars>>

MarkReady(x) ==
  LET a == req[x].asset IN
  /\ pc[x] = "mark_ready"
  /\ status' = [status EXCEPT ![a] = IF Visible(a) THEN "ready" ELSE @]
  /\ Finish(x)
  /\ UNCHANGED <<size_bytes, storeVars, url, historyVars>>

----------------------------------------------------------------------------
(* DELETE /assets/{id}: fetch, remove the bytes, soft_delete.              *)

\* Fault: the row first, then the bytes.
DeleteRowFirst(x, a) ==
  /\ Visible(a)
  /\ Begin(x, a, None, "remove")
  /\ wanted' = wanted \cup {a}
  /\ status' = [status EXCEPT ![a] = "deleted"]
  /\ UNCHANGED <<size_bytes, storeVars, url, uploads, removed, reuploaded>>

Delete(x, a) ==
  /\ Visible(a)
  /\ Begin(x, a, None, "remove")
  /\ wanted' = wanted \cup {a}
  /\ UNCHANGED <<rowVars, storeVars, url, uploads, removed, reuploaded>>

\* Fault: to delete an absent key is an error.
RemoveIfPresent(x) ==
  LET a == req[x].asset IN
  /\ pc[x] = "remove"
  /\ IF object[a] # None THEN GoTo(x, "soft_delete") ELSE Finish(x)
  /\ object' = [object EXCEPT ![a] = None]
  /\ removed' = removed \cup {a}
  /\ UNCHANGED <<rowVars, stray, url, uploads, reuploaded, wanted>>

\* store.delete; to delete an absent key succeeds.
Remove(x) ==
  LET a == req[x].asset IN
  /\ pc[x] = "remove"
  /\ object' = [object EXCEPT ![a] = None]
  /\ removed' = removed \cup {a}
  /\ GoTo(x, "soft_delete")
  /\ UNCHANGED <<rowVars, stray, url, uploads, reuploaded, wanted>>

\* STORAGE_OP_TIMEOUT ends the request, not the call.
RemoveTimesOut(x) ==
  /\ pc[x] = "remove"
  /\ stray' = stray \cup {req[x].asset}
  /\ Finish(x)
  /\ UNCHANGED <<rowVars, object, url, historyVars>>

StrayArrives(a) ==
  /\ a \in stray
  /\ stray' = stray \ {a}
  /\ object' = [object EXCEPT ![a] = None]
  /\ removed' = removed \cup {a}
  /\ UNCHANGED <<rowVars, url, pc, req, uploads, reuploaded, wanted>>

\* By id alone: a second deletion succeeds too.
SoftDelete(x) ==
  /\ pc[x] = "soft_delete"
  /\ status' = [status EXCEPT ![req[x].asset] = "deleted"]
  /\ Finish(x)
  /\ UNCHANGED <<size_bytes, storeVars, url, historyVars>>

----------------------------------------------------------------------------
Work(x) ==
  \/ InsertPending(x)
  \/ Reply(x)
  \/ Head(x)
  \/ MarkReady(x)
  \/ Remove(x)
  \/ SoftDelete(x)

Next ==
  \/ \E x \in Requests :
       \/ \E a \in Assets :
            \/ \E n \in Sizes : Create(x, a, n)
            \/ Complete(x, a)
            \/ Delete(x, a)
       \/ Work(x)
       \/ RemoveTimesOut(x)
       \/ Abort(x)
  \/ \E a \in Assets :
       \/ \E n \in Sizes : Upload(a, n)
       \/ Expire(a)
       \/ StrayArrives(a)

Spec == Init /\ [][Next]_vars

\* A client that asked for a deletion asks again as long as the row is there.
Repeat(a) == a \in wanted /\ \E x \in Requests : Delete(x, a)

\* Requests keep running, clients repeat their deletions, and neither
\* round-trip of a deletion fails every time it is tried.  Nothing is assumed of
\* uploads, completions and strays.
FairSpec ==
  /\ Spec
  /\ \A x \in Requests :
       WF_vars(Work(x)) /\ SF_vars(Remove(x)) /\ SF_vars(SoftDelete(x))
  /\ \A a \in Assets : SF_vars(Repeat(a))

----------------------------------------------------------------------------
(* Properties.                                                             *)

\* Every interleaving of creations, completions and deletions moves a row only as
\* AssetLife promises: a completion never brings back an asset that was deleted
\* after it fetched it (status <> 'deleted' in mark_ready), and a repeated
\* deletion changes nothing.
ImplementsLife == Life!Spec

\* No client can store, and the store does not have, bytes of an asset without a
\* row, wherever a creation failed (create: never "a usable URL for an unrecorded
\* object").
BytesAreRecorded ==
  \A a \in Assets :
    url[a] = "usable" \/ object[a] # None => status[a] # "absent"

\* The bytes of a deleted asset are gone, wherever the deletions of it failed,
\* unless the client used its URL again after a deletion (delete removes the
\* bytes first: a row that says deleted can no longer be deleted by the API).
DeletedLeavesNoBytes ==
  \A a \in Assets :
    status[a] = "deleted" /\ object[a] # None => a \in reuploaded

\* "HEAD-verified at completion": an asset that is ready has the bytes that were
\* declared, as long as the client used its URL once and no deletion of it
\* reached the store, whatever happened between the HEAD and mark_ready.
ReadyIsVerified ==
  \A a \in Assets :
    status[a] = "ready" /\ uploads[a] < 2 /\ a \notin removed =>
      object[a] = size_bytes[a]

\* A deletion that failed, with its bytes removed or not, succeeds when it is
\* repeated ("S3 DELETE is idempotent").
DeletionSucceeds ==
  \A a \in Assets : a \in wanted ~> status[a] = "deleted"
=============================================================================
