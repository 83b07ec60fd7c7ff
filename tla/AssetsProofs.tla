---------------------------- MODULE AssetsProofs ----------------------------
(***************************************************************************)
(* For any assets, sizes and concurrent requests, cut off anywhere: a      *)
(* deleted asset stays deleted and leaves no bytes, no bytes are without a *)
(* row, and a ready asset has the bytes that were declared.                *)
(***************************************************************************)
EXTENDS Assets, TLAPS

USE NoneAssumption

Request == [asset : Assets \cup {None}, size : Sizes \cup {None}]

\* Only its creation knows an asset without a row.
CreationInv ==
  \A x \in Requests :
    /\ pc[x] = "insert" =>
         /\ req[x].size # None
         /\ status[req[x].asset] = "absent"
         /\ \A y \in Requests \ {x} : req[y].asset # req[x].asset
    /\ pc[x] \notin {"idle", "insert"} => status[req[x].asset] # "absent"

\* Nothing has happened to the bytes of an asset without a row.
UnrecordedInv ==
  \A a \in Assets : status[a] = "absent" =>
    url[a] = "unsent" /\ object[a] = None /\ a \notin stray

\* The bytes an asset has after a removal were uploaded after one.
RemovalInv ==
  /\ \A a \in removed : object[a] # None => a \in reuploaded
  /\ \A a \in Assets : status[a] = "deleted" => a \in removed
  /\ \A x \in Requests : pc[x] = "soft_delete" => req[x].asset \in removed

\* What the HEAD of a completion saw is still there.
VerifiedInv ==
  /\ \A a \in Assets : uploads[a] = 0 => object[a] = None
  /\ \A x \in Requests :
       LET a == req[x].asset IN
       /\ pc[x] = "head" => req[x].size = size_bytes[a]
       /\ pc[x] = "mark_ready" /\ uploads[a] < 2 /\ a \notin removed =>
            object[a] = size_bytes[a]

IInv ==
  TypeOK /\ CreationInv /\ UnrecordedInv /\ RemovalInv /\ VerifiedInv /\ ReadyIsVerified

\* What a request does; the rest of Next is the client's and the store's.
Act(x) ==
  \/ \E a \in Assets : \/ \E n \in Sizes : Create(x, a, n)
                       \/ Complete(x, a)
                       \/ Delete(x, a)
  \/ Work(x)
  \/ RemoveTimesOut(x)
  \/ Abort(x)

LEMMA InvInit == Init => IInv
<1> SUFFICES ASSUME Init
             PROVE  IInv
  OBVIOUS
<1>1. TypeOK
  BY DEF Init, TypeOK, NoReq
<1>2. CreationInv /\ UnrecordedInv
  BY DEF Init, CreationInv, UnrecordedInv
<1>3. RemovalInv /\ VerifiedInv /\ ReadyIsVerified
  BY DEF Init, RemovalInv, VerifiedInv, ReadyIsVerified
<1> QED
  BY <1>1, <1>2, <1>3 DEF IInv

LEMMA CreateStep ==
  ASSUME IInv, NEW x \in Requests, NEW a \in Assets, NEW n \in Sizes, Create(x, a, n)
  PROVE  IInv'
<1> USE DEF Create, Begin, rowVars, storeVars, historyVars, TypeOK
<1>1. TypeOK'
  BY DEF IInv, CreationInv
<1>2. CreationInv'
  BY DEF IInv, CreationInv
<1>3. UnrecordedInv'
  BY DEF IInv, CreationInv, UnrecordedInv
<1>4. RemovalInv'
  BY DEF IInv, RemovalInv
<1>5. VerifiedInv'
  BY DEF IInv, CreationInv, VerifiedInv
<1>6. ReadyIsVerified'
  BY DEF IInv, VerifiedInv, ReadyIsVerified
<1> QED
  BY <1>1, <1>2, <1>3, <1>4, <1>5, <1>6 DEF IInv

LEMMA CompleteStep ==
  ASSUME IInv, NEW x \in Requests, NEW a \in Assets, Complete(x, a)
  PROVE  IInv'
<1> USE DEF Complete, Begin, Visible, rowVars, storeVars, historyVars, TypeOK
<1>1. TypeOK'
  BY DEF IInv, CreationInv
<1>2. CreationInv'
  BY DEF IInv, CreationInv
<1>3. UnrecordedInv'
  BY DEF IInv, CreationInv, UnrecordedInv
<1>4. RemovalInv'
  BY DEF IInv, RemovalInv
<1>5. VerifiedInv'
  BY DEF IInv, CreationInv, VerifiedInv
<1>6. ReadyIsVerified'
  BY DEF IInv, VerifiedInv, ReadyIsVerified
<1> QED
  BY <1>1, <1>2, <1>3, <1>4, <1>5, <1>6 DEF IInv

LEMMA DeleteStep ==
  ASSUME IInv, NEW x \in Requests, NEW a \in Assets, Delete(x, a)
  PROVE  IInv'
<1> USE DEF Delete, Begin, Visible, rowVars, storeVars, historyVars, TypeOK
<1>1. TypeOK'
  BY DEF IInv, CreationInv
<1>2. CreationInv'
  BY DEF IInv, CreationInv
<1>3. UnrecordedInv'
  BY DEF IInv, CreationInv, UnrecordedInv
<1>4. RemovalInv'
  BY DEF IInv, RemovalInv
<1>5. VerifiedInv'
  BY DEF IInv, CreationInv, VerifiedInv
<1>6. ReadyIsVerified'
  BY DEF IInv, VerifiedInv, ReadyIsVerified
<1> QED
  BY <1>1, <1>2, <1>3, <1>4, <1>5, <1>6 DEF IInv

LEMMA InsertStep ==
  ASSUME IInv, NEW x \in Requests, InsertPending(x)
  PROVE  IInv'
<1> USE DEF InsertPending, GoTo, rowVars, storeVars, historyVars, TypeOK
<1>1. TypeOK'
  BY DEF IInv, CreationInv
<1>2. CreationInv'
  BY DEF IInv, CreationInv
<1>3. UnrecordedInv'
  BY DEF IInv, CreationInv, UnrecordedInv
<1>4. RemovalInv'
  BY DEF IInv, RemovalInv
<1>5. VerifiedInv'
  BY DEF IInv, CreationInv, VerifiedInv
<1>6. ReadyIsVerified'
  BY DEF IInv, VerifiedInv, ReadyIsVerified
<1> QED
  BY <1>1, <1>2, <1>3, <1>4, <1>5, <1>6 DEF IInv

LEMMA ReplyStep ==
  ASSUME IInv, NEW x \in Requests, Reply(x)
  PROVE  IInv'
<1> USE DEF Reply, Finish, NoReq, rowVars, storeVars, historyVars, TypeOK
<1>1. TypeOK'
  BY DEF IInv, CreationInv
<1>2. CreationInv'
  BY DEF IInv, CreationInv
<1>3. UnrecordedInv'
  BY DEF IInv, CreationInv, UnrecordedInv
<1>4. RemovalInv'
  BY DEF IInv, RemovalInv
<1>5. VerifiedInv'
  BY DEF IInv, CreationInv, VerifiedInv
<1>6. ReadyIsVerified'
  BY DEF IInv, VerifiedInv, ReadyIsVerified
<1> QED
  BY <1>1, <1>2, <1>3, <1>4, <1>5, <1>6 DEF IInv

LEMMA MarkReadyStep ==
  ASSUME IInv, NEW x \in Requests, MarkReady(x)
  PROVE  IInv'
<1> USE DEF MarkReady, Visible, Finish, NoReq, rowVars, storeVars, historyVars, TypeOK
<1>1. TypeOK'
  BY DEF IInv, CreationInv
<1>2. CreationInv'
  BY DEF IInv, CreationInv
<1>3. UnrecordedInv'
  BY DEF IInv, CreationInv, UnrecordedInv
<1>4. RemovalInv'
  BY DEF IInv, RemovalInv
<1>5. VerifiedInv'
  BY DEF IInv, CreationInv, VerifiedInv
<1>6. ReadyIsVerified'
  BY DEF IInv, VerifiedInv, ReadyIsVerified
<1> QED
  BY <1>1, <1>2, <1>3, <1>4, <1>5, <1>6 DEF IInv

LEMMA RemoveStep ==
  ASSUME IInv, NEW x \in Requests, Remove(x)
  PROVE  IInv'
<1> USE DEF Remove, GoTo, rowVars, storeVars, historyVars, TypeOK
<1>1. TypeOK'
  BY DEF IInv, CreationInv
<1>2. CreationInv'
  BY DEF IInv, CreationInv
<1>3. UnrecordedInv'
  BY DEF IInv, CreationInv, UnrecordedInv
<1>4. RemovalInv'
  BY DEF IInv, RemovalInv
<1>5. VerifiedInv'
  BY DEF IInv, CreationInv, VerifiedInv
<1>6. ReadyIsVerified'
  BY DEF IInv, VerifiedInv, ReadyIsVerified
<1> QED
  BY <1>1, <1>2, <1>3, <1>4, <1>5, <1>6 DEF IInv

LEMMA SoftDeleteStep ==
  ASSUME IInv, NEW x \in Requests, SoftDelete(x)
  PROVE  IInv'
<1> USE DEF SoftDelete, Finish, NoReq, rowVars, storeVars, historyVars, TypeOK
<1>1. TypeOK'
  BY DEF IInv, CreationInv
<1>2. CreationInv'
  BY DEF IInv, CreationInv
<1>3. UnrecordedInv'
  BY DEF IInv, CreationInv, UnrecordedInv
<1>4. RemovalInv'
  BY DEF IInv, RemovalInv
<1>5. VerifiedInv'
  BY DEF IInv, CreationInv, VerifiedInv
<1>6. ReadyIsVerified'
  BY DEF IInv, VerifiedInv, ReadyIsVerified
<1> QED
  BY <1>1, <1>2, <1>3, <1>4, <1>5, <1>6 DEF IInv

LEMMA RemoveTimesOutStep ==
  ASSUME IInv, NEW x \in Requests, RemoveTimesOut(x)
  PROVE  IInv'
<1> USE DEF RemoveTimesOut, Finish, NoReq, rowVars, storeVars, historyVars, TypeOK
<1>1. TypeOK'
  BY DEF IInv, CreationInv
<1>2. CreationInv'
  BY DEF IInv, CreationInv
<1>3. UnrecordedInv'
  BY DEF IInv, CreationInv, UnrecordedInv
<1>4. RemovalInv'
  BY DEF IInv, RemovalInv
<1>5. VerifiedInv'
  BY DEF IInv, CreationInv, VerifiedInv
<1>6. ReadyIsVerified'
  BY DEF IInv, VerifiedInv, ReadyIsVerified
<1> QED
  BY <1>1, <1>2, <1>3, <1>4, <1>5, <1>6 DEF IInv

LEMMA AbortStep ==
  ASSUME IInv, NEW x \in Requests, Abort(x)
  PROVE  IInv'
<1> USE DEF Abort, Finish, NoReq, rowVars, storeVars, historyVars, TypeOK
<1>1. TypeOK'
  BY DEF IInv, CreationInv
<1>2. CreationInv'
  BY DEF IInv, CreationInv
<1>3. UnrecordedInv'
  BY DEF IInv, CreationInv, UnrecordedInv
<1>4. RemovalInv'
  BY DEF IInv, RemovalInv
<1>5. VerifiedInv'
  BY DEF IInv, CreationInv, VerifiedInv
<1>6. ReadyIsVerified'
  BY DEF IInv, VerifiedInv, ReadyIsVerified
<1> QED
  BY <1>1, <1>2, <1>3, <1>4, <1>5, <1>6 DEF IInv

LEMMA HeadStep ==
  ASSUME IInv, NEW x \in Requests, Head(x)
  PROVE  IInv'
<1>1. CASE Finish(x)
  BY <1>1, AbortStep DEF Head, Abort
<1>2. CASE ~Finish(x)
  <2> USE DEF Head, Uploaded, GoTo, rowVars, storeVars, historyVars, TypeOK
  <2>1. TypeOK'
    BY <1>2 DEF IInv, CreationInv
  <2>2. CreationInv'
    BY <1>2 DEF IInv, CreationInv
  <2>3. UnrecordedInv'
    BY DEF IInv, UnrecordedInv
  <2>4. RemovalInv'
    BY <1>2 DEF IInv, RemovalInv
  <2>5. VerifiedInv'
    BY <1>2 DEF IInv, CreationInv, VerifiedInv
  <2>6. ReadyIsVerified'
    BY DEF IInv, ReadyIsVerified
  <2> QED
    BY <2>1, <2>2, <2>3, <2>4, <2>5, <2>6 DEF IInv
<1> QED
  BY <1>1, <1>2

LEMMA UploadStep ==
  ASSUME IInv, NEW a \in Assets, NEW n \in Sizes, Upload(a, n)
  PROVE  IInv'
<1> USE DEF Upload, rowVars, storeVars, historyVars, TypeOK
<1>1. TypeOK'
  BY DEF IInv, CreationInv
<1>2. CreationInv'
  BY DEF IInv, CreationInv
<1>3. UnrecordedInv'
  BY DEF IInv, CreationInv, UnrecordedInv
<1>4. RemovalInv'
  BY DEF IInv, RemovalInv
<1>5. VerifiedInv'
  BY DEF IInv, CreationInv, VerifiedInv
<1>6. ReadyIsVerified'
  BY DEF IInv, VerifiedInv, ReadyIsVerified
<1> QED
  BY <1>1, <1>2, <1>3, <1>4, <1>5, <1>6 DEF IInv

LEMMA ExpireStep ==
  ASSUME IInv, NEW a \in Assets, Expire(a)
  PROVE  IInv'
<1> USE DEF Expire, rowVars, storeVars, historyVars, TypeOK
<1>1. TypeOK'
  BY DEF IInv, CreationInv
<1>2. CreationInv'
  BY DEF IInv, CreationInv
<1>3. UnrecordedInv'
  BY DEF IInv, CreationInv, UnrecordedInv
<1>4. RemovalInv'
  BY DEF IInv, RemovalInv
<1>5. VerifiedInv'
  BY DEF IInv, CreationInv, VerifiedInv
<1>6. ReadyIsVerified'
  BY DEF IInv, VerifiedInv, ReadyIsVerified
<1> QED
  BY <1>1, <1>2, <1>3, <1>4, <1>5, <1>6 DEF IInv

LEMMA StrayArrivesStep ==
  ASSUME IInv, NEW a \in Assets, StrayArrives(a)
  PROVE  IInv'
<1> USE DEF StrayArrives, rowVars, storeVars, historyVars, TypeOK
<1>1. TypeOK'
  BY DEF IInv, CreationInv
<1>2. CreationInv'
  BY DEF IInv, CreationInv
<1>3. UnrecordedInv'
  BY DEF IInv, CreationInv, UnrecordedInv
<1>4. RemovalInv'
  BY DEF IInv, RemovalInv
<1>5. VerifiedInv'
  BY DEF IInv, CreationInv, VerifiedInv
<1>6. ReadyIsVerified'
  BY DEF IInv, VerifiedInv, ReadyIsVerified
<1> QED
  BY <1>1, <1>2, <1>3, <1>4, <1>5, <1>6 DEF IInv
LEMMA ActStep ==
  ASSUME IInv, NEW x \in Requests, Act(x)
  PROVE  IInv'
<1>1. CASE \E a \in Assets : \/ \E n \in Sizes : Create(x, a, n)
                             \/ Complete(x, a)
                             \/ Delete(x, a)
  BY <1>1, CreateStep, CompleteStep, DeleteStep
<1>2. CASE Work(x)
  BY <1>2, InsertStep, ReplyStep, HeadStep, MarkReadyStep, RemoveStep, SoftDeleteStep
  DEF Work
<1> QED
  BY <1>1, <1>2, RemoveTimesOutStep, AbortStep DEF Act

LEMMA InvStep == IInv /\ [Next]_vars => IInv'
<1> SUFFICES ASSUME IInv, [Next]_vars
             PROVE  IInv'
  OBVIOUS
<1>1. ASSUME NEW x \in Requests, Act(x)
      PROVE  IInv'
  BY <1>1, ActStep
<1>2. ASSUME NEW a \in Assets,
             (\E n \in Sizes : Upload(a, n)) \/ Expire(a) \/ StrayArrives(a)
      PROVE  IInv'
  BY <1>2, UploadStep, ExpireStep, StrayArrivesStep
<1>3. CASE UNCHANGED vars
  BY <1>3 DEF vars, rowVars, storeVars, historyVars, IInv, TypeOK, CreationInv,
              UnrecordedInv, RemovalInv, VerifiedInv, ReadyIsVerified
<1> QED
  BY <1>1, <1>2, <1>3 DEF Next, Act

LEMMA Invariant == Spec => []IInv
BY InvInit, InvStep, PTL DEF Spec

----------------------------------------------------------------------------
(* What follows from the invariant.                                        *)

\* Rows, objects, URLs and requests keep their types.
THEOREM TypeCorrect == Spec => []TypeOK
<1>1. IInv => TypeOK
  BY DEF IInv
<1> QED
  BY <1>1, Invariant, PTL

\* A creation that fails after the URL is signed leaves neither bytes nor a way
\* to store them: nobody has the URL of an asset without a row.
THEOREM Recorded == Spec => []BytesAreRecorded
<1>1. IInv => BytesAreRecorded
  BY DEF IInv, UnrecordedInv, BytesAreRecorded
<1> QED
  BY <1>1, Invariant, PTL

\* However often a deletion failed between the store and the row, the row says
\* deleted only when the bytes are gone, or came after a removal.
THEOREM NoBytesLeft == Spec => []DeletedLeavesNoBytes
<1>1. IInv => DeletedLeavesNoBytes
  BY DEF IInv, RemovalInv, DeletedLeavesNoBytes
<1> QED
  BY <1>1, Invariant, PTL

\* A ready asset has its declared bytes, in the window between the HEAD and
\* mark_ready too.
THEOREM Verified == Spec => []ReadyIsVerified
<1>1. IInv => ReadyIsVerified
  BY DEF IInv
<1> QED
  BY <1>1, Invariant, PTL

LEMMA LifeStep ==
  ASSUME IInv, [Next]_vars
  PROVE  [Life!Next]_status
<1>1. ASSUME NEW x \in Requests, pc[x] # "idle"
      PROVE  req[x].asset \in Assets
  BY <1>1 DEF IInv, TypeOK
<1>2. ASSUME NEW x \in Requests, InsertPending(x)
      PROVE  Life!Record(req[x].asset) /\ req[x].asset \in Assets
  <2>1. status[req[x].asset] = "absent"
    BY <1>2 DEF IInv, CreationInv, InsertPending
  <2> QED
    BY <1>1, <1>2, <2>1 DEF InsertPending, Life!Record
<1>3. ASSUME NEW x \in Requests, MarkReady(x)
      PROVE  \/ Life!Confirm(req[x].asset) /\ req[x].asset \in Assets
             \/ UNCHANGED status
  <2>1. req[x].asset \in Assets /\ status \in [Assets -> {"absent", "pending", "ready", "deleted"}]
    BY <1>1, <1>3 DEF MarkReady, IInv, TypeOK
  <2>2. CASE status[req[x].asset] = "pending"
    BY <1>3, <2>1, <2>2 DEF MarkReady, Visible, Life!Confirm
  <2>3. CASE status[req[x].asset] # "pending"
    BY <1>3, <2>1, <2>3 DEF MarkReady, Visible
  <2> QED
    BY <2>2, <2>3
<1>4. ASSUME NEW x \in Requests, SoftDelete(x)
      PROVE  \/ Life!Discard(req[x].asset) /\ req[x].asset \in Assets
             \/ UNCHANGED status
  <2>1. /\ req[x].asset \in Assets
        /\ status \in [Assets -> {"absent", "pending", "ready", "deleted"}]
        /\ status[req[x].asset] # "absent"
    BY <1>1, <1>4 DEF SoftDelete, IInv, TypeOK, CreationInv
  <2> QED
    BY <1>4, <2>1 DEF SoftDelete, Life!Discard
<1>5. UNCHANGED status \/ \E x \in Requests :
        InsertPending(x) \/ MarkReady(x) \/ SoftDelete(x)
  BY DEF rowVars, Next, Work, vars, Create, Complete, Delete, Reply, Head, Remove,
         RemoveTimesOut, Abort, Upload, Expire, StrayArrives
<1> QED
  BY <1>2, <1>3, <1>4, <1>5 DEF Life!Next

\* Any completions and deletions of an asset, cut off anywhere, move its row
\* through the life that AssetLife promises.
THEOREM ImplementsTheLife == Spec => ImplementsLife
<1>1. Init => Life!Init
  BY DEF Init, Life!Init
<1>2. IInv /\ [Next]_vars => [Life!Next]_status
  BY LifeStep
<1> QED
  BY <1>1, <1>2, Invariant, InvInit, InvStep, PTL DEF Spec, ImplementsLife, Life!Spec
=============================================================================
