----------------------------- MODULE CrmProofs -----------------------------
(***************************************************************************)
(* For every set of customers, contacts, columns and concurrent requests:  *)
(* the transactions of Crm implement CustomerBook, codes have no gap, no   *)
(* active contact has an archived customer, archived rows are frozen,      *)
(* patches compose, no requests wait for one another in a cycle, and each  *)
(* has boundedly many steps left.                                          *)
(***************************************************************************)
EXTENDS Crm, FiniteSetTheorems, TLAPS

USE TablesAssumption, OptionalAssumption, NoneAssumption

Request == [op : Ops, row : Rows \cup {None}, fields : Data]

----------------------------------------------------------------------------
(* Typing.                                                                 *)

\* What a request is, where.
Fits(r, where) ==
  /\ where = "idle" => r.op = "none"
  /\ where = "allocate" => r.op = "create"
  /\ where = "share" => r.op = "add"
  /\ where = "lock" => r.op \in {"edit", "archive"}
  /\ where \in {"scan", "cascade"} => r.op = "archive" /\ r.row \in Customers
  /\ where = "commit" => r.op # "none" /\ (r.op = "archive" => r.row \in Contacts)
  /\ r.op \in {"create", "add"} => r.fields["name"] # None
  /\ r.op = "add" => r.row \in Customers
  /\ r.op \in {"edit", "archive"} => r.row \in Rows

FitsInv ==
  \A x \in Requests :
    /\ Fits(req[x], pc[x])
    /\ pc[x] = "commit" /\ req[x].op = "edit" => new[x]["name"] # None
    /\ pc[x] # "cascade" => pending[x] = {} /\ updated[x] = {} /\ skipped[x] = {}
    /\ req[x].op \in {"edit", "archive"} => status[req[x].row] # "absent"
    /\ \A k \in pending[x] \cup updated[x] : status[k] # "absent"

TypeInv == TypeOK /\ FitsInv

LEMMA DataType ==
  /\ "name" \in Fields
  /\ NoData \in Data
  /\ NoReq \in Request
  /\ Fits(NoReq, "idle")
BY DEF Fields, NoData, Data, NoReq, Ask, Request, Ops, Fits, Rows

LEMMA TypeInit == Init => TypeInv
<1> SUFFICES ASSUME Init
             PROVE  TypeOK /\ FitsInv
  BY DEF TypeInv
<1>1. TypeOK
  BY DataType DEF Init, TypeOK, Request, Rows
<1>2. FitsInv
  BY DataType DEF Init, FitsInv, NoReq, Ask
<1> QED
  BY <1>1, <1>2

LEMMA FinishType ==
  ASSUME TypeInv, NEW x \in Requests, Finish(x),
         next_seq' \in Nat, code' \in [Customers -> Nat],
         status' \in [Rows -> {"absent", "active", "archived"}],
         customer_id' \in [Contacts -> Customers \cup {None}],
         data' \in [Rows -> Data],
         \A r \in Rows : status'[r] # "absent" => data'[r]["name"] # None,
         \A r \in Rows : status[r] # "absent" => status'[r] # "absent"
  PROVE  TypeInv'
<1>1. TypeOK'
  BY DataType DEF TypeInv, TypeOK, Finish, Request
<1>2. FitsInv'
  BY DataType DEF TypeInv, TypeOK, FitsInv, Fits, Finish, NoReq, Ask, Rows
<1> QED
  BY <1>1, <1>2 DEF TypeInv

\* An arriving request takes an idle slot.
Arrived(x) ==
  \E r \in Request, where \in {"allocate", "share", "lock"} :
    /\ Begin(x, r, where)
    /\ Fits(r, where)
    /\ r.op \in {"edit", "archive"} => status[r.row] # "absent"

LEMMA ArriveBegins ==
  ASSUME NEW x \in Requests, Arrive(x)
  PROVE  Arrived(x)
<1> USE DEF Arrived, Request, Ops, Fits, Ask, Rows
<1>1. ASSUME NEW d \in Data, Create(x, d)
      PROVE  Arrived(x)
  BY <1>1 DEF Create
<1>2. ASSUME NEW c \in Customers, NEW d \in Data, AddContact(x, c, d)
      PROVE  Arrived(x)
  BY <1>2 DEF AddContact
<1>3. ASSUME NEW r \in Rows, NEW d \in Data, Edit(x, r, d)
      PROVE  Arrived(x)
  BY <1>3 DEF Edit
<1>4. ASSUME NEW r \in Rows, Archive(x, r)
      PROVE  Arrived(x)
  BY <1>4, DataType DEF Archive
<1> QED
  BY <1>1, <1>2, <1>3, <1>4 DEF Arrive

LEMMA ArriveType ==
  ASSUME TypeInv, NEW x \in Requests, Arrived(x)
  PROVE  TypeInv'
<1>1. PICK r \in Request, where \in {"allocate", "share", "lock"} :
        /\ Begin(x, r, where)
        /\ Fits(r, where)
        /\ r.op \in {"edit", "archive"} => status[r.row] # "absent"
  BY DEF Arrived
<1> USE DEF Begin, tableVars, cascadeVars
<1>2. TypeOK'
  BY <1>1 DEF TypeInv, TypeOK, Request
<1>3. FitsInv'
  BY <1>1 DEF TypeInv, TypeOK, FitsInv
<1> QED
  BY <1>2, <1>3 DEF TypeInv

LEMMA CoalesceType ==
  ASSUME NEW d \in Data, NEW old \in Data, old["name"] # None
  PROVE  Coalesce(d, old) \in Data /\ Coalesce(d, old)["name"] # None
BY DEF Coalesce, Data, Fields

LEMMA StepType ==
  ASSUME TypeInv, NEW x \in Requests, Step(x)
  PROVE  TypeInv'
<1>0. /\ TypeOK /\ FitsInv
      /\ req[x] \in Request /\ req[x].fields \in Data /\ new[x] \in Data
      /\ seq[x] \in Nat
      /\ Fits(req[x], pc[x])
  BY DEF TypeInv, TypeOK, FitsInv, Request
<1> USE DEF tableVars, cascadeVars
<1>1. CASE Allocate(x)
  <2>1. TypeOK'
    BY <1>0, <1>1 DEF Allocate, TypeOK
  <2>2. FitsInv'
    BY <1>0, <1>1 DEF Allocate, TypeOK, FitsInv, Fits
  <2> QED
    BY <2>1, <2>2 DEF TypeInv
<1>2. CASE CommitCreate(x)
  BY <1>0, <1>2, FinishType DEF CommitCreate, TypeOK, Fits, Rows
<1>3. CASE LockActiveCustomer(x)
  <2>1. CASE Finish(x)
    BY <1>0, <1>3, <2>1, FinishType DEF LockActiveCustomer, TypeOK
  <2>2. CASE ~Finish(x)
    <3>1. TypeOK'
      BY <1>0, <1>3, <2>2 DEF LockActiveCustomer, TypeOK
    <3>2. FitsInv'
      BY <1>0, <1>3, <2>2 DEF LockActiveCustomer, TypeOK, FitsInv, Fits
    <3> QED
      BY <3>1, <3>2 DEF TypeInv
  <2> QED
    BY <2>1, <2>2
<1>4. CASE CommitAdd(x)
  <2>1. /\ req[x].row \in Customers /\ req[x].fields["name"] # None
        /\ Finish(x) /\ UNCHANGED <<next_seq, code>>
    BY <1>0, <1>4 DEF CommitAdd, Fits
  <2>2. PICK k \in Contacts :
        /\ status' = [status EXCEPT ![k] = "active"]
        /\ customer_id' = [customer_id EXCEPT ![k] = req[x].row]
        /\ data' = [data EXCEPT ![k] = req[x].fields]
    BY <1>4 DEF CommitAdd
  <2>3. /\ next_seq' \in Nat /\ code' \in [Customers -> Nat]
        /\ status' \in [Rows -> {"absent", "active", "archived"}]
        /\ customer_id' \in [Contacts -> Customers \cup {None}]
        /\ data' \in [Rows -> Data]
    BY <1>0, <2>1, <2>2 DEF TypeOK
  <2>4. \A r \in Rows : status'[r] # "absent" => data'[r]["name"] # None
    BY <1>0, <2>1, <2>2 DEF TypeOK
  <2>5. \A r \in Rows : status[r] # "absent" => status'[r] # "absent"
    BY <1>0, <2>2 DEF TypeOK
  <2> QED
    BY <2>1, <2>3, <2>4, <2>5, FinishType
<1>5. CASE LockRow(x)
  <2>1. CASE Finish(x)
    BY <1>0, <1>5, <2>1, FinishType DEF LockRow, TypeOK
  <2>2. CASE ~Finish(x)
    <3>1. /\ req[x].row \in Rows
          /\ status[req[x].row] = "active"
          /\ req[x].op \in {"edit", "archive"}
      BY <1>0, <1>5, <2>2 DEF LockRow, StillActive, Fits
    <3>2. DEFINE n == Coalesce(req[x].fields, data[req[x].row])
    <3>3. n \in Data /\ n["name"] # None
      BY <1>0, <3>1, CoalesceType DEF TypeOK
    <3>4. /\ new' = [new EXCEPT ![x] = n]
          /\ pc' = [pc EXCEPT ![x] =
                      IF req[x].op = "archive" /\ req[x].row \in Customers
                      THEN "scan" ELSE "commit"]
          /\ UNCHANGED <<tableVars, req, seq, cascadeVars>>
          /\ pc[x] = "lock"
      BY <1>5, <2>2 DEF LockRow
    <3> HIDE DEF n
    <3>5. TypeOK'
      BY <1>0, <3>3, <3>4 DEF TypeOK
    <3>6. FitsInv'
      BY <1>0, <3>1, <3>3, <3>4 DEF TypeOK, FitsInv, Fits, Rows
    <3> QED
      BY <3>5, <3>6 DEF TypeInv
  <2> QED
    BY <2>1, <2>2
<1>6. CASE CommitEdit(x)
  <2>1. new[x]["name"] # None /\ req[x].row \in Rows
    BY <1>0, <1>6 DEF CommitEdit, FitsInv, Fits
  <2> QED
    BY <1>0, <1>6, <2>1, FinishType DEF CommitEdit, TypeOK
<1>7. CASE Scan(x)
  <2>1. TypeOK'
    BY <1>0, <1>7 DEF Scan, TypeOK
  <2>2. FitsInv'
    BY <1>0, <1>7 DEF Scan, StillActive, TypeOK, FitsInv, Fits
  <2> QED
    BY <2>1, <2>2 DEF TypeInv
<1>8. ASSUME NEW k \in Contacts, ArchiveRow(x, k)
      PROVE  TypeInv'
  <2>1. TypeOK'
    <3>1. updated' \in [Requests -> SUBSET Contacts]
      BY <1>0, <1>8 DEF ArchiveRow, TypeOK
    <3>2. skipped' \in [Requests -> SUBSET Contacts]
      BY <1>0, <1>8 DEF ArchiveRow, TypeOK
    <3>3. pending' \in [Requests -> SUBSET Contacts]
      BY <1>0, <1>8 DEF ArchiveRow, TypeOK
    <3> QED
      BY <1>0, <1>8, <3>1, <3>2, <3>3 DEF ArchiveRow, TypeOK
  <2>2. FitsInv'
    BY <1>0, <1>8 DEF ArchiveRow, TypeOK, FitsInv
  <2> QED
    BY <2>1, <2>2 DEF TypeInv
<1>9. CASE CommitArchive(x)
  <2>1. \A r \in {req[x].row} \cup updated[x] : r \in Rows /\ status[r] # "absent"
    BY <1>0, <1>9 DEF CommitArchive, TypeOK, FitsInv, Fits, Rows
  <2> QED
    BY <1>0, <1>9, <2>1, FinishType DEF CommitArchive, TypeOK
<1> QED
  BY <1>1, <1>2, <1>3, <1>4, <1>5, <1>6, <1>7, <1>8, <1>9 DEF Step

LEMMA TypeStep == TypeInv /\ [Next]_vars => TypeInv'
<1> SUFFICES ASSUME TypeInv, [Next]_vars
             PROVE  TypeInv'
  OBVIOUS
<1>1. ASSUME NEW x \in Requests, Arrive(x)
      PROVE  TypeInv'
  BY <1>1, ArriveBegins, ArriveType
<1>2. ASSUME NEW x \in Requests, Step(x)
      PROVE  TypeInv'
  BY <1>2, StepType
<1>3. ASSUME NEW x \in Requests, Abort(x)
      PROVE  TypeInv'
  BY <1>3, FinishType DEF Abort, TypeInv, TypeOK, tableVars
<1>4. CASE UNCHANGED vars
  BY <1>4 DEF vars, tableVars, cascadeVars, TypeInv, TypeOK, FitsInv
<1> QED
  BY <1>1, <1>2, <1>3, <1>4 DEF Next

\* Every row and request keeps its type, and a row never loses its name: an
\* edit merges a patch into a row that has one (patch_customer, patch_contact).
THEOREM TypeCorrect == Spec => []TypeOK
<1>1. TypeInv => TypeOK
  BY DEF TypeInv
<1> QED
  BY <1>1, TypeInit, TypeStep, PTL DEF Spec

----------------------------------------------------------------------------
(* Locks.                                                                  *)

\* What a request knows of the rows it has locked.
HeldBy(x) ==
  /\ HoldsSeq(x) => seq[x] = next_seq + 1
  /\ \A r \in Rows : Shares(x, r) => status[r] = "active"
  /\ req[x].op \in {"edit", "archive"} /\ pc[x] \in {"scan", "cascade", "commit"} =>
       status[req[x].row] = "active"
  /\ req[x].op = "edit" /\ pc[x] = "commit" =>
       new[x] = Coalesce(req[x].fields, data[req[x].row])

\* The cascade of an archiving has locked, or has still to lock, every active
\* contact of the customer.
Cascade(x) ==
  /\ \A k \in updated[x] : status[k] = "active"
  /\ \A k \in skipped[x] : status[k] = "archived"
  /\ \A k \in pending[x] \cup updated[x] \cup skipped[x] :
       customer_id[k] = req[x].row
  /\ pc[x] = "cascade" =>
       \A k \in Contacts : status[k] = "active" /\ customer_id[k] = req[x].row =>
         k \in pending[x] \cup updated[x]

HeldInv == \A x \in Requests : HeldBy(x) /\ Cascade(x)

\* No two requests hold locks that exclude each other.
Apart(x, y) ==
  /\ ~(HoldsSeq(x) /\ HoldsSeq(y))
  /\ \A r \in Rows : Holds(x, r) => ~Holds(y, r) /\ ~Shares(y, r)

ApartInv == \A x, y \in Requests : x # y => Apart(x, y)

\* A contact has a customer from the moment it exists.
OwnersInv == \A k \in Contacts : status[k] = "absent" <=> customer_id[k] = None

LocksInv == HeldInv /\ ApartInv /\ OwnersInv

IInv == TypeInv /\ LocksInv

\* What a step of one request leaves alone of another one.
Same(y) ==
  /\ pc'[y] = pc[y] /\ req'[y] = req[y] /\ seq'[y] = seq[y] /\ new'[y] = new[y]
  /\ pending'[y] = pending[y] /\ updated'[y] = updated[y] /\ skipped'[y] = skipped[y]

\* A step that writes no table keeps what everybody knows of the rows.
LEMMA QuietLocks ==
  ASSUME IInv, NEW x \in Requests,
         UNCHANGED tableVars,
         \A y \in Requests \ {x} : Same(y),
         HeldBy(x)', Cascade(x)',
         \A y \in Requests \ {x} : Apart(x, y)' /\ Apart(y, x)'
  PROVE  LocksInv'
<1>1. HeldInv'
  BY DEF IInv, LocksInv, HeldInv, HeldBy, Cascade, Same, tableVars, HoldsSeq, Shares
<1>2. ApartInv'
  BY DEF IInv, LocksInv, ApartInv, Apart, Same, HoldsSeq, Holds, Shares
<1>3. OwnersInv'
  BY DEF IInv, LocksInv, OwnersInv, tableVars
<1> QED
  BY <1>1, <1>2, <1>3 DEF LocksInv

\* A request that holds nothing.
Unheld(x) ==
  /\ pc[x] \in {"idle", "allocate", "share", "lock"}
  /\ pending[x] = {} /\ updated[x] = {} /\ skipped[x] = {}

LEMMA UnheldLocks ==
  ASSUME NEW x \in Requests, Unheld(x)'
  PROVE  /\ HeldBy(x)' /\ Cascade(x)'
         /\ \A y \in Requests : Apart(x, y)' /\ Apart(y, x)'
BY DEF Unheld, HeldBy, Cascade, Apart, Holds, Shares, HoldsSeq

LEMMA FinishUnheld ==
  ASSUME TypeOK, NEW x \in Requests, Finish(x)
  PROVE  Unheld(x)' /\ \A y \in Requests \ {x} : Same(y)
BY DEF TypeOK, Finish, Unheld, Same

LEMMA QuietFinish ==
  ASSUME IInv, NEW x \in Requests, Finish(x), UNCHANGED tableVars
  PROVE  LocksInv'
<1>1. Unheld(x)' /\ \A y \in Requests \ {x} : Same(y)
  BY FinishUnheld DEF IInv, TypeInv
<1> QED
  BY <1>1, UnheldLocks, QuietLocks

LEMMA ArriveLocks ==
  ASSUME IInv, NEW x \in Requests, Arrived(x)
  PROVE  LocksInv' /\ UNCHANGED tableVars
<1>1. PICK r \in Request, where \in {"allocate", "share", "lock"} : Begin(x, r, where)
  BY DEF Arrived
<1>2. UNCHANGED tableVars /\ \A y \in Requests \ {x} : Same(y)
  BY <1>1 DEF IInv, TypeInv, TypeOK, Begin, Same, cascadeVars
<1>3. Unheld(x)'
  BY <1>1 DEF IInv, TypeInv, TypeOK, FitsInv, Begin, Unheld, cascadeVars
<1> QED
  BY <1>2, <1>3, UnheldLocks, QuietLocks

\* What a commit of x may do to the tables: it changes rows that x holds, and
\* adds rows; a contact it adds is under a customer x has locked.
Commits(x) ==
  /\ Finish(x)
  /\ next_seq' # next_seq => HoldsSeq(x)
  /\ \A r \in Rows : \/ status'[r] = status[r] /\ data'[r] = data[r]
                     \/ status[r] = "absent"
                     \/ status[r] = "active" /\ Holds(x, r)
  /\ \A k \in Contacts :
       IF status[k] = "absent"
       THEN status'[k] # "absent" =>
              customer_id'[k] \in Customers /\ Shares(x, customer_id'[k])
       ELSE customer_id'[k] = customer_id[k] /\ status'[k] # "absent"
  /\ \A k \in Contacts : status'[k] = "absent" => customer_id'[k] = customer_id[k]

LEMMA CommitLocks ==
  ASSUME IInv, NEW x \in Requests, Commits(x)
  PROVE  LocksInv'
<1>1. /\ TypeOK /\ FitsInv /\ HeldInv /\ ApartInv /\ OwnersInv
      /\ Unheld(x)' /\ \A y \in Requests \ {x} : Same(y)
  BY FinishUnheld DEF IInv, TypeInv, LocksInv, Commits
<1>2. ASSUME NEW y \in Requests \ {x}
      PROVE  HeldBy(y)' /\ Cascade(y)'
  <2>1. /\ Same(y) /\ HeldBy(y) /\ Cascade(y) /\ Apart(x, y) /\ Apart(y, x)
        /\ Fits(req[y], pc[y])
        /\ \A k \in pending[y] \cup updated[y] : status[k] # "absent"
        /\ pending[y] \cup updated[y] \cup skipped[y] \subseteq Contacts
    BY <1>1, <1>2 DEF HeldInv, ApartInv, FitsInv, TypeOK
  <2>2. \A r \in Rows : Holds(y, r) \/ Shares(y, r) => ~Holds(x, r)
    BY <2>1 DEF Apart
  <2>3. \A r \in Rows : Holds(y, r) \/ Shares(y, r) =>
          \/ status'[r] = status[r] /\ data'[r] = data[r]
          \/ status[r] = "absent"
    BY <2>2 DEF Commits
  <2>4. HeldBy(y)'
    <3>1. HoldsSeq(y) => next_seq' = next_seq
      BY <2>1 DEF Commits, Apart
    <3>2. req[y].op \in {"edit", "archive"} /\ pc[y] \in {"scan", "cascade", "commit"} =>
            req[y].row \in Rows /\ Holds(y, req[y].row)
      BY <2>1 DEF Fits, Holds
    <3>3. \A r \in Rows : Shares(y, r)' = Shares(y, r)
      BY <2>1 DEF Same, Shares
    <3> QED
      BY <2>1, <2>3, <3>1, <3>2, <3>3 DEF HeldBy, Same, HoldsSeq
  <2>5. \A k \in updated[y] \cup skipped[y] : k \in Contacts /\ status'[k] = status[k]
    BY <2>1, <2>3 DEF Holds, Rows, Cascade
  <2>6. \A k \in pending[y] \cup updated[y] \cup skipped[y] :
          customer_id'[k] = customer_id[k]
    BY <2>1 DEF Commits, Cascade
  <2>7. ASSUME pc[y] = "cascade", NEW k \in Contacts,
               status'[k] = "active", customer_id'[k] = req[y].row
        PROVE  k \in pending[y] \cup updated[y]
    <3>1. req[y].row \in Customers /\ Holds(y, req[y].row)
      BY <2>1, <2>7 DEF Fits, Holds
    <3>2. ~Shares(x, req[y].row)
      BY <2>1, <3>1 DEF Apart, Rows
    <3>3. status[k] # "absent"
      BY <2>7, <3>2 DEF Commits
    <3>4. status[k] = "active" /\ customer_id[k] = req[y].row
      BY <2>7, <3>3 DEF Commits, Rows
    <3> QED
      BY <2>1, <2>7, <3>4 DEF Cascade
  <2>8. Cascade(y)'
    BY <2>1, <2>5, <2>6, <2>7 DEF Cascade, Same
  <2> QED
    BY <2>4, <2>8
<1>3. HeldInv'
  BY <1>1, <1>2, UnheldLocks DEF HeldInv
<1>4. ApartInv'
  <2>1. ASSUME NEW y \in Requests \ {x}, NEW z \in Requests \ {x}, y # z
        PROVE  Apart(y, z)'
    BY <1>1, <2>1 DEF ApartInv, Apart, Same, HoldsSeq, Holds, Shares
  <2> QED
    BY <1>1, <2>1, UnheldLocks DEF ApartInv
<1>5. OwnersInv'
  BY <1>1 DEF OwnersInv, Commits, Rows
<1> QED
  BY <1>3, <1>4, <1>5 DEF LocksInv

LEMMA AllocateLocks ==
  ASSUME IInv, NEW x \in Requests, Allocate(x)
  PROVE  LocksInv'
<1>1. /\ TypeOK /\ HeldInv /\ ApartInv
      /\ req[x].op = "create"
      /\ pending[x] = {} /\ updated[x] = {} /\ skipped[x] = {}
  BY DEF IInv, TypeInv, LocksInv, FitsInv, Fits, Allocate
<1>2. UNCHANGED tableVars /\ \A y \in Requests \ {x} : Same(y)
  BY <1>1 DEF TypeOK, Allocate, Same, cascadeVars
<1>3. HeldBy(x)' /\ Cascade(x)'
  BY <1>1, <1>2 DEF TypeOK, Allocate, HeldBy, Cascade, Shares, tableVars, cascadeVars
<1>4. ASSUME NEW y \in Requests \ {x}
      PROVE  Apart(x, y)' /\ Apart(y, x)'
  <2>1. ~HoldsSeq(y)'
    BY <1>2 DEF Allocate, Others, Same, HoldsSeq
  <2>2. \A r \in Rows : ~Holds(x, r)' /\ ~Shares(x, r)'
    BY <1>1 DEF Allocate, Holds, Shares, cascadeVars
  <2> QED
    BY <2>1, <2>2 DEF Apart
<1> QED
  BY <1>2, <1>3, <1>4, QuietLocks

LEMMA ShareLocks ==
  ASSUME IInv, NEW x \in Requests, LockActiveCustomer(x)
  PROVE  LocksInv'
<1>1. CASE Finish(x)
  BY <1>1, QuietFinish DEF LockActiveCustomer
<1>2. CASE ~Finish(x)
  <2>1. PICK c \in Customers :
        /\ TypeOK
        /\ req[x].op = "add" /\ req[x].row = c
        /\ pending[x] = {} /\ updated[x] = {} /\ skipped[x] = {}
        /\ pc[x] = "share" /\ status[c] = "active"
        /\ pc' = [pc EXCEPT ![x] = "commit"]
        /\ UNCHANGED <<tableVars, req, seq, new, cascadeVars>>
        /\ Shareable(x, c)
    BY <1>2 DEF IInv, TypeInv, FitsInv, Fits, LockActiveCustomer
  <2>2. \A y \in Requests \ {x} : Same(y)
    BY <2>1 DEF TypeOK, Same, cascadeVars
  <2>3. HeldBy(x)' /\ Cascade(x)'
    BY <2>1 DEF TypeOK, HeldBy, Cascade, Shares, HoldsSeq, tableVars, cascadeVars
  <2>4. ASSUME NEW y \in Requests \ {x}
        PROVE  Apart(x, y)' /\ Apart(y, x)'
    <3>1. \A r \in Rows : ~Holds(x, r)' /\ (Shares(x, r)' => r = c)
      BY <2>1 DEF Holds, Shares, cascadeVars
    <3>2. ~Holds(y, c)'
      BY <2>1, <2>2 DEF Shareable, Others, Holds, Same
    <3>3. ~HoldsSeq(x)'
      BY <2>1 DEF HoldsSeq
    <3> QED
      BY <3>1, <3>2, <3>3 DEF Apart
  <2> QED
    BY <2>1, <2>2, <2>3, <2>4, QuietLocks
<1> QED
  BY <1>1, <1>2

LEMMA RowLocks ==
  ASSUME IInv, NEW x \in Requests, LockRow(x)
  PROVE  LocksInv'
<1>1. CASE Finish(x)
  BY <1>1, QuietFinish DEF LockRow
<1>2. CASE ~Finish(x)
  <2>1. PICK r \in Rows :
        /\ TypeOK
        /\ req[x].op \in {"edit", "archive"} /\ req[x].row = r
        /\ pending[x] = {} /\ updated[x] = {} /\ skipped[x] = {}
        /\ pc[x] = "lock" /\ status[r] = "active"
        /\ new'[x] = Coalesce(req[x].fields, data[r])
        /\ \A y \in Requests \ {x} : new'[y] = new[y]
        /\ pc'[x] \in {"scan", "commit"}
        /\ \A y \in Requests \ {x} : pc'[y] = pc[y]
        /\ UNCHANGED <<tableVars, req, seq, cascadeVars>>
        /\ Lockable(x, r)
    BY <1>2 DEF IInv, TypeInv, TypeOK, FitsInv, Fits, LockRow, StillActive
  <2>2. \A y \in Requests \ {x} : Same(y)
    BY <2>1 DEF TypeOK, Same, cascadeVars
  <2>3. HeldBy(x)' /\ Cascade(x)'
    BY <2>1 DEF HeldBy, Cascade, Shares, HoldsSeq, tableVars, cascadeVars,
                      Coalesce
  <2>4. ASSUME NEW y \in Requests \ {x}
        PROVE  Apart(x, y)' /\ Apart(y, x)'
    <3>1. \A q \in Rows : ~Shares(x, q)' /\ (Holds(x, q)' => q = r)
      BY <2>1 DEF Holds, Shares, cascadeVars
    <3>2. ~Holds(y, r)' /\ ~Shares(y, r)'
      BY <2>1, <2>2 DEF Lockable, Others, Holds, Shares, Same
    <3>3. ~HoldsSeq(x)'
      BY <2>1 DEF HoldsSeq
    <3> QED
      BY <3>1, <3>2, <3>3 DEF Apart
  <2> QED
    BY <2>1, <2>2, <2>3, <2>4, QuietLocks
<1> QED
  BY <1>1, <1>2

LEMMA ScanLocks ==
  ASSUME IInv, NEW x \in Requests, Scan(x)
  PROVE  LocksInv'
<1>1. /\ TypeOK /\ HeldBy(x) /\ ApartInv
      /\ req[x].op = "archive" /\ req[x].row \in Customers
      /\ updated[x] = {} /\ skipped[x] = {} /\ pc[x] = "scan"
  BY DEF IInv, TypeInv, LocksInv, HeldInv, FitsInv, Fits, Scan
<1>2. UNCHANGED tableVars /\ \A y \in Requests \ {x} : Same(y)
  BY <1>1 DEF TypeOK, Scan, Same
<1>3. HeldBy(x)'
  BY <1>1, <1>2 DEF TypeOK, Scan, HeldBy, Shares, HoldsSeq, tableVars
<1>4. Cascade(x)'
  BY <1>1, <1>2 DEF TypeOK, Scan, StillActive, Cascade, tableVars
<1>5. \A r \in Rows : Holds(x, r)' = Holds(x, r) /\ Shares(x, r)' = FALSE
  BY <1>1 DEF TypeOK, Scan, Holds, Shares
<1>6. \A y \in Requests \ {x} : Apart(x, y)' /\ Apart(y, x)'
  BY <1>1, <1>2, <1>5 DEF Scan, ApartInv, Apart, Same, Holds, Shares, HoldsSeq
<1> QED
  BY <1>2, <1>3, <1>4, <1>6, QuietLocks

LEMMA ArchiveRowLocks ==
  ASSUME IInv, NEW x \in Requests, NEW k \in Contacts, ArchiveRow(x, k)
  PROVE  LocksInv'
<1>1. /\ TypeOK /\ HeldBy(x) /\ Cascade(x) /\ ApartInv
      /\ req[x].op = "archive" /\ req[x].row \in Customers
      /\ pc[x] = "cascade" /\ k \in pending[x] /\ status[k] # "absent"
  BY DEF IInv, TypeInv, LocksInv, HeldInv, FitsInv, Fits, ArchiveRow
<1>2. UNCHANGED tableVars /\ \A y \in Requests \ {x} : Same(y)
  BY <1>1 DEF TypeOK, ArchiveRow, Same
<1>3. HeldBy(x)'
  BY <1>1, <1>2 DEF TypeOK, ArchiveRow, HeldBy, Shares, HoldsSeq, tableVars
<1>4. Cascade(x)'
  BY <1>1, <1>2 DEF TypeOK, ArchiveRow, StillActive, Cascade, tableVars, Rows
<1>5. \A r \in Rows : (Holds(x, r)' => Holds(x, r) \/ r = k) /\ ~Shares(x, r)'
  BY <1>1 DEF TypeOK, ArchiveRow, Holds, Shares
<1>6. ASSUME NEW y \in Requests \ {x}
      PROVE  Apart(x, y)' /\ Apart(y, x)'
  <2>1. ~Holds(y, k) /\ ~Shares(y, k)
    BY DEF ArchiveRow, Lockable, Others
  <2>2. ~HoldsSeq(x)'
    BY <1>1 DEF ArchiveRow, HoldsSeq
  <2>3. Same(y) /\ Apart(x, y) /\ Apart(y, x)
    BY <1>1, <1>2 DEF ApartInv
  <2>4. \A r \in Rows : Holds(y, r)' = Holds(y, r) /\ Shares(y, r)' = Shares(y, r)
    BY <2>3 DEF Same, Holds, Shares
  <2> QED
    BY <1>5, <2>1, <2>2, <2>3, <2>4 DEF Apart
<1> QED
  BY <1>2, <1>3, <1>4, <1>6, QuietLocks

----------------------------------------------------------------------------
(* One step of the transactions is one step of the book, or none.          *)

\* Data changes only by the commit of an edit, which merges its patch into the
\* row as it is then.
Merges(x) ==
  \A r \in Rows :
    \/ data'[r] = data[r]
    \/ status[r] = "absent"
    \/ /\ status[r] = "active" /\ req[x].row = r
       /\ req[x].op = "edit" /\ pc'[x] = "idle"
       /\ data'[r] = Coalesce(req[x].fields, data[r])

Simulates(x) == LocksInv' /\ [Book!Next]_(Book!vars) /\ Merges(x)

LEMMA QuietSimulates ==
  ASSUME NEW x \in Requests, UNCHANGED tableVars, LocksInv'
  PROVE  Simulates(x)
BY DEF Simulates, tableVars, Book!vars, Merges

LEMMA CommitCreateSimulates ==
  ASSUME IInv, NEW x \in Requests, CommitCreate(x)
  PROVE  Simulates(x)
<1>1. TypeOK /\ HeldBy(x) /\ OwnersInv
  BY DEF IInv, TypeInv, LocksInv, HeldInv
<1>2. PICK c \in Customers :
        /\ status[c] = "absent"
        /\ status' = [status EXCEPT ![c] = "active"]
        /\ code' = [code EXCEPT ![c] = seq[x]]
        /\ data' = [data EXCEPT ![c] = req[x].fields]
  BY DEF CommitCreate
<1>3. HoldsSeq(x) /\ next_seq' = next_seq + 1 /\ seq[x] = next_seq + 1
  BY <1>1 DEF CommitCreate, HoldsSeq, HeldBy
<1>4. Commits(x)
  BY <1>1, <1>2, <1>3 DEF CommitCreate, Commits, TypeOK, OwnersInv, Rows
<1>5. Book!EnterCustomer(c)
  BY <1>2, <1>3 DEF CommitCreate, Book!EnterCustomer
<1>6. Merges(x)
  BY <1>1, <1>2 DEF Merges, TypeOK
<1> QED
  BY <1>4, <1>5, <1>6, CommitLocks DEF Simulates, Book!Next

LEMMA CommitAddSimulates ==
  ASSUME IInv, NEW x \in Requests, CommitAdd(x)
  PROVE  Simulates(x)
<1>1. /\ TypeOK /\ HeldBy(x) /\ OwnersInv
      /\ req[x].row \in Customers /\ Shares(x, req[x].row)
  BY DEF IInv, TypeInv, LocksInv, HeldInv, FitsInv, Fits, CommitAdd, Shares
<1>2. PICK k \in Contacts :
        /\ status[k] = "absent"
        /\ status' = [status EXCEPT ![k] = "active"]
        /\ customer_id' = [customer_id EXCEPT ![k] = req[x].row]
        /\ data' = [data EXCEPT ![k] = req[x].fields]
  BY DEF CommitAdd
<1>3. Commits(x)
  BY <1>1, <1>2 DEF CommitAdd, Commits, TypeOK, Rows
<1>4. Book!EnterContact(k, req[x].row)
  BY <1>1, <1>2 DEF CommitAdd, HeldBy, Rows, Book!EnterContact
<1>5. Merges(x)
  BY <1>1, <1>2 DEF Merges, TypeOK
<1> QED
  BY <1>1, <1>3, <1>4, <1>5, CommitLocks DEF Simulates, Book!Next

LEMMA CommitEditSimulates ==
  ASSUME IInv, NEW x \in Requests, CommitEdit(x)
  PROVE  Simulates(x)
<1>1. /\ TypeOK /\ HeldBy(x) /\ OwnersInv
      /\ req[x].row \in Rows /\ Holds(x, req[x].row)
  BY DEF IInv, TypeInv, LocksInv, HeldInv, FitsInv, Fits, CommitEdit, Holds
<1>2. /\ status[req[x].row] = "active"
      /\ new[x] = Coalesce(req[x].fields, data[req[x].row])
  BY <1>1 DEF CommitEdit, HeldBy
<1>3. Commits(x)
  BY <1>1, <1>2 DEF CommitEdit, Commits, TypeOK, Rows
<1>4. UNCHANGED Book!vars
  BY DEF CommitEdit, Book!vars
<1>5. Merges(x)
  BY <1>1, <1>2 DEF CommitEdit, Finish, Merges, TypeOK
<1> QED
  BY <1>3, <1>4, <1>5, CommitLocks DEF Simulates

LEMMA CommitArchiveSimulates ==
  ASSUME IInv, NEW x \in Requests, CommitArchive(x)
  PROVE  Simulates(x)
<1> DEFINE gone == {req[x].row} \cup updated[x]
<1>1. /\ TypeOK /\ HeldBy(x) /\ Cascade(x) /\ OwnersInv
      /\ Fits(req[x], pc[x])
      /\ req[x].row \in Rows /\ req[x].op = "archive"
      /\ pc[x] # "cascade" => updated[x] = {}
  BY DEF IInv, TypeInv, LocksInv, HeldInv, FitsInv, Fits, CommitArchive
<1>2. \A r \in gone : r \in Rows /\ status[r] = "active" /\ Holds(x, r)
  BY <1>1 DEF CommitArchive, TypeOK, HeldBy, Cascade, Holds, Rows
<1>3. /\ status' = [r \in Rows |-> IF r \in gone THEN "archived" ELSE status[r]]
      /\ UNCHANGED <<next_seq, code, customer_id, data>>
      /\ Finish(x)
  BY DEF CommitArchive
<1>4. Commits(x)
  BY <1>1, <1>2, <1>3 DEF Commits, TypeOK, Rows
<1>5. Merges(x)
  BY <1>3 DEF Merges
<1>6. CASE pc[x] = "commit"
  <2>1. gone = {req[x].row} /\ req[x].row \in Contacts
    BY <1>1, <1>6 DEF Fits
  <2>2. status' = [status EXCEPT ![req[x].row] = "archived"]
    BY <1>1, <1>3, <2>1 DEF TypeOK
  <2>3. Book!ArchiveContact(req[x].row)
    BY <1>2, <1>3, <2>1, <2>2 DEF Book!ArchiveContact
  <2> QED
    BY <1>4, <1>5, <2>1, <2>3, CommitLocks DEF Simulates, Book!Next
<1>7. CASE pc[x] = "cascade" /\ pending[x] = {}
  <2>1. req[x].row \in Customers
    BY <1>1, <1>7 DEF Fits
  <2>2. ASSUME NEW k \in Contacts
        PROVE  IF customer_id[k] = req[x].row
               THEN k \in gone \/ status[k] = "archived"
               ELSE k \notin gone
    <3>1. CASE customer_id[k] = req[x].row
      <4>1. status[k] \in {"active", "archived"}
        BY <1>1, <2>1, <3>1 DEF OwnersInv, TypeOK, Rows
      <4>2. status[k] = "active" => k \in gone
        BY <1>1, <1>7, <3>1 DEF Cascade
      <4> QED
        BY <3>1, <4>1, <4>2
    <3>2. CASE customer_id[k] # req[x].row
      BY <1>1, <2>1, <3>2 DEF Cascade, Rows
    <3> QED
      BY <3>1, <3>2
  <2>3. \A r \in gone : r = req[x].row \/ r \in Contacts
    BY <1>1 DEF TypeOK
  <2>4. ASSUME NEW r \in Rows
        PROVE  status'[r] = IF r = req[x].row \/ (r \in Contacts /\ customer_id[r] = req[x].row)
                            THEN "archived" ELSE status[r]
    BY <1>3, <2>1, <2>2, <2>3
  <2>5. Book!ArchiveCustomer(req[x].row)
    BY <1>2, <1>3, <2>4 DEF Book!ArchiveCustomer, Rows
  <2> QED
    BY <1>4, <1>5, <2>1, <2>5, CommitLocks DEF Simulates, Book!Next
<1> QED
  BY <1>6, <1>7 DEF CommitArchive

LEMMA AbortSimulates ==
  ASSUME IInv, NEW x \in Requests, Abort(x)
  PROVE  Simulates(x)
BY QuietFinish, QuietSimulates DEF Abort

LEMMA ArriveSimulates ==
  ASSUME IInv, NEW x \in Requests, Arrive(x)
  PROVE  Simulates(x)
BY ArriveBegins, ArriveLocks, QuietSimulates

LEMMA StepSimulates ==
  ASSUME IInv, NEW x \in Requests, Step(x)
  PROVE  Simulates(x)
<1>1. CASE Allocate(x)
  BY <1>1, AllocateLocks, QuietSimulates DEF Allocate
<1>2. CASE CommitCreate(x)
  BY <1>2, CommitCreateSimulates
<1>3. CASE LockActiveCustomer(x)
  BY <1>3, ShareLocks, QuietSimulates DEF LockActiveCustomer
<1>4. CASE CommitAdd(x)
  BY <1>4, CommitAddSimulates
<1>5. CASE LockRow(x)
  BY <1>5, RowLocks, QuietSimulates DEF LockRow
<1>6. CASE CommitEdit(x)
  BY <1>6, CommitEditSimulates
<1>7. CASE Scan(x)
  BY <1>7, ScanLocks, QuietSimulates DEF Scan
<1>8. ASSUME NEW k \in Contacts, ArchiveRow(x, k)
      PROVE  Simulates(x)
  BY <1>8, ArchiveRowLocks, QuietSimulates DEF ArchiveRow
<1>9. CASE CommitArchive(x)
  BY <1>9, CommitArchiveSimulates
<1> QED
  BY <1>1, <1>2, <1>3, <1>4, <1>5, <1>6, <1>7, <1>8, <1>9 DEF Step

LEMMA NextSimulates ==
  ASSUME IInv, [Next]_vars
  PROVE  /\ LocksInv'
         /\ [Book!Next]_(Book!vars)
         /\ data' = data \/ \E x \in Requests : Merges(x)
<1>1. ASSUME NEW x \in Requests, Arrive(x) \/ Step(x) \/ Abort(x)
      PROVE  Simulates(x)
  BY <1>1, ArriveSimulates, StepSimulates, AbortSimulates
<1>2. CASE UNCHANGED vars
  <2>1. UNCHANGED Book!vars /\ data' = data
    BY <1>2 DEF vars, tableVars, Book!vars
  <2>2. HeldInv'
    BY <1>2 DEF IInv, LocksInv, HeldInv, HeldBy, Cascade, HoldsSeq, Shares, vars,
                tableVars, cascadeVars
  <2>3. ApartInv' /\ OwnersInv'
    BY <1>2 DEF IInv, LocksInv, ApartInv, Apart, OwnersInv, HoldsSeq, Holds, Shares,
                vars, tableVars, cascadeVars
  <2> QED
    BY <2>1, <2>2, <2>3 DEF LocksInv
<1> QED
  BY <1>1, <1>2 DEF Next, Simulates

LEMMA InvInit == Init => IInv /\ Book!Init
<1> SUFFICES ASSUME Init
             PROVE  IInv /\ Book!Init
  OBVIOUS
<1>1. Book!Init
  BY DEF Init, Book!Init, Rows
<1>2. HeldInv /\ ApartInv
  BY DEF Init, HeldInv, HeldBy, Cascade, ApartInv, Apart, HoldsSeq, Holds, Shares,
         NoReq, Ask
<1>3. OwnersInv
  BY DEF Init, OwnersInv, Rows
<1> QED
  BY <1>1, <1>2, <1>3, TypeInit DEF IInv, LocksInv

LEMMA InvStep == IInv /\ [Next]_vars => IInv'
BY TypeStep, NextSimulates DEF IInv

\* The transactions, with their locks and their rollbacks, implement the book
\* that has neither: an archiving and the additions under way look like one step
\* each.
THEOREM BookImplemented == Spec => ImplementsBook
<1>1. Init => IInv /\ Book!Init
  BY InvInit
<1>2. IInv /\ [Next]_vars => IInv' /\ [Book!Next]_(Book!vars)
  BY InvStep, NextSimulates
<1> QED
  BY <1>1, <1>2, PTL DEF Spec, ImplementsBook, Book!Spec

----------------------------------------------------------------------------
(* What follows from the book.                                             *)

LEMMA BookTypes ==
  ASSUME IInv
  PROVE  /\ next_seq \in Nat
         /\ code \in [Customers -> Nat]
         /\ status \in [Customers \cup Contacts -> {"absent", "active", "archived"}]
         /\ customer_id \in [Contacts -> Customers \cup {None}]
         /\ \A k \in Contacts : status[k] = "absent" <=> customer_id[k] = None
BY DEF IInv, TypeInv, TypeOK, LocksInv, OwnersInv, Rows

LEMMA CodesStep ==
  ASSUME IInv, [Next]_vars, CodesGapFree
  PROVE  CodesGapFree'
<1> USE BookTypes
<1>1. [Book!Next]_(Book!vars)
  BY NextSimulates
<1>2. ASSUME NEW c \in Customers, Book!EnterCustomer(c)
      PROVE  CodesGapFree'
  <2>1. /\ status[c] = "absent" /\ status'[c] = "active"
        /\ next_seq' = next_seq + 1 /\ code'[c] = next_seq + 1
        /\ \A d \in Customers \ {c} : status'[d] = status[d] /\ code'[d] = code[d]
    BY <1>2 DEF Book!EnterCustomer
  <2>2. \A d \in Customers \ {c} : status[d] # "absent" => code'[d] \in 1 .. next_seq
    BY <2>1 DEF CodesGapFree
  <2>3. \A d \in Customers : status'[d] # "absent" => code'[d] \in 1 .. next_seq'
    BY <2>1, <2>2
  <2>4. ASSUME NEW d \in Customers, NEW e \in Customers,
               status'[d] # "absent", status'[e] # "absent", code'[d] = code'[e]
        PROVE  d = e
    BY <2>1, <2>2, <2>4 DEF CodesGapFree
  <2>5. ASSUME NEW n \in 1 .. next_seq'
        PROVE  \E d \in Customers : status'[d] # "absent" /\ code'[d] = n
    <3>1. CASE n = next_seq + 1
      BY <2>1, <3>1
    <3>2. CASE n \in 1 .. next_seq
      BY <2>1, <3>2 DEF CodesGapFree
    <3> QED
      BY <2>1, <2>5, <3>1, <3>2
  <2> QED
    BY <2>3, <2>4, <2>5 DEF CodesGapFree
<1>3. ASSUME UNCHANGED <<next_seq, code>>,
             \A c \in Customers : status'[c] = "absent" <=> status[c] = "absent"
      PROVE  CodesGapFree'
  BY <1>3 DEF CodesGapFree
<1>4. ASSUME NEW c \in Customers, Book!ArchiveCustomer(c)
      PROVE  CodesGapFree'
  BY <1>3, <1>4 DEF Book!ArchiveCustomer
<1>5. ASSUME NEW k \in Contacts,
             Book!ArchiveContact(k) \/ \E c \in Customers : Book!EnterContact(k, c)
      PROVE  CodesGapFree'
  BY <1>3, <1>5 DEF Book!ArchiveContact, Book!EnterContact
<1>6. CASE UNCHANGED Book!vars
  BY <1>3, <1>6 DEF Book!vars
<1> QED
  BY <1>1, <1>2, <1>4, <1>5, <1>6 DEF Book!Next

\* Customer codes have no gap and no duplicate, whatever creations roll back.
THEOREM Codes == Spec => []CodesGapFree
<1>1. Init => CodesGapFree
  BY DEF Init, CodesGapFree, Rows
<1>2. IInv /\ CodesGapFree /\ [Next]_vars => IInv' /\ CodesGapFree'
  BY InvStep, CodesStep
<1> QED
  BY <1>1, <1>2, InvInit, PTL DEF Spec

LEMMA OrphanStep ==
  ASSUME IInv, [Next]_vars, NoOrphan
  PROVE  NoOrphan'
<1> USE BookTypes
<1>1. [Book!Next]_(Book!vars)
  BY NextSimulates
<1>2. ASSUME NEW c \in Customers, Book!EnterCustomer(c)
      PROVE  NoOrphan'
  BY <1>2 DEF Book!EnterCustomer, NoOrphan
<1>3. ASSUME NEW c \in Customers, Book!ArchiveCustomer(c)
      PROVE  NoOrphan'
  BY <1>3 DEF Book!ArchiveCustomer, NoOrphan
<1>4. ASSUME NEW k \in Contacts, Book!ArchiveContact(k)
      PROVE  NoOrphan'
  BY <1>4 DEF Book!ArchiveContact, NoOrphan
<1>5. ASSUME NEW k \in Contacts, NEW c \in Customers, Book!EnterContact(k, c)
      PROVE  NoOrphan'
  BY <1>5 DEF Book!EnterContact, NoOrphan
<1>6. CASE UNCHANGED Book!vars
  BY <1>6 DEF Book!vars, NoOrphan
<1> QED
  BY <1>1, <1>2, <1>3, <1>4, <1>5, <1>6 DEF Book!Next

\* No active contact is left under an archived customer: lock_active_customer
\* and the cascade of archive_customer leave no interleaving that does.
THEOREM Orphans == Spec => []NoOrphan
<1>1. Init => NoOrphan
  BY DEF Init, NoOrphan, Rows
<1>2. IInv /\ NoOrphan /\ [Next]_vars => IInv' /\ NoOrphan'
  BY InvStep, OrphanStep
<1> QED
  BY <1>1, <1>2, InvInit, PTL DEF Spec

----------------------------------------------------------------------------
(* Rows: archived ones are frozen, patches of active ones compose.         *)

LEMMA FrozenStep ==
  ASSUME IInv, [Next]_vars, NEW r \in Rows, status[r] = "archived"
  PROVE  status'[r] = "archived" /\ data'[r] = data[r]
<1>1. data'[r] = data[r]
  BY NextSimulates DEF Merges
<1>2. status'[r] = "archived"
  BY NextSimulates, BookTypes
  DEF Rows, Book!Next, Book!vars, Book!EnterCustomer, Book!EnterContact,
      Book!ArchiveContact, Book!ArchiveCustomer
<1> QED
  BY <1>1, <1>2

\* Once archived, a row never changes again, by whichever request.
THEOREM Frozen == Spec => ArchivedIsFrozen
<1>1. IInv /\ [Next]_vars =>
        [\A r \in Rows : status[r] = "archived" =>
           status'[r] = "archived" /\ data'[r] = data[r]]_vars
  BY FrozenStep
<1> QED
  BY <1>1, InvInit, InvStep, PTL DEF Spec, ArchivedIsFrozen

LEMMA PatchStep ==
  ASSUME IInv, [Next]_vars, NEW r \in Rows, NEW f \in Fields,
         status[r] # "absent", data'[r][f] # data[r][f]
  PROVE  \E x \in Requests : /\ req[x].op = "edit"
                             /\ req[x].row = r
                             /\ req[x].fields[f] = data'[r][f] /\ data'[r][f] # None
                             /\ pc'[x] = "idle"
<1>1. PICK x \in Requests :
        /\ req[x].row = r /\ req[x].op = "edit" /\ pc'[x] = "idle"
        /\ data'[r] = Coalesce(req[x].fields, data[r])
  BY NextSimulates DEF Merges
<1>2. req[x].fields[f] = data'[r][f] /\ data'[r][f] # None
  BY <1>1 DEF Coalesce
<1> QED
  BY <1>1, <1>2

\* No patch overwrites a column it does not name, though it waited for another
\* patch of the same row after it was received.
THEOREM Patches == Spec => PatchesCompose
<1>1. IInv /\ [Next]_vars =>
        [\A r \in Rows, f \in Fields :
           status[r] # "absent" /\ data'[r][f] # data[r][f] =>
             \E x \in Requests : /\ req[x].op = "edit"
                                 /\ req[x].row = r
                                 /\ req[x].fields[f] = data'[r][f] /\ data'[r][f] # None
                                 /\ pc'[x] = "idle"]_vars
  BY PatchStep
<1> QED
  BY <1>1, InvInit, InvStep, PTL DEF Spec, PatchesCompose

----------------------------------------------------------------------------
(* Waiting.                                                                *)

\* Whoever blocks another request while waiting itself is in a cascade.
LEMMA BlockerCascades ==
  ASSUME IInv, NEW x \in Requests, NEW y \in Requests, NEW z \in Requests,
         Blocks(y, x), Blocks(z, y)
  PROVE  /\ pc[y] = "cascade" /\ req[y].row \in Customers /\ Holds(y, req[y].row)
         /\ \E k \in pending[y] : Holds(z, k) /\ customer_id[k] = req[y].row
<1>1. pc[y] \in {"allocate", "share", "lock", "cascade"}
  BY DEF Blocks
<1>2. /\ Fits(req[y], pc[y]) /\ Cascade(y)
      /\ pc[y] # "cascade" => updated[y] = {} /\ skipped[y] = {}
  BY DEF IInv, TypeInv, FitsInv, LocksInv, HeldInv
<1>3. ASSUME NEW r, Holds(y, r)
      PROVE  pc[y] = "cascade"
  BY <1>1, <1>2, <1>3 DEF Holds
<1>4. ~HoldsSeq(y) /\ \A r : ~Shares(y, r)
  BY <1>1 DEF HoldsSeq, Shares
<1>5. pc[y] = "cascade"
  BY <1>3, <1>4 DEF Blocks
<1>6. /\ req[y].row \in Customers
      /\ Holds(y, req[y].row)
  BY <1>2, <1>5 DEF Fits, Holds
<1>7. \E k \in pending[y] : Holds(z, k)
  BY <1>5 DEF Blocks
<1> QED
  BY <1>2, <1>5, <1>6, <1>7 DEF Cascade

\* No set of requests waits in a cycle: two cascades that met at a contact would
\* have locked the same customer.
THEOREM Deadlock == Spec => []NoDeadlock
<1>1. IInv => NoDeadlock
  <2> SUFFICES ASSUME IInv, NEW S \in SUBSET Requests, NEW x \in S,
                      \A u \in S : \E v \in S \ {u} : Blocks(v, u)
               PROVE  FALSE
    BY DEF NoDeadlock
  <2>1. PICK y \in S \ {x} : Blocks(y, x)
    OBVIOUS
  <2>2. PICK z \in S \ {y} : Blocks(z, y)
    OBVIOUS
  <2>3. PICK w \in S \ {z} : Blocks(w, z)
    OBVIOUS
  <2>4. PICK k \in pending[y] :
          /\ Holds(z, k) /\ customer_id[k] = req[y].row
          /\ req[y].row \in Customers /\ Holds(y, req[y].row)
    BY <2>1, <2>2, BlockerCascades
  <2>5. pc[z] = "cascade" /\ req[z].row \in Customers /\ Holds(z, req[z].row)
    BY <2>2, <2>3, BlockerCascades
  <2>6. k \in Contacts /\ Cascade(z) /\ Apart(y, z)
    BY <2>2 DEF IInv, TypeInv, TypeOK, LocksInv, HeldInv, ApartInv
  <2>7. k \in updated[z] \cup skipped[z]
    BY <2>4, <2>5, <2>6 DEF Holds
  <2>8. req[z].row = req[y].row
    BY <2>4, <2>6, <2>7 DEF Cascade
  <2> QED
    BY <2>4, <2>5, <2>6, <2>8 DEF Apart, Rows
<1> QED
  BY <1>1, InvInit, InvStep, PTL DEF Spec

----------------------------------------------------------------------------
(* How much work is left.                                                  *)

\* At most so many steps of its own does a request still take.
StepsLeft(x) ==
  CASE pc[x] = "idle"     -> 0
    [] pc[x] = "commit"   -> 1
    [] pc[x] = "allocate" -> 2
    [] pc[x] = "share"    -> 2
    [] pc[x] = "cascade"  -> 1 + Cardinality(pending[x])
    [] pc[x] = "scan"     -> 2 + Cardinality(Contacts)
    [] pc[x] = "lock"     -> 3 + Cardinality(Contacts)

NoneTurnsBack ==
  \A x \in Requests : pc[x] # "idle" =>
    /\ StepsLeft(x)' <= StepsLeft(x)
    /\ Step(x) => StepsLeft(x)' < StepsLeft(x)

LEMMA FewToVisit ==
  ASSUME IsFiniteSet(Contacts), NEW T \in SUBSET Contacts
  PROVE  /\ IsFiniteSet(T)
         /\ Cardinality(T) \in Nat
         /\ Cardinality(Contacts) \in Nat
         /\ Cardinality(T) <= Cardinality(Contacts)
BY FS_Subset, FS_CardinalityType

LEMMA StepShortens ==
  ASSUME IsFiniteSet(Contacts), TypeOK, NEW x \in Requests, Step(x)
  PROVE  StepsLeft(x)' < StepsLeft(x) /\ StepsLeft(x)' \in Nat
<1> USE DEF StepsLeft
<1>1. pending[x] \in SUBSET Contacts
  BY DEF TypeOK
<1>2. Cardinality(pending[x]) \in Nat /\ Cardinality(Contacts) \in Nat
  BY <1>1, FewToVisit
<1>3. ASSUME Finish(x), pc[x] \in {"share", "lock", "cascade", "commit"}
      PROVE  StepsLeft(x)' < StepsLeft(x) /\ StepsLeft(x)' \in Nat
  <2>1. pc'[x] = "idle"
    BY <1>3 DEF Finish, TypeOK
  <2> QED
    BY <1>2, <1>3, <2>1
<1>4. CASE Allocate(x)
  BY <1>4 DEF Allocate, TypeOK
<1>5. CASE LockActiveCustomer(x)
  <2>1. pc[x] = "share" /\ (pc'[x] = "commit" \/ Finish(x))
    BY <1>5 DEF LockActiveCustomer, TypeOK
  <2>2. CASE Finish(x)
    BY <1>3, <2>1, <2>2
  <2>3. CASE pc'[x] = "commit"
    BY <1>2, <2>1, <2>3
  <2> QED
    BY <2>1, <2>2, <2>3
<1>6. CASE LockRow(x)
  <2>1. pc[x] = "lock" /\ (pc'[x] \in {"scan", "commit"} \/ Finish(x))
    BY <1>6 DEF LockRow, TypeOK
  <2>2. CASE Finish(x)
    BY <1>3, <2>1, <2>2
  <2>3. CASE pc'[x] \in {"scan", "commit"}
    BY <1>2, <2>1, <2>3
  <2> QED
    BY <2>1, <2>2, <2>3
<1>7. CASE Scan(x)
  <2>1. pc[x] = "scan" /\ pc'[x] = "cascade" /\ pending'[x] \in SUBSET Contacts
    BY <1>7 DEF Scan, TypeOK
  <2>2. /\ Cardinality(pending'[x]) \in Nat
        /\ Cardinality(pending'[x]) <= Cardinality(Contacts)
    BY <2>1, FewToVisit
  <2> QED
    BY <1>2, <2>1, <2>2
<1>8. ASSUME NEW k \in Contacts, ArchiveRow(x, k)
      PROVE  StepsLeft(x)' < StepsLeft(x) /\ StepsLeft(x)' \in Nat
  <2>1. /\ pc[x] = "cascade" /\ pc'[x] = "cascade"
        /\ pending'[x] = pending[x] \ {k} /\ k \in pending[x]
    BY <1>8 DEF ArchiveRow, TypeOK
  <2>2. Cardinality(pending'[x]) = Cardinality(pending[x]) - 1
    <3>1. IsFiniteSet(pending[x])
      BY <1>1, FewToVisit
    <3>2. Cardinality(pending[x] \ {k}) = Cardinality(pending[x]) - 1
      BY <2>1, <3>1, FS_RemoveElement
    <3> QED
      BY <2>1, <3>2
  <2>3. Cardinality(pending'[x]) \in Nat
    BY <1>1, <2>1, FewToVisit
  <2> QED
    BY <1>2, <2>1, <2>2, <2>3
<1>9. CASE CommitCreate(x) \/ CommitAdd(x) \/ CommitEdit(x) \/ CommitArchive(x)
  BY <1>3, <1>9 DEF CommitCreate, CommitAdd, CommitEdit, CommitArchive
<1> QED
  BY <1>4, <1>5, <1>6, <1>7, <1>8, <1>9 DEF Step

LEMMA OthersStay ==
  ASSUME TypeOK, [Next]_vars, NEW x \in Requests, pc[x] # "idle"
  PROVE  \/ pc'[x] = pc[x] /\ pending'[x] = pending[x]
         \/ pc'[x] = "idle"
         \/ Step(x)
<1> USE DEF TypeOK
<1>1. ASSUME NEW y \in Requests, Arrive(y)
      PROVE  pc'[x] = pc[x] /\ pending'[x] = pending[x]
  BY <1>1, ArriveBegins DEF Arrived, Begin, cascadeVars
<1>2. ASSUME NEW y \in Requests, Finish(y)
      PROVE  (pc'[x] = pc[x] /\ pending'[x] = pending[x]) \/ pc'[x] = "idle"
  BY <1>2 DEF Finish
<1>3. ASSUME NEW y \in Requests, Step(y), y # x
      PROVE  (pc'[x] = pc[x] /\ pending'[x] = pending[x]) \/ pc'[x] = "idle"
  <2>1. CASE Finish(y)
    BY <1>2, <2>1
  <2>2. CASE Allocate(y) \/ LockActiveCustomer(y) \/ LockRow(y)
    BY <1>2, <1>3, <2>2 DEF Allocate, LockActiveCustomer, LockRow, cascadeVars
  <2>3. CASE Scan(y) \/ \E k \in Contacts : ArchiveRow(y, k)
    BY <1>3, <2>3 DEF Scan, ArchiveRow
  <2> QED
    BY <1>3, <2>1, <2>2, <2>3
       DEF Step, CommitCreate, CommitAdd, CommitEdit, CommitArchive
<1>4. CASE UNCHANGED vars
  BY <1>4 DEF vars, cascadeVars
<1> QED
  BY <1>1, <1>2, <1>3, <1>4 DEF Next, Abort

\* A request never takes a step back and each step of its own brings it nearer to its
\* end: no statement is tried again and the cascade visits each contact of its
\* snapshot once (archive_customer).  With Deadlock, a request that does not end
\* is one that waits for locks others keep taking before it.
THEOREM RequestsAdvance ==
  ASSUME IsFiniteSet(Contacts)
  PROVE  Spec => [][NoneTurnsBack]_vars
<1>1. ASSUME TypeOK, [Next]_vars
      PROVE  NoneTurnsBack
  <2> SUFFICES ASSUME NEW x \in Requests, pc[x] # "idle"
               PROVE  /\ StepsLeft(x)' <= StepsLeft(x)
                      /\ Step(x) => StepsLeft(x)' < StepsLeft(x)
    BY DEF NoneTurnsBack
  <2>1. /\ pending[x] \in SUBSET Contacts
        /\ pc[x] \in {"allocate", "share", "lock", "scan", "cascade", "commit"}
    BY <1>1 DEF TypeOK
  <2>2. Cardinality(pending[x]) \in Nat /\ Cardinality(Contacts) \in Nat
    BY <2>1, FewToVisit
  <2>3. StepsLeft(x) \in Nat
    BY <2>1, <2>2 DEF StepsLeft
  <2>4. CASE Step(x)
    BY <1>1, <2>3, <2>4, StepShortens
  <2>5. CASE ~Step(x) /\ pc'[x] = pc[x] /\ pending'[x] = pending[x]
    <3>1. StepsLeft(x)' = StepsLeft(x)
      BY <2>5 DEF StepsLeft
    <3> QED
      BY <2>3, <2>5, <3>1
  <2>6. CASE ~Step(x) /\ pc'[x] = "idle"
    <3>1. StepsLeft(x)' = 0
      BY <2>6 DEF StepsLeft
    <3> QED
      BY <2>3, <2>6, <3>1
  <2> QED
    BY <1>1, <2>4, <2>5, <2>6, OthersStay
<1> QED
  BY <1>1, TypeCorrect, PTL DEF Spec
=============================================================================
