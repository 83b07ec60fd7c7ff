--------------------------------- MODULE Crm ---------------------------------
(***************************************************************************)
(* Customers and contacts of one tenant (src/backend/src/crm/repo.rs and   *)
(* http/routes/customers.rs, contacts.rs): concurrent creations, edits and *)
(* archivings, each one transaction of Postgres at READ COMMITTED.         *)
(*                                                                         *)
(* The variables named after columns hold COMMITTED rows only.  A write is *)
(* published by the commit; until then the transaction holds the row, in   *)
(* share mode for lock_active_customer, exclusively for an UPDATE.  A      *)
(* statement that gets a row's lock re-evaluates `status <> 'archived'` on *)
(* the newest version.  INSERTs are invisible until the commit and merged  *)
(* with the step before it.                                                *)
(***************************************************************************)
EXTENDS Naturals, FiniteSets

CONSTANTS
  Customers, Contacts,  \* rows that may be created (bound)
  Optional,             \* the nullable columns; the name is not
  Values,
  Requests,             \* slots for requests in flight at the same time (bound)
  None                  \* SQL's NULL, and a field a PATCH leaves out

Rows == Customers \cup Contacts
Fields == {"name"} \cup Optional
Data == [Fields -> Values \cup {None}]
NoData == [f \in Fields |-> None]

ASSUME TablesAssumption == Customers \cap Contacts = {}
ASSUME OptionalAssumption == "name" \notin Optional
ASSUME NoneAssumption == None \notin Values \cup Rows

VARIABLES
  next_seq,     \* customer_code_seq; 0 while the tenant has no row in it
  code,         \* the number in a customer's code, 0 before it exists
  status,       \* of customers and contacts; "absent" before they exist
  customer_id,  \* the customer of a contact
  data,         \* the other columns
  pc,           \* where each request is
  req,          \* what it was asked to do
  seq,          \* the number a creation allocated
  new,          \* the new version an UPDATE has computed from the locked row
  pending, updated, skipped  \* the contacts of an archiving's cascade

tableVars   == <<next_seq, code, status, customer_id, data>>
cascadeVars == <<pending, updated, skipped>>
vars == <<tableVars, pc, req, seq, new, cascadeVars>>

Ops == {"none", "create", "add", "edit", "archive"}

Ask(op, r, d) == [op |-> op, row |-> r, fields |-> d]

NoReq == Ask("none", None, NoData)

TypeOK ==
  /\ next_seq \in Nat
  /\ code \in [Customers -> Nat]
  /\ status \in [Rows -> {"absent", "active", "archived"}]
  /\ customer_id \in [Contacts -> Customers \cup {None}]
  /\ data \in [Rows -> Data]
  /\ \A r \in Rows : status[r] # "absent" => data[r]["name"] # None
  /\ pc \in [Requests -> {"idle", "allocate", "share", "lock", "scan",
                          "cascade", "commit"}]
  /\ req \in [Requests -> [op : Ops, row : Rows \cup {None}, fields : Data]]
  /\ seq \in [Requests -> Nat]
  /\ new \in [Requests -> Data]
  /\ pending \in [Requests -> SUBSET Contacts]
  /\ updated \in [Requests -> SUBSET Contacts]
  /\ skipped \in [Requests -> SUBSET Contacts]

Init ==
  /\ next_seq = 0
  /\ code = [c \in Customers |-> 0]
  /\ status = [r \in Rows |-> "absent"]
  /\ customer_id = [k \in Contacts |-> None]
  /\ data = [r \in Rows |-> NoData]
  /\ pc = [x \in Requests |-> "idle"]
  /\ req = [x \in Requests |-> NoReq]
  /\ seq = [x \in Requests |-> 0]
  /\ new = [x \in Requests |-> NoData]
  /\ pending = [x \in Requests |-> {}]
  /\ updated = [x \in Requests |-> {}]
  /\ skipped = [x \in Requests |-> {}]

----------------------------------------------------------------------------
(* Locks, held until the transaction ends.                                 *)

\* The counter's row, from allocate_seq on.
HoldsSeq(x) == req[x].op = "create" /\ pc[x] = "commit"

\* A row an UPDATE changed, or waited for and found archived.
Holds(x, r) ==
  \/ /\ req[x].op \in {"edit", "archive"}
     /\ req[x].row = r
     /\ pc[x] \in {"scan", "cascade", "commit"}
  \/ r \in updated[x] \cup skipped[x]

\* Fault: an edit reads its row FOR SHARE and then upgrades the lock.
SharesFromRead(x, r) ==
  req[x].row = r /\ \/ req[x].op = "add" /\ pc[x] = "commit"
                    \/ req[x].op = "edit" /\ pc[x] = "lock"

\* The customer of a contact that is being added: FOR SHARE.
Shares(x, r) == req[x].op = "add" /\ req[x].row = r /\ pc[x] = "commit"

Others(x) == Requests \ {x}

Lockable(x, r) == \A y \in Others(x) : ~Holds(y, r) /\ ~Shares(y, r)

\* Fault: the customer is read without FOR SHARE.
ShareableUnlocked(x, r) == TRUE

Shareable(x, r) == \A y \in Others(x) : ~Holds(y, r)

----------------------------------------------------------------------------
(* The life of a request.                                                  *)

Begin(x, r, where) ==
  /\ pc[x] = "idle"
  /\ pc' = [pc EXCEPT ![x] = where]
  /\ req' = [req EXCEPT ![x] = r]
  /\ UNCHANGED <<tableVars, seq, new, cascadeVars>>

\* The request ends, by its commit or by rolling back; its locks are free.
Finish(x) ==
  /\ pc' = [pc EXCEPT ![x] = "idle"]
  /\ req' = [req EXCEPT ![x] = NoReq]
  /\ seq' = [seq EXCEPT ![x] = 0]
  /\ new' = [new EXCEPT ![x] = NoData]
  /\ pending' = [pending EXCEPT ![x] = {}]
  /\ updated' = [updated EXCEPT ![x] = {}]
  /\ skipped' = [skipped EXCEPT ![x] = {}]

\* A fault, TENANT_QUERY_TIMEOUT or a crash before the commit.
Abort(x) ==
  /\ pc[x] # "idle"
  /\ Finish(x)
  /\ UNCHANGED tableVars

----------------------------------------------------------------------------
(* Creating a customer.                                                    *)

\* Bound: a row is left for every creation under way.
RowsLeft(op, S) ==
  Cardinality({x \in Requests : req[x].op = op})
    < Cardinality({r \in S : status[r] = "absent"})

Create(x, d) ==
  /\ d["name"] # None
  /\ RowsLeft("create", Customers)
  /\ Begin(x, Ask("create", None, d), "allocate")

\* Fault: a Postgres sequence, which a rollback does not give back.
AllocateFromSequence(x) ==
  /\ pc[x] = "allocate"
  /\ \A y \in Others(x) : ~HoldsSeq(y)
  /\ next_seq' = next_seq + 1
  /\ seq' = [seq EXCEPT ![x] = next_seq']
  /\ pc' = [pc EXCEPT ![x] = "commit"]
  /\ UNCHANGED <<code, status, customer_id, data, req, new, cascadeVars>>

\* allocate_seq waits for the counter's row, which the upsert locks, and
\* insert_customer inserts the row with its code.
Allocate(x) ==
  /\ pc[x] = "allocate"
  /\ \A y \in Others(x) : ~HoldsSeq(y)
  /\ seq' = [seq EXCEPT ![x] = next_seq + 1]
  /\ pc' = [pc EXCEPT ![x] = "commit"]
  /\ UNCHANGED <<tableVars, req, new, cascadeVars>>

CommitCreate(x) ==
  /\ pc[x] = "commit"
  /\ req[x].op = "create"
  /\ \E c \in Customers :
       /\ status[c] = "absent"
       /\ status' = [status EXCEPT ![c] = "active"]
       /\ code' = [code EXCEPT ![c] = seq[x]]
       /\ data' = [data EXCEPT ![c] = req[x].fields]
  /\ next_seq' = seq[x]
  /\ Finish(x)
  /\ UNCHANGED customer_id

----------------------------------------------------------------------------
(* Adding a contact.                                                       *)

AddContact(x, c, d) ==
  /\ status[c] # "absent"
  /\ d["name"] # None
  /\ RowsLeft("add", Contacts)
  /\ Begin(x, Ask("add", c, d), "share")

\* lock_active_customer; an archived customer is a 404.
LockActiveCustomer(x) ==
  LET c == req[x].row IN
  /\ pc[x] = "share"
  /\ Shareable(x, c)
  /\ \/ /\ status[c] = "active"
        /\ pc' = [pc EXCEPT ![x] = "commit"]
        /\ UNCHANGED <<req, seq, new, cascadeVars>>
     \/ status[c] # "active" /\ Finish(x)
  /\ UNCHANGED tableVars

CommitAdd(x) ==
  /\ pc[x] = "commit"
  /\ req[x].op = "add"
  /\ \E k \in Contacts :
       /\ status[k] = "absent"
       /\ status' = [status EXCEPT ![k] = "active"]
       /\ customer_id' = [customer_id EXCEPT ![k] = req[x].row]
       /\ data' = [data EXCEPT ![k] = req[x].fields]
  /\ Finish(x)
  /\ UNCHANGED <<next_seq, code>>

----------------------------------------------------------------------------
(* Editing and archiving a customer or a contact.                          *)

\* An empty patch is refused without a transaction.
Edit(x, r, d) ==
  /\ status[r] # "absent"
  /\ d # NoData
  /\ Begin(x, Ask("edit", r, d), "lock")

Archive(x, r) ==
  /\ status[r] # "absent"
  /\ Begin(x, Ask("archive", r, NoData), "lock")

\* Fault: an absent field clears the column.
NoCoalesce(d, old) == d

\* COALESCE($n, column), column by column.
Coalesce(d, old) == [f \in Fields |-> IF d[f] = None THEN old[f] ELSE d[f]]

\* Fault: the UPDATE without AND status <> 'archived'.
StillActiveUnchecked(r) == TRUE

StillActive(r) == status[r] = "active"

\* The UPDATE of patch_customer, patch_contact, archive_contact, and the first
\* one of archive_customer.  No active row is a 404.
LockRow(x) ==
  LET r == req[x].row IN
  /\ pc[x] = "lock"
  /\ Lockable(x, r)
  /\ \/ /\ StillActive(r)
        /\ new' = [new EXCEPT ![x] = Coalesce(req[x].fields, data[r])]
        /\ pc' = [pc EXCEPT ![x] =
                    IF req[x].op = "archive" /\ r \in Customers
                    THEN "scan" ELSE "commit"]
        /\ UNCHANGED <<req, seq, cascadeVars>>
     \/ ~StillActive(r) /\ Finish(x)
  /\ UNCHANGED tableVars

CommitEdit(x) ==
  /\ pc[x] = "commit"
  /\ req[x].op = "edit"
  /\ data' = [data EXCEPT ![req[x].row] = new[x]]
  /\ Finish(x)
  /\ UNCHANGED <<next_seq, code, status, customer_id>>

\* The snapshot of archive_customer's second UPDATE.
Scan(x) ==
  /\ pc[x] = "scan"
  /\ pending' = [pending EXCEPT ![x] =
       {k \in Contacts : StillActive(k) /\ customer_id[k] = req[x].row}]
  /\ pc' = [pc EXCEPT ![x] = "cascade"]
  /\ UNCHANGED <<tableVars, req, seq, new, updated, skipped>>

ArchiveRow(x, k) ==
  /\ pc[x] = "cascade"
  /\ k \in pending[x]
  /\ Lockable(x, k)
  /\ pending' = [pending EXCEPT ![x] = @ \ {k}]
  /\ IF StillActive(k)
     THEN /\ updated' = [updated EXCEPT ![x] = @ \cup {k}]
          /\ UNCHANGED skipped
     ELSE /\ skipped' = [skipped EXCEPT ![x] = @ \cup {k}]
          /\ UNCHANGED updated
  /\ UNCHANGED <<tableVars, pc, req, seq, new>>

CommitArchive(x) ==
  /\ req[x].op = "archive"
  /\ pc[x] = "commit" \/ (pc[x] = "cascade" /\ pending[x] = {})
  /\ status' = [r \in Rows |-> IF r \in {req[x].row} \cup updated[x]
                               THEN "archived" ELSE status[r]]
  /\ Finish(x)
  /\ UNCHANGED <<next_seq, code, customer_id, data>>

----------------------------------------------------------------------------
Step(x) ==
  \/ Allocate(x)
  \/ CommitCreate(x)
  \/ LockActiveCustomer(x)
  \/ CommitAdd(x)
  \/ LockRow(x)
  \/ CommitEdit(x)
  \/ Scan(x)
  \/ \E k \in Contacts : ArchiveRow(x, k)
  \/ CommitArchive(x)

Arrive(x) ==
  \/ \E d \in Data : Create(x, d)
  \/ \E c \in Customers, d \in Data : AddContact(x, c, d)
  \/ \E r \in Rows, d \in Data : Edit(x, r, d)
  \/ \E r \in Rows : Archive(x, r)

Next == \E x \in Requests : Arrive(x) \/ Step(x) \/ Abort(x)

Spec == Init /\ [][Next]_vars

----------------------------------------------------------------------------
(* Properties.                                                             *)

\* The codes given out are exactly 1 .. next_seq, each to one customer, whatever
\* creations rolled back (allocate_seq: "gap-free, never a duplicate code").
CodesGapFree ==
  /\ \A c \in Customers : status[c] # "absent" => code[c] \in 1 .. next_seq
  /\ \A c, d \in Customers :
       status[c] # "absent" /\ status[d] # "absent" /\ code[c] = code[d] => c = d
  /\ \A n \in 1 .. next_seq :
       \E c \in Customers : status[c] # "absent" /\ code[c] = n

\* An active contact has an active customer: a contact never lands under a
\* customer that is being archived, and the cascade misses none (the FOR SHARE
\* lock of lock_active_customer, the second UPDATE of archive_customer).
NoOrphan ==
  \A k \in Contacts : status[k] = "active" =>
    customer_id[k] \in Customers /\ status[customer_id[k]] = "active"

\* An archived row never changes again, not by an edit that found it active and
\* then waited (status <> 'archived' in every UPDATE).
ArchivedIsFrozen ==
  [][\A r \in Rows : status[r] = "archived" =>
       status'[r] = "archived" /\ data'[r] = data[r]]_vars

\* Concurrent patches of one row compose: a column changes only by the commit
\* of a patch that names it, and to the value it gives (patch_customer and
\* patch_contact compute the new version from the row they have locked).
PatchesCompose ==
  [][\A r \in Rows, f \in Fields :
       status[r] # "absent" /\ data'[r][f] # data[r][f] =>
         \E x \in Requests : /\ req[x].op = "edit"
                             /\ req[x].row = r
                             /\ req[x].fields[f] = data'[r][f] /\ data'[r][f] # None
                             /\ pc'[x] = "idle"]_vars

\* y holds a lock that x waits for.
Blocks(y, x) ==
  \/ pc[x] = "allocate" /\ HoldsSeq(y)
  \/ pc[x] = "share" /\ Holds(y, req[x].row)
  \/ pc[x] = "lock" /\ (Holds(y, req[x].row) \/ Shares(y, req[x].row))
  \/ pc[x] = "cascade" /\ \E k \in pending[x] : Holds(y, k)

\* Requests never wait for one another in a cycle: the counter or the customer
\* comes before contacts, and only an archiving waits for more than one row.
NoDeadlock ==
  \A S \in SUBSET Requests :
    S # {} => \E x \in S : \A y \in S \ {x} : ~Blocks(y, x)

\* The transactions together implement the book.
Book == INSTANCE CustomerBook WITH
  last <- next_seq, number <- code, state <- status, owner <- customer_id

ImplementsBook == Book!Spec
==============================================================================
