-------------------------------- MODULE Listing --------------------------------
(***************************************************************************)
(* The lists (GET /customers, /users, /assets and a customer's contacts):  *)
(* rows that requests insert, patch and archive, and a client that reads a *)
(* list page by page, from offset 0 until a page is empty, while they do.  *)
(* The list of contacts is one page.                                       *)
(*                                                                         *)
(* A row's created_at is now() of the transaction that inserts it, its     *)
(* start; the row appears when the transaction commits.  One table at a    *)
(* time, of one tenant.                                                    *)
(***************************************************************************)
EXTENDS Fields, Integers, FiniteSets

CONSTANTS
  Rows,         \* rows that may be inserted, in the order of their random ids
  Creations,    \* for each table, the texts that requests send to create a row
  Patches,      \* for each table, those that requests send to change one
  Limits,       \* the limits that clients ask for, 0 for none
  MaxPerPage, DefaultPerPage, MaxOffset,
  MaxContacts,  \* MAX_CONTACTS_PER_CUSTOMER
  MaxTime       \* last reading of the clock (bound)

Tables == {"customers", "contacts", "users", "assets"}

AllColumns == [
  customers |-> CustomerColumns, contacts |-> ContactColumns,
  users |-> UserColumns, assets |-> AssetColumns ]

AllNulls == [
  customers |-> CustomerNulls, contacts |-> ContactNulls,
  users |-> {}, assets |-> AssetNulls ]

\* What is left out is None.
ASSUME RequestsAssumption ==
  \A t \in Tables :
    Creations[t] \cup Patches[t] \subseteq [DOMAIN AllColumns[t] -> Text \cup {None}]

\* Two spellings of an address have one length.
ASSUME CreationsAssumption ==
  \A row, other \in Creations["users"] :
    row.email.core = other.email.core => row.email.size = other.email.size

\* A list may be longer than the largest offset, and a customer may have more
\* contacts than their list shows: nothing in the code sees to either.
ASSUME ListingAssumption ==
  /\ Rows \subseteq Nat
  /\ Limits \subseteq Int
  /\ {MaxPerPage, DefaultPerPage, MaxOffset, MaxContacts, MaxTime} \subseteq Nat
  /\ 0 < DefaultPerPage /\ DefaultPerPage <= MaxPerPage
  /\ IsFiniteSet(Rows)

VARIABLES
  table,               \* never changes
  status, created_at, value,  \* the rows
  clock,
  paging, offset,      \* the client, "idle", "paging" or "done"
  owed                 \* History: rows it must still be shown

tableVars == <<table, status, created_at, value>>
pagerVars == <<paging, offset, owed>>
vars == <<tableVars, clock, pagerVars>>

Columns == AllColumns[table]
Nullable == AllNulls[table]

TypeOK ==
  /\ table \in Tables
  /\ status \in [Rows -> {"absent", "inserting", "listed", "gone"}]
  /\ created_at \in [Rows -> 0 .. MaxTime]
  /\ value \in [Rows -> [DOMAIN Columns -> Text \cup {None}] \cup {None}]
  /\ \A r \in Rows :
       \/ status[r] \in {"absent", "gone"} /\ value[r] = None
       \/ /\ status[r] \in {"inserting", "listed"}
          /\ created_at[r] <= clock
          /\ value[r] \in [DOMAIN Columns -> Text \cup {None}]
          /\ \A c \in DOMAIN Columns : value[r][c] = None => c \in Nullable
  /\ clock \in 0 .. MaxTime
  /\ paging \in {"idle", "paging", "done"}
  /\ offset \in 0 .. MaxOffset
  /\ owed \subseteq Rows

Init ==
  /\ table \in Tables
  /\ status = [r \in Rows |-> "absent"]
  /\ created_at = [r \in Rows |-> 0]
  /\ value = [r \in Rows |-> None]
  /\ clock = 0
  /\ paging = "idle"
  /\ offset = 0
  /\ owed = {}

Tick ==
  /\ clock < MaxTime
  /\ clock' = clock + 1
  /\ UNCHANGED <<tableVars, pagerVars>>

----------------------------------------------------------------------------
(* The rows.                                                               *)

Listed == {r \in Rows : status[r] = "listed"}

\* No column that the table declares NOT NULL is missing.
Complete(row) == \A c \in DOMAIN Columns : row[c] = None => c \in Nullable

\* A text that a constructor refuses, or one that is missing, ends the request
\* before it has begun.
Insert(r, row) ==
  /\ status[r] = "absent"
  /\ Complete(row)
  /\ Accepted(Parsed(Columns, row))
  /\ status' = [status EXCEPT ![r] = "inserting"]
  /\ created_at' = [created_at EXCEPT ![r] = clock]
  /\ value' = [value EXCEPT ![r] = Parsed(Columns, row)]
  /\ UNCHANGED <<table, clock, pagerVars>>

\* UNIQUE (tenant_id, email).
Taken(r) ==
  table = "users" /\ \E s \in Listed : value[s].email = value[r].email

CommitInsert(r) ==
  /\ status[r] = "inserting"
  /\ ~Taken(r)
  /\ status' = [status EXCEPT ![r] = "listed"]
  /\ UNCHANGED <<table, created_at, value, clock, pagerVars>>

\* EmailTaken, a fault or a timeout.
Rollback(r) ==
  /\ status[r] = "inserting"
  /\ status' = [status EXCEPT ![r] = "absent"]
  /\ created_at' = [created_at EXCEPT ![r] = 0]
  /\ value' = [value EXCEPT ![r] = None]
  /\ UNCHANGED <<table, clock, pagerVars>>

\* Fault: what the body leaves out is set to NULL.
PatchWhole(r, row) ==
  /\ table \in {"customers", "contacts"}
  /\ status[r] = "listed"
  /\ Accepted(Parsed(Columns, row))
  /\ value' = [value EXCEPT ![r] = Parsed(Columns, row)]
  /\ UNCHANGED <<table, status, created_at, clock, pagerVars>>

\* COALESCE keeps what the body leaves out.
Patch(r, row) ==
  /\ table \in {"customers", "contacts"}
  /\ status[r] = "listed"
  /\ Accepted(Parsed(Columns, row))
  /\ value' = [value EXCEPT ![r] = [c \in DOMAIN Columns |->
                 IF row[c] = None THEN value[r][c] ELSE Parsed(Columns, row)[c]]]
  /\ UNCHANGED <<table, status, created_at, clock, pagerVars>>

\* An archiving, or an asset's soft_delete; users stay.  The pages to come
\* shift: nothing is owed any more.
Archive(r) ==
  /\ table # "users"
  /\ status[r] = "listed"
  /\ status' = [status EXCEPT ![r] = "gone"]
  /\ value' = [value EXCEPT ![r] = None]
  /\ owed' = {}
  /\ UNCHANGED <<table, created_at, clock, paging, offset>>

----------------------------------------------------------------------------
(* The list.                                                               *)

\* Fault: ORDER BY created_at DESC.
BeforeByTime(r, s) == created_at[r] > created_at[s]

\* ORDER BY created_at DESC, id DESC.
Before(r, s) ==
  \/ created_at[r] > created_at[s]
  \/ created_at[r] = created_at[s] /\ r > s

\* The orders in which the rows may come; what ORDER BY leaves open, each query
\* decides for itself.
Orders ==
  {rank \in [Listed -> 1 .. Cardinality(Listed)] :
     \A r, s \in Listed : r # s => rank[r] # rank[s] /\ (Before(r, s) => rank[r] < rank[s])}

ClampLimit(n) ==
  IF n > 0 THEN (IF n < MaxPerPage THEN n ELSE MaxPerPage) ELSE DefaultPerPage

\* Fault: the largest offset is the first one refused.
ClampOffsetBelow(n) == IF n < MaxOffset THEN n ELSE MaxOffset - 1

ClampOffset(n) == IF n < MaxOffset THEN n ELSE MaxOffset

StartPaging ==
  /\ paging # "paging"
  /\ paging' = "paging"
  /\ offset' = 0
  /\ owed' = Listed
  /\ UNCHANGED <<tableVars, clock>>

\* One row that does not decode fails the whole page.  offset is the one that
\* the query will use.
NextPage(n) ==
  /\ table # "contacts"
  /\ paging = "paging"
  /\ \E rank \in Orders :
       LET page == {r \in Listed : rank[r] > offset
                                   /\ rank[r] <= offset + ClampLimit(n)} IN
       /\ \A r \in page : Decodes(Columns, value[r])
       /\ paging' = IF page = {} THEN "done" ELSE "paging"
       /\ offset' = ClampOffset(offset + Cardinality(page))
       /\ owed' = owed \ page
  /\ UNCHANGED <<tableVars, clock>>

\* Whatever comes after the first MAX_CONTACTS_PER_CUSTOMER is not shown.
ListContacts ==
  /\ table = "contacts"
  /\ paging = "paging"
  /\ \E page \in SUBSET Listed :
       /\ \/ page = Listed /\ Cardinality(page) <= MaxContacts
          \/ Cardinality(page) = MaxContacts
       /\ \A r \in page : Decodes(Columns, value[r])
       /\ owed' = owed \ page
  /\ paging' = "done"
  /\ UNCHANGED <<tableVars, clock, offset>>

Read == ListContacts \/ \E n \in Limits : NextPage(n)

----------------------------------------------------------------------------
Next ==
  \/ Tick
  \/ \E r \in Rows :
       \/ \E row \in Creations[table] : Insert(r, row)
       \/ CommitInsert(r)
       \/ Rollback(r)
       \/ \E row \in Patches[table] : Patch(r, row)
       \/ Archive(r)
  \/ StartPaging
  \/ Read

Spec == Init /\ [][Next]_vars

\* A client that reads a list asks for its next page.
FairSpec == Spec /\ WF_vars(Read)

----------------------------------------------------------------------------
(* Properties.                                                             *)

\* What the constructors let through when a row is written, the same ones give
\* back unchanged when it is listed: no stored row, created or patched in part,
\* fails the lists it is in (the try_from of a row and row_to_view).
ListNeverFails ==
  \A r \in Rows : status[r] \in {"inserting", "listed"} => Decodes(Columns, value[r])

\* A tenant has one account for an address, however its ASCII letters were
\* capitalised (to_ascii_lowercase leaves others alone) and between whatever blanks
\* it was sent, by however many creations at once (Email before the unique index).
OneAccountPerAddress ==
  table = "users" =>
    \A r, s \in Listed : value[r].email.core = value[s].email.core => r = s

\* A client that read a list to its end was shown every row that it had when the
\* client began, unless one left the list meanwhile: rows that are inserted, or
\* that commit late, with an old created_at, shift no other row out of the pages
\* to come.  (Not the contacts beyond MAX_CONTACTS_PER_CUSTOMER: no list has them.)
PagesMissNobody == paging = "done" => owed = {}

\* Such a client comes to the end, though offsets are clamped: not if the list
\* were longer than the largest offset, whose page it would then get again and
\* again.
PagingEnds == paging = "paging" ~> paging = "done"
===============================================================================
