---------------------------- MODULE ListingProofs ----------------------------
(***************************************************************************)
(* For any rows, texts, limits and times: a list never meets a row it      *)
(* cannot decode, an address has one account, and whoever reads a list to  *)
(* its end was shown every row that was there all the time, each page      *)
(* bringing it nearer to the end.                                          *)
(***************************************************************************)
EXTENDS Listing, FiniteSetTheorems, TLAPS

USE TextAssumption

----------------------------------------------------------------------------
(* The constructors.                                                       *)

LEMMA NormalText ==
  ASSUME NEW rule, NEW s \in Text
  PROVE  /\ Normal(rule, s) \in Text
         /\ Normal(rule, s).core = s.core
         /\ Normal(rule, s).size = s.size
         /\ Normal(rule, s).fits = s.fits
         /\ Normal(rule, s).pad = IF rule.blanks = "trim" THEN 0 ELSE s.pad
         /\ Normal(rule, s).variant = IF rule.variant = "fold" THEN FALSE ELSE s.variant
BY DEF Normal, Text

LEMMA SameText ==
  ASSUME NEW s \in Text, NEW t \in Text,
         s.core = t.core, s.size = t.size, s.pad = t.pad, s.variant = t.variant,
         s.fits = t.fits
  PROVE  s = t
BY DEF Text

\* What a constructor let through, it gives back as it is.
LEMMA ParseAgain ==
  ASSUME NEW rule, NEW s \in Text, Parse(rule, s) # Refused
  PROVE  Parse(rule, s) \in Text /\ Parse(rule, Parse(rule, s)) = Parse(rule, s)
<1>1. Admits(rule, s) /\ Parse(rule, s) = Normal(rule, s)
  BY DEF Parse
<1>2. Normal(rule, s) \in Text
  BY NormalText
<1>3. Normal(rule, Normal(rule, s)) = Normal(rule, s)
  <2> DEFINE n == Normal(rule, s)
             m == Normal(rule, n)
  <2>1. n \in Text /\ m \in Text
    BY NormalText
  <2>2. m.core = n.core /\ m.size = n.size /\ m.fits = n.fits
    BY <2>1, NormalText
  <2>3. m.pad = n.pad
    <3>1. m.pad = (IF rule.blanks = "trim" THEN 0 ELSE n.pad)
      BY <2>1, NormalText
    <3>2. n.pad = (IF rule.blanks = "trim" THEN 0 ELSE s.pad)
      BY NormalText
    <3> HIDE DEF n, m
    <3> QED
      BY <3>1, <3>2
  <2>4. m.variant = n.variant
    <3>1. m.variant = (IF rule.variant = "fold" THEN FALSE ELSE n.variant)
      BY <2>1, NormalText
    <3>2. n.variant = (IF rule.variant = "fold" THEN FALSE ELSE s.variant)
      BY NormalText
    <3> HIDE DEF n, m
    <3> QED
      BY <3>1, <3>2
  <2> HIDE DEF n, m
  <2>5. m = n
    BY <2>1, <2>2, <2>3, <2>4, SameText
  <2> QED
    BY <2>5 DEF n, m
<1>4. Admits(rule, Normal(rule, s))
  BY <1>1, <1>3 DEF Admits
<1> QED
  BY <1>1, <1>2, <1>3, <1>4 DEF Parse

LEMMA DecodesByColumn ==
  ASSUME NEW columns, NEW v \in [DOMAIN columns -> Text \cup {None}]
  PROVE  Decodes(columns, v)
           <=> \A c \in DOMAIN columns : v[c] = None \/ Parse(columns[c], v[c]) = v[c]
<1>1. Accepted(v)
  BY DEF Accepted
<1>2. Parsed(columns, v) = v
        <=> \A c \in DOMAIN columns : v[c] = None \/ Parse(columns[c], v[c]) = v[c]
  BY DEF Parsed
<1> QED
  BY <1>1, <1>2 DEF Decodes

\* A row as a creation stores it.
LEMMA CreationDecodes ==
  ASSUME NEW columns, NEW row \in [DOMAIN columns -> Text \cup {None}],
         Accepted(Parsed(columns, row))
  PROVE  /\ Parsed(columns, row) \in [DOMAIN columns -> Text \cup {None}]
         /\ Decodes(columns, Parsed(columns, row))
<1>1. \A c \in DOMAIN columns :
        /\ row[c] = None => Parsed(columns, row)[c] = None
        /\ row[c] # None => /\ row[c] \in Text
                            /\ Parsed(columns, row)[c] = Parse(columns[c], row[c])
                            /\ Parse(columns[c], row[c]) # Refused
  BY DEF Parsed, Accepted
<1>2. \A c \in DOMAIN columns : row[c] # None =>
        /\ Parse(columns[c], row[c]) \in Text
        /\ Parse(columns[c], Parse(columns[c], row[c])) = Parse(columns[c], row[c])
  BY <1>1, ParseAgain
<1>3. Parsed(columns, row) \in [DOMAIN columns -> Text \cup {None}]
  BY <1>1, <1>2 DEF Parsed
<1> QED
  BY <1>1, <1>2, <1>3, DecodesByColumn

\* A row as a patch in part leaves it.
LEMMA PatchDecodes ==
  ASSUME NEW columns, NEW old \in [DOMAIN columns -> Text \cup {None}], Decodes(columns, old),
         NEW row \in [DOMAIN columns -> Text \cup {None}], Accepted(Parsed(columns, row)),
         NEW new, new = [c \in DOMAIN columns |->
                           IF row[c] = None THEN old[c] ELSE Parsed(columns, row)[c]]
  PROVE  /\ new \in [DOMAIN columns -> Text \cup {None}]
         /\ Decodes(columns, new)
         /\ \A c \in DOMAIN columns : new[c] = None => old[c] = None
<1>1. \A c \in DOMAIN columns : old[c] = None \/ Parse(columns[c], old[c]) = old[c]
  BY DecodesByColumn
<1>2. /\ Parsed(columns, row) \in [DOMAIN columns -> Text \cup {None}]
      /\ \A c \in DOMAIN columns : \/ Parsed(columns, row)[c] = None
                                  \/ Parse(columns[c], Parsed(columns, row)[c]) = Parsed(columns, row)[c]
  BY CreationDecodes, DecodesByColumn
<1>3. \A c \in DOMAIN columns : row[c] # None => Parsed(columns, row)[c] # None
  <2> SUFFICES ASSUME NEW c \in DOMAIN columns, row[c] # None
               PROVE  Parsed(columns, row)[c] # None
    OBVIOUS
  <2>1. Parsed(columns, row)[c] = Parse(columns[c], row[c]) /\ row[c] \in Text
    BY DEF Parsed
  <2>2. Parse(columns[c], row[c]) = Refused \/ Parse(columns[c], row[c]) \in Text
    BY <2>1, ParseAgain
  <2> QED
    BY <2>1, <2>2
<1>4. new \in [DOMAIN columns -> Text \cup {None}]
  BY <1>2
<1>5. \A c \in DOMAIN columns : new[c] = None \/ Parse(columns[c], new[c]) = new[c]
  BY <1>1, <1>2
<1> QED
  BY <1>3, <1>4, <1>5, DecodesByColumn

\* One address, however it was sent, is stored in one form.
LEMMA OneSpelling ==
  ASSUME NEW s \in Text, NEW t \in Text, s.core = t.core, s.size = t.size,
         Parse(Email, s) # Refused, Parse(Email, t) # Refused
  PROVE  Parse(Email, s) = Parse(Email, t) /\ Parse(Email, s).core = s.core
<1>1. /\ Parse(Email, s) = Normal(Email, s) /\ Normal(Email, s).fits
      /\ Parse(Email, t) = Normal(Email, t) /\ Normal(Email, t).fits
  BY DEF Parse, Admits, Email
<1>2. Normal(Email, s) \in Text /\ Normal(Email, t) \in Text
  BY NormalText
<1>3. Normal(Email, s).fits = Normal(Email, t).fits
  BY <1>1, <1>2 DEF Text
<1>4. Email.blanks = "trim" /\ Email.variant = "fold"
  BY DEF Email
<1>5. /\ Normal(Email, s).pad = 0 /\ Normal(Email, t).pad = 0
      /\ Normal(Email, s).variant = FALSE /\ Normal(Email, t).variant = FALSE
  BY <1>4, NormalText
<1>6. Normal(Email, s).core = s.core /\ Normal(Email, t).core = t.core
  BY NormalText
<1>7. Normal(Email, s).size = s.size /\ Normal(Email, t).size = t.size
  BY NormalText
<1>8. Normal(Email, s) = Normal(Email, t)
  BY <1>2, <1>3, <1>5, <1>6, <1>7, SameText
<1> QED
  BY <1>1, <1>6, <1>8

----------------------------------------------------------------------------
(* The rows.                                                               *)

\* A user's stored address is one that a request sent, in its one form.
UsersInv ==
  table = "users" =>
    \A r \in Rows : status[r] \in {"inserting", "listed"} =>
      \E row \in Creations["users"] :
        /\ row.email \in Text
        /\ Parse(Email, row.email) # Refused
        /\ value[r].email = Parse(Email, row.email)

RowsInv == TypeOK /\ ListNeverFails /\ UsersInv /\ OneAccountPerAddress

LEMMA RowsStart == Init => RowsInv
BY ListingAssumption DEF Init, RowsInv, TypeOK, ListNeverFails, UsersInv, OneAccountPerAddress,
   Listed

LEMMA TableInput ==
  ASSUME TypeOK, NEW row \in Creations[table] \cup Patches[table]
  PROVE  row \in [DOMAIN Columns -> Text \cup {None}]
BY RequestsAssumption DEF TypeOK, Columns

LEMMA InsertStep ==
  ASSUME RowsInv, NEW r \in Rows, NEW row \in Creations[table], Insert(r, row)
  PROVE  RowsInv'
<1> USE DEF RowsInv, Insert
<1>1. row \in [DOMAIN Columns -> Text \cup {None}]
  BY TableInput
<1>2. /\ Parsed(Columns, row) \in [DOMAIN Columns -> Text \cup {None}]
      /\ Decodes(Columns, Parsed(Columns, row))
  BY <1>1, CreationDecodes
<1>3. Columns' = Columns /\ Nullable' = Nullable
  BY DEF Columns, Nullable
<1>4. \A c \in DOMAIN Columns : Parsed(Columns, row)[c] = None => c \in Nullable
  <2> SUFFICES ASSUME NEW c \in DOMAIN Columns, row[c] # None
               PROVE  Parsed(Columns, row)[c] # None
    BY DEF Complete
  <2>1. Parsed(Columns, row)[c] = Parse(Columns[c], row[c]) /\ row[c] \in Text
    BY <1>1 DEF Parsed
  <2>2. Parse(Columns[c], row[c]) = Refused \/ Parse(Columns[c], row[c]) \in Text
    BY <2>1, ParseAgain
  <2> QED
    BY <2>1, <2>2
<1>5. /\ value'[r] = Parsed(Columns, row) /\ status'[r] = "inserting" /\ created_at'[r] = clock
      /\ \A s \in Rows \ {r} :
           value'[s] = value[s] /\ status'[s] = status[s] /\ created_at'[s] = created_at[s]
      /\ status' \in [Rows -> {"absent", "inserting", "listed", "gone"}]
      /\ created_at' \in [Rows -> 0 .. MaxTime]
      /\ UNCHANGED <<table, clock, paging, offset, owed>>
  BY DEF TypeOK, pagerVars
<1>6. TypeOK'
  BY <1>2, <1>3, <1>4, <1>5, ListingAssumption DEF TypeOK
<1>7. ListNeverFails'
  BY <1>2, <1>3, <1>5 DEF ListNeverFails
<1>8. UsersInv'
  <2> SUFFICES ASSUME table = "users"
               PROVE  /\ row.email \in Text
                      /\ Parse(Email, row.email) # Refused
                      /\ Parsed(Columns, row).email = Parse(Email, row.email)
    BY <1>5 DEF UsersInv
  <2>1. Columns = UserColumns /\ Nullable = {}
    BY DEF Columns, Nullable, AllColumns, AllNulls
  <2>2. "email" \in DOMAIN Columns /\ Columns["email"] = Email
    BY <2>1 DEF UserColumns
  <2>3. row["email"] # None
    BY <2>1, <2>2 DEF Complete
  <2>4. row["email"] \in Text /\ Parsed(Columns, row)["email"] = Parse(Email, row["email"])
    BY <1>1, <2>2, <2>3 DEF Parsed
  <2>5. Parsed(Columns, row)["email"] # Refused
    BY <1>2, <2>2
  <2> QED
    BY <2>4, <2>5
<1>9. Listed' = Listed /\ \A s \in Listed : value'[s] = value[s]
  BY <1>5 DEF Listed
<1>10. OneAccountPerAddress'
  BY <1>5, <1>9 DEF OneAccountPerAddress
<1> QED
  BY <1>6, <1>7, <1>8, <1>10

LEMMA CommitInsertStep ==
  ASSUME RowsInv, NEW r \in Rows, CommitInsert(r)
  PROVE  RowsInv'
<1> USE DEF RowsInv, CommitInsert
<1>1. Columns' = Columns /\ Nullable' = Nullable
  BY DEF Columns, Nullable
<1>2. TypeOK' /\ ListNeverFails' /\ UsersInv'
  BY <1>1 DEF TypeOK, ListNeverFails, UsersInv, pagerVars
<1>3. Listed' = Listed \cup {r}
  BY DEF Listed, TypeOK
<1>4. OneAccountPerAddress'
  <2> SUFFICES ASSUME table = "users", NEW s \in Listed,
                      value[s].email.core = value[r].email.core
               PROVE  FALSE
    BY <1>3 DEF OneAccountPerAddress
  <2>1. PICK old \in Creations["users"] :
          /\ old.email \in Text /\ Parse(Email, old.email) # Refused
          /\ value[s].email = Parse(Email, old.email)
    BY DEF UsersInv, Listed
  <2>2. PICK new \in Creations["users"] :
          /\ new.email \in Text /\ Parse(Email, new.email) # Refused
          /\ value[r].email = Parse(Email, new.email)
    BY DEF UsersInv
  <2>3. old.email.core = new.email.core
    BY <2>1, <2>2, OneSpelling
  <2>4. old.email.size = new.email.size
    BY <2>3, CreationsAssumption
  <2>5. value[s].email = value[r].email
    BY <2>1, <2>2, <2>3, <2>4, OneSpelling
  <2> QED
    BY <2>5 DEF Taken
<1> QED
  BY <1>2, <1>4

LEMMA RollbackStep ==
  ASSUME RowsInv, NEW r \in Rows, Rollback(r)
  PROVE  RowsInv'
<1> USE DEF RowsInv, Rollback
<1>1. Columns' = Columns /\ Nullable' = Nullable
  BY DEF Columns, Nullable
<1>2. TypeOK'
  BY <1>1, ListingAssumption DEF TypeOK, pagerVars
<1>3. ListNeverFails' /\ UsersInv'
  BY <1>1 DEF TypeOK, ListNeverFails, UsersInv
<1>4. OneAccountPerAddress'
  BY DEF TypeOK, OneAccountPerAddress, Listed
<1> QED
  BY <1>2, <1>3, <1>4

LEMMA PatchStep ==
  ASSUME RowsInv, NEW r \in Rows, NEW row \in Patches[table], Patch(r, row)
  PROVE  RowsInv'
<1> USE DEF RowsInv, Patch
<1> DEFINE new == [c \in DOMAIN Columns |->
                     IF row[c] = None THEN value[r][c] ELSE Parsed(Columns, row)[c]]
<1>1. Columns' = Columns /\ Nullable' = Nullable
  BY DEF Columns, Nullable
<1>2. value[r] \in [DOMAIN Columns -> Text \cup {None}] /\ Decodes(Columns, value[r])
  BY DEF TypeOK, ListNeverFails
<1>3. row \in [DOMAIN Columns -> Text \cup {None}]
  BY TableInput
<1>4. /\ new \in [DOMAIN Columns -> Text \cup {None}]
      /\ Decodes(Columns, new)
      /\ \A c \in DOMAIN Columns : new[c] = None => value[r][c] = None
  BY <1>2, <1>3, PatchDecodes
<1> HIDE DEF new
<1>5. value' = [value EXCEPT ![r] = new]
  BY DEF new
<1>6. TypeOK'
  BY <1>1, <1>4, <1>5 DEF TypeOK, pagerVars
<1>7. ListNeverFails'
  BY <1>1, <1>4, <1>5 DEF TypeOK, ListNeverFails
<1>8. UsersInv' /\ OneAccountPerAddress'
  BY DEF UsersInv, OneAccountPerAddress
<1> QED
  BY <1>6, <1>7, <1>8

LEMMA ArchiveStep ==
  ASSUME RowsInv, NEW r \in Rows, Archive(r)
  PROVE  RowsInv'
<1> USE DEF RowsInv, Archive
<1>1. Columns' = Columns /\ Nullable' = Nullable
  BY DEF Columns, Nullable
<1>2. TypeOK'
  BY <1>1 DEF TypeOK
<1>3. ListNeverFails'
  BY <1>1 DEF TypeOK, ListNeverFails
<1>4. UsersInv' /\ OneAccountPerAddress'
  BY DEF UsersInv, OneAccountPerAddress
<1> QED
  BY <1>2, <1>3, <1>4

\* Readers change no row.
LEMMA ReadTypes ==
  ASSUME TypeOK, StartPaging \/ Read
  PROVE  /\ UNCHANGED <<tableVars, clock>>
         /\ paging' \in {"idle", "paging", "done"} /\ offset' \in 0 .. MaxOffset
         /\ owed' \subseteq Rows
<1>1. CASE StartPaging
  BY <1>1, ListingAssumption DEF StartPaging, Listed
<1>2. CASE ListContacts
  BY <1>2 DEF TypeOK, ListContacts
<1>3. ASSUME NEW n \in Limits, NextPage(n)
      PROVE  /\ UNCHANGED <<tableVars, clock>>
             /\ paging' \in {"idle", "paging", "done"} /\ offset' \in 0 .. MaxOffset
             /\ owed' \subseteq Rows
  <2>1. PICK rank \in Orders : LET page == {r \in Listed : rank[r] > offset
                                            /\ rank[r] <= offset + ClampLimit(n)} IN
          /\ paging' = IF page = {} THEN "done" ELSE "paging"
          /\ offset' = ClampOffset(offset + Cardinality(page))
          /\ owed' = owed \ page
    BY <1>3 DEF NextPage
  <2> DEFINE page == {r \in Listed : rank[r] > offset /\ rank[r] <= offset + ClampLimit(n)}
  <2>2. page \subseteq Rows
    BY DEF Listed
  <2> HIDE DEF page
  <2>3. Cardinality(page) \in Nat
    BY <2>2, FS_Subset, FS_CardinalityType, ListingAssumption
  <2>4. offset' = ClampOffset(offset + Cardinality(page))
    BY <2>1 DEF page
  <2>5. offset' \in 0 .. MaxOffset
    BY <2>3, <2>4, ListingAssumption DEF TypeOK, ClampOffset
  <2> QED
    BY <1>3, <2>1, <2>5 DEF TypeOK, NextPage
<1> QED
  BY <1>1, <1>2, <1>3 DEF Read

LEMMA RowsStep == RowsInv /\ [Next]_vars => RowsInv'
<1> SUFFICES ASSUME RowsInv, [Next]_vars
             PROVE  RowsInv'
  OBVIOUS
<1>1. ASSUME UNCHANGED tableVars, clock' \in 0 .. MaxTime, clock <= clock',
             paging' \in {"idle", "paging", "done"}, offset' \in 0 .. MaxOffset,
             owed' \subseteq Rows
      PROVE  RowsInv'
  <2>1. Columns' = Columns /\ Nullable' = Nullable /\ Listed' = Listed
    BY <1>1 DEF Columns, Nullable, Listed, tableVars
  <2>2. \A r \in Rows : created_at[r] <= clock => created_at[r] <= clock'
    BY <1>1, ListingAssumption DEF RowsInv, TypeOK
  <2>3. TypeOK'
    BY <1>1, <2>1, <2>2 DEF RowsInv, TypeOK, tableVars
  <2>4. ListNeverFails' /\ UsersInv' /\ OneAccountPerAddress'
    BY <1>1, <2>1 DEF RowsInv, ListNeverFails, UsersInv, OneAccountPerAddress, tableVars
  <2> QED
    BY <2>3, <2>4 DEF RowsInv
<1>2. CASE UNCHANGED vars \/ Tick
  <2>1. /\ UNCHANGED <<tableVars, pagerVars>>
        /\ clock' = clock \/ (clock < MaxTime /\ clock' = clock + 1)
    BY <1>2 DEF vars, Tick
  <2>2. clock \in 0 .. MaxTime
    BY DEF RowsInv, TypeOK
  <2>3. clock' \in 0 .. MaxTime /\ clock <= clock'
    BY <2>1, <2>2, ListingAssumption
  <2> QED
    BY <1>1, <2>1, <2>3 DEF RowsInv, TypeOK, pagerVars
<1>3. CASE StartPaging \/ Read
  <2>1. clock' = clock /\ clock \in 0 .. MaxTime
    BY <1>3, ReadTypes DEF RowsInv, TypeOK
  <2> QED
    BY <1>1, <1>3, <2>1, ReadTypes, ListingAssumption DEF RowsInv
<1>4. ASSUME NEW r \in Rows, NEW row \in Creations[table], Insert(r, row)
      PROVE  RowsInv'
  BY <1>4, InsertStep
<1>5. ASSUME NEW r \in Rows, NEW row \in Patches[table], Patch(r, row)
      PROVE  RowsInv'
  BY <1>5, PatchStep
<1>6. ASSUME NEW r \in Rows, CommitInsert(r) \/ Rollback(r) \/ Archive(r)
      PROVE  RowsInv'
  BY <1>6, CommitInsertStep, RollbackStep, ArchiveStep
<1> QED
  BY <1>2, <1>3, <1>4, <1>5, <1>6 DEF Next

----------------------------------------------------------------------------
(* The pages.                                                              *)

\* The rows that every page has before r.
Ahead(r) == {s \in Listed : Before(s, r)}

\* A row that is owed has at least offset rows before it: no page has passed it.
PagesInv ==
  /\ owed \subseteq Listed
  /\ \A r \in owed : Cardinality(Ahead(r)) >= offset
  /\ PagesMissNobody

LEMMA ListedFinite ==
  /\ Listed \subseteq Rows /\ IsFiniteSet(Listed) /\ Cardinality(Listed) \in Nat
  /\ Cardinality(Listed) <= Cardinality(Rows) /\ Cardinality(Rows) \in Nat
  /\ \A r : IsFiniteSet(Ahead(r)) /\ Cardinality(Ahead(r)) \in Nat
<1>1. Listed \subseteq Rows /\ \A r : Ahead(r) \subseteq Listed
  BY DEF Listed, Ahead
<1> QED
  BY <1>1, FS_Subset, FS_CardinalityType, ListingAssumption

\* ORDER BY created_at DESC, id DESC leaves nothing open: the place of a row is
\* the number of rows before it.
LEMMA BeforeIsTotal ==
  ASSUME TypeOK, NEW r \in Listed, NEW s \in Listed, r # s
  PROVE  Before(r, s) \/ Before(s, r)
BY ListingAssumption DEF TypeOK, Listed, Before

LEMMA EveryPlaceIsTaken ==
  ASSUME NEW rank \in Orders
  PROVE  rank \in Bijection(Listed, 1 .. Cardinality(Listed))
<1>1. rank \in Injection(Listed, 1 .. Cardinality(Listed))
  BY DEF Orders, Injection, IsInjective
<1>2. IsFiniteSet(1 .. Cardinality(Listed))
      /\ Cardinality(1 .. Cardinality(Listed)) = Cardinality(Listed)
  BY ListedFinite, FS_Interval
<1>3. rank \in Surjection(Listed, 1 .. Cardinality(Listed))
  BY <1>1, <1>2, FS_Injection
<1> QED
  BY <1>1, <1>3 DEF Bijection

LEMMA PlaceIsCount ==
  ASSUME TypeOK, NEW rank \in Orders, NEW r \in Listed
  PROVE  Cardinality(Ahead(r)) = rank[r] - 1
<1>1. /\ rank \in [Listed -> 1 .. Cardinality(Listed)]
      /\ \A s, t \in Listed : s # t => rank[s] # rank[t] /\ (Before(s, t) => rank[s] < rank[t])
  BY DEF Orders
<1>2. \A s \in Listed : rank[s] \in Nat /\ 1 <= rank[s] /\ rank[s] <= Cardinality(Listed)
  BY <1>1, ListedFinite
<1>3. \A s \in Listed : s \in Ahead(r) <=> rank[s] < rank[r]
  <2>1. ~Before(r, r)
    BY ListingAssumption DEF TypeOK, Listed, Before
  <2> SUFFICES ASSUME NEW s \in Listed, s # r
               PROVE  Before(s, r) <=> rank[s] < rank[r]
    BY <1>2, <2>1 DEF Ahead
  <2> QED
    BY <1>1, <1>2, BeforeIsTotal
<1> DEFINE g == [s \in Ahead(r) |-> rank[s]]
<1>4. g \in Injection(Ahead(r), 1 .. (rank[r] - 1))
  BY <1>1, <1>2, <1>3 DEF Injection, IsInjective, Ahead
<1>5. g \in Surjection(Ahead(r), 1 .. (rank[r] - 1))
  <2> SUFFICES ASSUME NEW n \in 1 .. (rank[r] - 1)
               PROVE  \E s \in Ahead(r) : rank[s] = n
    BY <1>4 DEF Surjection, Injection
  <2>1. n \in 1 .. Cardinality(Listed) /\ n < rank[r]
    BY <1>2, ListedFinite
  <2>2. PICK s \in Listed : rank[s] = n
    BY <2>1, EveryPlaceIsTaken DEF Bijection, Surjection
  <2> QED
    BY <1>3, <2>1, <2>2
<1>6. ExistsBijection(Ahead(r), 1 .. (rank[r] - 1))
  BY <1>4, <1>5 DEF ExistsBijection, Bijection
<1>7. Cardinality(1 .. (rank[r] - 1)) = Cardinality(Ahead(r))
  BY <1>6, ListedFinite, FS_Bijection
<1>8. Cardinality(1 .. (rank[r] - 1)) = rank[r] - 1
  BY <1>2, FS_Interval
<1> QED
  BY <1>7, <1>8

LEMMA LimitIsPositive ==
  ASSUME NEW n \in Limits
  PROVE  ClampLimit(n) \in Nat /\ ClampLimit(n) >= 1
BY ListingAssumption DEF ClampLimit

LEMMA NextPageStep ==
  ASSUME TypeOK, PagesInv, NEW n \in Limits, NextPage(n)
  PROVE  PagesInv'
<1>1. PICK rank \in Orders : LET page == {r \in Listed : rank[r] > offset
                                          /\ rank[r] <= offset + ClampLimit(n)} IN
        /\ paging' = IF page = {} THEN "done" ELSE "paging"
        /\ offset' = ClampOffset(offset + Cardinality(page))
        /\ owed' = owed \ page
  BY DEF NextPage
<1> DEFINE page == {r \in Listed : rank[r] > offset /\ rank[r] <= offset + ClampLimit(n)}
           m == ClampLimit(n)
<1>2. m \in Nat /\ m >= 1 /\ offset \in Nat
  BY LimitIsPositive, ListingAssumption DEF TypeOK
<1>3. \A r \in Listed : rank[r] \in Nat /\ rank[r] = Cardinality(Ahead(r)) + 1
  BY PlaceIsCount, ListedFinite DEF Orders
<1>4. Listed' = Listed /\ \A r : Ahead(r)' = Ahead(r)
  BY DEF NextPage, tableVars, Listed, Ahead, Before
<1>5. \A r \in owed : r \in Listed /\ rank[r] > offset
  BY <1>2, <1>3, ListedFinite DEF PagesInv
<1>6. Cardinality(page) \in Nat /\ Cardinality(page) <= m
  <2> DEFINE g == [r \in page |-> rank[r]]
             places == (offset + 1) .. (offset + m)
  <2>1. g \in Injection(page, places)
    BY <1>2, <1>3 DEF Injection, IsInjective, Orders
  <2>2. IsFiniteSet(places) /\ Cardinality(places) = m
    BY <1>2, FS_Interval
  <2>3. IsFiniteSet(page) /\ Cardinality(page) <= Cardinality(places)
    <3> HIDE DEF g, page, places
    <3> QED
      BY <2>1, <2>2, FS_Injection
  <2> QED
    BY <2>2, <2>3, FS_CardinalityType
<1>7. offset' \in Nat /\ offset' <= offset + Cardinality(page)
  BY <1>1, <1>2, <1>6, ListingAssumption DEF ClampOffset
<1>8. \A r \in owed' : Cardinality(Ahead(r)) >= offset'
  <2> SUFFICES ASSUME NEW r \in owed, r \notin page
               PROVE  Cardinality(Ahead(r)) >= offset'
    BY <1>1
  <2>1. rank[r] > offset + m
    BY <1>2, <1>3, <1>5
  <2>2. Cardinality(Ahead(r)) >= offset + m
    BY <1>2, <1>3, <1>5, <2>1, ListedFinite
  <2> QED
    BY <1>2, <1>6, <1>7, <2>2, ListedFinite
<1>9. page = {} => owed = {}
  <2> SUFFICES ASSUME NEW r \in owed
               PROVE  page # {}
    OBVIOUS
  <2>1. offset + 1 \in 1 .. Cardinality(Listed)
    BY <1>2, <1>5, ListedFinite DEF Orders
  <2>2. PICK s \in Listed : rank[s] = offset + 1
    BY <2>1, EveryPlaceIsTaken DEF Bijection, Surjection
  <2> QED
    BY <1>2, <2>2
<1>10. PagesMissNobody'
  BY <1>1, <1>9 DEF PagesMissNobody
<1> QED
  BY <1>1, <1>4, <1>8, <1>10 DEF PagesInv

\* The one list that is not paged shows all there is.
FewContacts == table = "contacts" => Cardinality(Listed) <= MaxContacts

LEMMA ListContactsStep ==
  ASSUME TypeOK, PagesInv, FewContacts, ListContacts
  PROVE  PagesInv'
<1>1. PICK page \in SUBSET Listed :
        /\ page = Listed \/ Cardinality(page) = MaxContacts
        /\ owed' = owed \ page
  BY DEF ListContacts
<1>2. Cardinality(page) = MaxContacts => page = Listed
  <2>1. /\ Cardinality(page) \in Nat /\ Cardinality(page) <= Cardinality(Listed)
        /\ Cardinality(Listed) = Cardinality(page) => page = Listed
    BY ListedFinite, FS_Subset, FS_CardinalityType
  <2>2. Cardinality(Listed) <= MaxContacts /\ MaxContacts \in Nat
    BY ListingAssumption DEF FewContacts, ListContacts
  <2> QED
    BY <2>1, <2>2, ListedFinite
<1>3. owed' = {}
  BY <1>1, <1>2 DEF PagesInv
<1> QED
  BY <1>3 DEF PagesInv, PagesMissNobody

\* Rows that appear move others back, never forward.
LEMMA MoreRowsStep ==
  ASSUME TypeOK, PagesInv, Listed \subseteq Listed', UNCHANGED pagerVars,
         \A r, s \in Listed : Before(s, r) => Before(s, r)',
         \A r : IsFiniteSet(Ahead(r)')
  PROVE  PagesInv'
<1>1. ASSUME NEW r \in owed
      PROVE  Cardinality(Ahead(r)') >= offset
  <2>1. Ahead(r) \subseteq Ahead(r)'
    BY <1>1 DEF PagesInv, Ahead
  <2>2. Cardinality(Ahead(r)) <= Cardinality(Ahead(r)') /\ Cardinality(Ahead(r)') \in Nat
    BY <2>1, FS_Subset, FS_CardinalityType
  <2>3. offset \in Nat
    BY ListingAssumption DEF TypeOK
  <2> QED
    BY <1>1, <2>2, <2>3, ListedFinite DEF PagesInv
<1> QED
  BY <1>1 DEF PagesInv, PagesMissNobody, pagerVars

LEMMA PagesStep == TypeOK /\ PagesInv /\ FewContacts /\ [Next]_vars => PagesInv'
<1> SUFFICES ASSUME TypeOK, PagesInv, FewContacts, [Next]_vars
             PROVE  PagesInv'
  OBVIOUS
<1>1. ASSUME UNCHANGED pagerVars, Listed \subseteq Listed', Listed' \subseteq Rows,
             \A r \in Listed : created_at'[r] = created_at[r]
      PROVE  PagesInv'
  <2>1. \A r, s \in Listed : Before(s, r) => Before(s, r)'
    BY <1>1 DEF Before
  <2>2. \A r : Ahead(r)' \subseteq Rows
    BY <1>1 DEF Ahead
  <2>3. \A r : IsFiniteSet(Ahead(r)')
    BY <2>2, FS_Subset, ListingAssumption
  <2> QED
    BY <1>1, <2>1, <2>3, MoreRowsStep
<1>2. CASE UNCHANGED vars \/ Tick
  BY <1>1, <1>2 DEF vars, Tick, tableVars, Listed
<1>3. ASSUME NEW r \in Rows, NEW row \in Creations[table], Insert(r, row)
      PROVE  PagesInv'
  BY <1>1, <1>3 DEF TypeOK, Insert, Listed
<1>4. ASSUME NEW r \in Rows, NEW row \in Patches[table], Patch(r, row)
      PROVE  PagesInv'
  BY <1>1, <1>4 DEF TypeOK, Patch, Listed
<1>5. ASSUME NEW r \in Rows, CommitInsert(r) \/ Rollback(r)
      PROVE  PagesInv'
  BY <1>1, <1>5 DEF TypeOK, CommitInsert, Rollback, Listed
<1>6. ASSUME NEW r \in Rows, Archive(r)
      PROVE  PagesInv'
  BY <1>6 DEF Archive, PagesInv, PagesMissNobody
<1>7. CASE StartPaging
  <2>1. \A r : Ahead(r)' \subseteq Rows
    BY <1>7 DEF Ahead, Listed, StartPaging, tableVars
  <2>2. \A r : Cardinality(Ahead(r)') \in Nat
    BY <2>1, FS_Subset, FS_CardinalityType, ListingAssumption
  <2> QED
    BY <1>7, <2>2 DEF StartPaging, tableVars, Listed, PagesInv, PagesMissNobody
<1>8. CASE ListContacts
  BY <1>8, ListContactsStep
<1>9. ASSUME NEW n \in Limits, NextPage(n)
      PROVE  PagesInv'
  BY <1>9, NextPageStep
<1> QED
  BY <1>2, <1>3, <1>4, <1>5, <1>6, <1>7, <1>8, <1>9 DEF Next, Read

LEMMA Invariant == Spec => []RowsInv
<1> QED
  BY RowsStart, RowsStep, PTL DEF Spec

LEMMA PagesInvariant == Spec /\ []FewContacts => []PagesInv
<1>1. Init => PagesInv
  BY DEF Init, PagesInv, PagesMissNobody
<1>2. RowsInv /\ PagesInv /\ FewContacts /\ [Next]_vars => PagesInv'
  BY PagesStep DEF RowsInv
<1> QED
  BY <1>1, <1>2, Invariant, PTL DEF Spec

----------------------------------------------------------------------------
(* The theorems.                                                           *)

\* Rows and the reader keep their types, and no required column becomes NULL (the
\* migrations and the Option fields).
THEOREM TypeCorrect == Spec => []TypeOK
<1>1. RowsInv => TypeOK
  BY DEF RowsInv
<1> QED
  BY <1>1, Invariant, PTL

\* Whatever rules the columns have, a row that was written can be listed: each
\* constructor gives back what it let through, and a patch in part keeps that.
THEOREM NeverFails == Spec => []ListNeverFails
<1>1. RowsInv => ListNeverFails
  BY DEF RowsInv
<1> QED
  BY <1>1, Invariant, PTL

\* However many creations send one address, in any ASCII case, one commits (Email
\* and UNIQUE (tenant_id, email)).
THEOREM OneAccount == Spec => []OneAccountPerAddress
<1>1. RowsInv => OneAccountPerAddress
  BY DEF RowsInv
<1> QED
  BY <1>1, Invariant, PTL

\* With any number of rows, any limits and any largest offset, whoever pages to the
\* end was shown all that was listed from the beginning (ORDER BY created_at DESC,
\* id DESC).  The list of contacts, which is one page, is so only while the
\* customer has no more of them than MAX_CONTACTS_PER_CUSTOMER.
THEOREM MissNobody == Spec /\ []FewContacts => []PagesMissNobody
<1>1. PagesInv => PagesMissNobody
  BY DEF PagesInv
<1> QED
  BY <1>1, PagesInvariant, PTL

\* The lists that are paged need no such bound: the table never changes.
THEOREM PagedListsMissNobody ==
  Spec /\ table # "contacts" => []PagesMissNobody
<1>1. table # "contacts" /\ [Next]_vars => (table # "contacts")'
  BY DEF Next, vars, tableVars, Tick, Insert, CommitInsert, Rollback, Patch, Archive,
         StartPaging, Read, NextPage, ListContacts
<1>2. table # "contacts" => FewContacts
  BY DEF FewContacts
<1> QED
  BY <1>1, <1>2, MissNobody, PTL DEF Spec

\* A page takes the client on, or to the end if there is nothing more, unless its
\* offset is the largest one.
PageAdvances ==
  IF offset < Cardinality(Listed)
  THEN paging' = "paging" /\ (offset' > offset \/ offset = MaxOffset)
  ELSE paging' = "done"

LEMMA NextPageAdvances ==
  ASSUME TypeOK, NEW n \in Limits, NextPage(n)
  PROVE  PageAdvances
<1>1. PICK rank \in Orders :
        LET page == {r \in Listed : rank[r] > offset
                                    /\ rank[r] <= offset + ClampLimit(n)} IN
        /\ paging' = IF page = {} THEN "done" ELSE "paging"
        /\ offset' = ClampOffset(offset + Cardinality(page))
  BY DEF NextPage
<1> DEFINE page == {r \in Listed : rank[r] > offset
                                   /\ rank[r] <= offset + ClampLimit(n)}
<1>2. MaxOffset \in Nat /\ offset \in Nat /\ offset <= MaxOffset
  BY ListingAssumption DEF TypeOK
<1>3. Cardinality(Listed) \in Nat /\ ClampLimit(n) \in Nat /\ ClampLimit(n) >= 1
  BY ListedFinite, LimitIsPositive
<1>4. CASE offset < Cardinality(Listed)
  <2>1. offset + 1 \in 1 .. Cardinality(Listed)
    BY <1>2, <1>3, <1>4
  <2>2. PICK r \in Listed : rank[r] = offset + 1
    BY <2>1, EveryPlaceIsTaken DEF Bijection, Surjection
  <2>3. r \in page
    BY <1>2, <1>3, <2>2
  <2>4. page \subseteq Listed
    OBVIOUS
  <2>5. Cardinality(page) \in Nat /\ Cardinality(page) > 0
    <3> HIDE DEF page
    <3>1. IsFiniteSet(page)
      BY <2>4, ListedFinite, FS_Subset
    <3>2. Cardinality(page) \in Nat /\ Cardinality(page) # 0
      BY <2>3, <3>1, FS_CardinalityType, FS_EmptySet
    <3> QED
      BY <3>2
  <2>6. paging' = "paging" /\ offset' = ClampOffset(offset + Cardinality(page))
    BY <1>1, <2>3
  <2> HIDE DEF page
  <2>7. offset' > offset \/ offset = MaxOffset
    BY <1>2, <2>5, <2>6 DEF ClampOffset
  <2> QED
    BY <1>4, <2>6, <2>7 DEF PageAdvances
<1>5. CASE ~(offset < Cardinality(Listed))
  <2>1. \A r \in Listed : rank[r] \in Nat /\ rank[r] <= Cardinality(Listed)
    BY <1>3 DEF Orders
  <2>2. page = {}
    BY <1>2, <1>3, <1>5, <2>1
  <2> QED
    BY <1>1, <1>5, <2>2 DEF PageAdvances
<1> QED
  BY <1>4, <1>5

\* Below the largest offset no page is asked for twice and none is empty while rows
\* are left, whatever limits the client sends (clamp_limit in the routes, LIMIT and
\* OFFSET in the lists).  Such a client comes to the end (PagingEnds), unless the
\* list is longer than that offset.
THEOREM PagesAdvance ==
  Spec => [][\A n \in Limits : NextPage(n) => PageAdvances]_vars
<1>1. TypeOK => \A n \in Limits : NextPage(n) => PageAdvances
  BY NextPageAdvances
<1> QED
  BY <1>1, TypeCorrect, PTL DEF Spec
===============================================================================
