-------------------------------- MODULE Fields --------------------------------
(***************************************************************************)
(* The values the program stores (src/backend/src/domain, crm/model.rs,    *)
(* assets/model.rs).  Each newtype has one constructor, which parses what a *)
(* client sends and what a row holds.  The tables leave values to it: their *)
(* one CHECK (assets.size_bytes > 0) asks less than ByteSize does.         *)
(*                                                                         *)
(* A text is what the constructors tell apart; a newtype is its rule.      *)
(***************************************************************************)
EXTENDS Naturals

CONSTANTS
  Cores,    \* texts up to their spelling and the blanks around them
  Refused,  \* the error of a constructor
  None      \* NULL, an absent JSON key

Text == [
  core    : Cores,
  size    : Nat,      \* its bytes without the blanks around it; a number's value
  pad     : Nat,      \* the bytes of those blanks
  variant : BOOLEAN,  \* not in normal spelling
  fits    : BOOLEAN   \* of the form the field asks for
]

Rule == [
  blanks : {"trim", "keep", "refuse"},    \* around the text
  variant : {"fold", "keep", "refuse"},   \* what is done with a spelling
  formed : BOOLEAN,                       \* whether it asks for a form
  min : Nat, max : Nat                    \* bytes, or a number's value
]

ASSUME TextAssumption == Refused \notin Text /\ None \notin Text /\ None # Refused

Normal(rule, s) ==
  [s EXCEPT !.pad = IF rule.blanks = "trim" THEN 0 ELSE @,
            !.variant = IF rule.variant = "fold" THEN FALSE ELSE @]

\* Fault: the checks see the text before it is trimmed.
AdmitsUntrimmed(rule, s) ==
  /\ s.size + s.pad \in rule.min .. rule.max
  /\ rule.formed => s.fits

Admits(rule, s) ==
  LET n == Normal(rule, s) IN
  /\ n.size + n.pad \in rule.min .. rule.max
  /\ rule.blanks = "refuse" => n.pad = 0
  /\ rule.variant = "refuse" => ~n.variant
  /\ rule.formed => n.fits

Parse(rule, s) == IF Admits(rule, s) THEN Normal(rule, s) ELSE Refused

----------------------------------------------------------------------------
(* The newtypes.                                                           *)

\* The request's body is no longer.
MAX_BODY_BYTES == 2 * 1024 * 1024

\* bounded, in domain/settings.rs and in crm/model.rs.
Bounded(n) ==
  [blanks |-> "trim", variant |-> "keep", formed |-> FALSE, min |-> 1, max |-> n]

\* A UUID that is not nil, in any of its spellings.
Id ==
  [blanks |-> "refuse", variant |-> "fold", formed |-> TRUE, min |-> 1, max |-> MAX_BODY_BYTES]

\* One of a fixed set of words.
Label ==
  [blanks |-> "refuse", variant |-> "refuse", formed |-> TRUE, min |-> 1, max |-> MAX_BODY_BYTES]

Number(m, n) ==
  [blanks |-> "refuse", variant |-> "refuse", formed |-> FALSE, min |-> m, max |-> n]

TenantId == Id
AssetId == Id
CustomerId == Id
ContactId == Id
UserId == Id

RefreshTokenId == Id

\* A tenant's id, a dot and 32 bytes in base64: refresh and reset tokens.
OpaqueToken ==
  [blanks |-> "refuse", variant |-> "fold", formed |-> TRUE, min |-> 1, max |-> 128]

TenantSlug ==
  [blanks |-> "keep", variant |-> "keep", formed |-> FALSE, min |-> 1, max |-> 64]

\* Fault: the case of an address is left as it was sent.
EmailAsSent ==
  [blanks |-> "trim", variant |-> "keep", formed |-> TRUE, min |-> 1, max |-> 254]

\* ASCII capitals become small letters.
Email ==
  [blanks |-> "trim", variant |-> "fold", formed |-> TRUE, min |-> 1, max |-> 254]

DisplayName == Bounded(128)
Role == Label

PlaintextPassword ==
  [blanks |-> "keep", variant |-> "keep", formed |-> FALSE, min |-> 12, max |-> 256]

LegalName == Bounded(200)
UnitOfMeasure == Bounded(32)
TaxCode == Bounded(20)
Address == Bounded(300)
Phone == Bounded(32)
EmailAddress == Bounded(254)
LogoRef == Bounded(512)

\* Capitals only.
CurrencyCode ==
  [blanks |-> "refuse", variant |-> "refuse", formed |-> TRUE, min |-> 3, max |-> 3]

TaxRateBps == Number(0, 10000)

CustomerName == Bounded(200)
ContactName == Bounded(128)
ContactTitle == Bounded(100)
Notes == Bounded(2000)

\* CS and a number, in the one spelling that from_seq gives it.
CustomerCode ==
  [blanks |-> "refuse", variant |-> "refuse", formed |-> TRUE, min |-> 5, max |-> 21]

RecordStatus == Label

\* The parameters behind the type are dropped.
ContentType ==
  [blanks |-> "trim", variant |-> "fold", formed |-> TRUE, min |-> 1, max |-> MAX_BODY_BYTES]

\* No path separator and no control byte.
FileName ==
  [blanks |-> "trim", variant |-> "keep", formed |-> TRUE, min |-> 1, max |-> 255]

ByteSize == Number(1, 512 * 1024 * 1024)

\* Small hexadecimal digits.
Sha256Hex ==
  [blanks |-> "refuse", variant |-> "refuse", formed |-> TRUE, min |-> 64, max |-> 64]

StorageKey ==
  [blanks |-> "keep", variant |-> "keep", formed |-> TRUE, min |-> 1, max |-> 1024]

AssetStatus == Label

----------------------------------------------------------------------------
(* The rows.                                                               *)

CustomerColumns == [
  id |-> CustomerId, tenant_id |-> TenantId, code |-> CustomerCode,
  name |-> CustomerName, tax_code |-> TaxCode, address |-> Address,
  phone |-> Phone, email |-> EmailAddress, notes |-> Notes, status |-> RecordStatus ]

ContactColumns == [
  id |-> ContactId, tenant_id |-> TenantId, customer_id |-> CustomerId,
  name |-> ContactName, title |-> ContactTitle, email |-> EmailAddress,
  phone |-> Phone, status |-> RecordStatus ]

UserColumns == [
  id |-> UserId, email |-> Email, display_name |-> DisplayName, role |-> Role ]

AssetColumns == [
  id |-> AssetId, tenant_id |-> TenantId, storage_key |-> StorageKey,
  original_name |-> FileName, content_type |-> ContentType, size_bytes |-> ByteSize,
  checksum_sha256 |-> Sha256Hex, status |-> AssetStatus ]

SettingsColumns == [
  legal_name |-> LegalName, tax_code |-> TaxCode, address |-> Address,
  phone |-> Phone, email |-> EmailAddress, logo_url |-> LogoRef,
  currency |-> CurrencyCode, tax_rate_bps |-> TaxRateBps, default_unit |-> UnitOfMeasure ]

RefreshColumns == [ id |-> RefreshTokenId, user_id |-> UserId, role |-> Role ]

\* Not rows: the bodies of POST /auth/login and /auth/password/reset.
LoginColumns == [
  tenant_slug |-> TenantSlug, email |-> Email, password |-> PlaintextPassword ]
ResetColumns == [ token |-> OpaqueToken, new_password |-> PlaintextPassword ]

\* The columns that may be NULL, by the migrations and the Option fields.
CustomerNulls == {"tax_code", "address", "phone", "email", "notes"}
ContactNulls == {"title", "email", "phone"}
AssetNulls == {"checksum_sha256"}
SettingsNulls == {"tax_code", "address", "phone", "email", "logo_url"}

\* What a table's rows hold when these texts are bound to its columns.
Parsed(columns, row) ==
  [c \in DOMAIN columns |->
     IF row[c] = None THEN None ELSE Parse(columns[c], row[c])]

Accepted(row) == \A c \in DOMAIN row : row[c] # Refused

\* A stored row that its constructors give back as it is.
Decodes(columns, row) == Parsed(columns, row) = row /\ Accepted(row)
=============================================================================
