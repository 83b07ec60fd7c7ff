------------------------------ MODULE MCListing ------------------------------
(* A small instance of Listing for TLC.  No symmetry: liveness is checked. *)
EXTENDS Listing

Input(k, n, blanks, v) ==
  [core |-> k, size |-> n, pad |-> blanks, variant |-> v, fits |-> TRUE]

\* The longest text that a rule admits, and the blanks and the spelling it changes.
Longest(rule, k) ==
  Input(k, rule.max, IF rule.blanks = "trim" THEN 2 ELSE 0,
        rule.variant # "refuse" /\ rule # Id)

Plain(rule, k) == Input(k, rule.max, 0, FALSE)

Shortest(rule, k) == Input(k, rule.min, 0, FALSE)

Row(columns, T(_, _), k) == [c \in DOMAIN columns |-> T(columns[c], k)]

\* Blank where blanks are trimmed.
Blank(columns) ==
  [c \in DOMAIN columns |->
     Input(1, IF columns[c].blanks = "trim" THEN 0 ELSE columns[c].min,
           IF columns[c].blanks = "trim" THEN 1 ELSE 0, FALSE)]

\* The users send one address in two spellings, and another one.
SomeCreations == [t \in Tables |->
  CASE t = "customers" -> {Row(CustomerColumns, Longest, 1), Blank(CustomerColumns)}
    [] t = "contacts"  -> {Row(ContactColumns, Longest, 1)}
    [] t = "users"     -> {Row(UserColumns, Longest, 1), Row(UserColumns, Plain, 1),
                           Row(UserColumns, Shortest, 2)}
    [] t = "assets"    -> {[Row(AssetColumns, Longest, 1) EXCEPT !.checksum_sha256 = None],
                           Row(AssetColumns, Shortest, 1)}]

PatchOf(columns, patched) ==
  [c \in DOMAIN columns |-> IF c \in patched THEN Shortest(columns[c], 2) ELSE None]

SomePatches == [t \in Tables |->
  CASE t = "customers" -> {PatchOf(CustomerColumns, {"name", "tax_code", "notes"})}
    [] t = "contacts"  -> {PatchOf(ContactColumns, {"title"})}
    [] OTHER           -> {}]
==============================================================================
