---------------------------- MODULE CustomerBook ----------------------------
(***************************************************************************)
(* What the CRM promises, with no transactions and no locks: customers are *)
(* numbered 1, 2, 3, ... in the order they enter the book, a contact       *)
(* enters under a customer that is active, and archiving a customer        *)
(* archives all of its contacts in the same instant, for good.             *)
(***************************************************************************)
EXTENDS Naturals

CONSTANTS
  Customers, Contacts,
  None     \* the customer of a contact that does not exist yet

VARIABLES
  last,    \* the number given to the newest customer
  number,  \* of each customer, 0 before it enters the book
  state,   \* "absent", "active" or "archived", of customers and contacts
  owner    \* the customer a contact belongs to

vars == <<last, number, state, owner>>

Init ==
  /\ last = 0
  /\ number = [c \in Customers |-> 0]
  /\ state = [r \in Customers \cup Contacts |-> "absent"]
  /\ owner = [k \in Contacts |-> None]

EnterCustomer(c) ==
  /\ state[c] = "absent"
  /\ last' = last + 1
  /\ number' = [number EXCEPT ![c] = last + 1]
  /\ state' = [state EXCEPT ![c] = "active"]
  /\ UNCHANGED owner

EnterContact(k, c) ==
  /\ state[k] = "absent"
  /\ state[c] = "active"
  /\ state' = [state EXCEPT ![k] = "active"]
  /\ owner' = [owner EXCEPT ![k] = c]
  /\ UNCHANGED <<last, number>>

ArchiveContact(k) ==
  /\ state[k] = "active"
  /\ state' = [state EXCEPT ![k] = "archived"]
  /\ UNCHANGED <<last, number, owner>>

ArchiveCustomer(c) ==
  /\ state[c] = "active"
  /\ state' = [r \in Customers \cup Contacts |->
                 IF r = c \/ (r \in Contacts /\ owner[r] = c)
                 THEN "archived" ELSE state[r]]
  /\ UNCHANGED <<last, number, owner>>

Next ==
  \/ \E c \in Customers : EnterCustomer(c) \/ ArchiveCustomer(c)
  \/ \E k \in Contacts : ArchiveContact(k)
  \/ \E k \in Contacts, c \in Customers : EnterContact(k, c)

Spec == Init /\ [][Next]_vars
============================================================================
