----------------------------- MODULE CustomerStore -----------------------------
(***************************************************************************)
(* The CRM pipeline steps of src/pipelines/crm: createCustomer,            *)
(* updateCustomer, importContacts, logInteraction, generateReport.  A      *)
(* customer is reduced to its email; an import suspends after each row.    *)
(***************************************************************************)
EXTENDS Integers, Sequences, FiniteSets, Functions

CONSTANTS
  Customers,         \* ids that may be created
  Emails,            \* email addresses
  Contacts,          \* emails of the rows importContacts is called with
  InteractionTypes,
  MaxInteractions    \* bound on interactions logged

NoCustomer == "none"

ASSUME CustomerAssumption ==
  /\ IsFiniteSet(Customers) /\ IsFiniteSet(InteractionTypes)
  /\ NoCustomer \notin Emails /\ Contacts \in Seq(Emails) /\ MaxInteractions \in Nat

VARIABLES
  customerStore,  \* the email of each customer
  row,            \* rows of the import that are done
  imported,       \* the import's counter of successes
  failed,         \* and of failures
  importedIds,    \* history: customers the import created
  interactions,   \* number of interactions of each customer and type
  rewritten       \* history: an update set an email another customer had

customerVars == <<customerStore, row, imported, failed, importedIds, interactions, rewritten>>

CustomerInit ==
  /\ customerStore = [c \in Customers |-> NoCustomer]
  /\ row = 0 /\ imported = 0 /\ failed = 0 /\ importedIds = {}
  /\ interactions = [x \in Customers \X InteractionTypes |-> 0]
  /\ rewritten = FALSE

Stored == {c \in Customers : customerStore[c] # NoCustomer}
Taken(e) == \E c \in Stored : customerStore[c] = e

\* createCustomer, which refuses an email that is taken.
Insert(c, e) ==
  /\ c \notin Stored /\ ~ Taken(e)
  /\ customerStore' = [customerStore EXCEPT ![c] = e]

CreateCustomer(c, e) ==
  /\ Insert(c, e)
  /\ UNCHANGED <<row, imported, failed, importedIds, interactions, rewritten>>

\* updateCustomer assigns whatever it is given.
UpdateCustomer(c, e) ==
  /\ c \in Stored
  /\ customerStore' = [customerStore EXCEPT ![c] = e]
  /\ rewritten' = (rewritten \/ \E d \in Stored \ {c} : customerStore[d] = e)
  /\ UNCHANGED <<row, imported, failed, importedIds, interactions>>

\* One row of importContacts; another caller may have taken its email by now.
ImportRow ==
  /\ row < Len(Contacts)
  /\ row' = row + 1
  /\ IF Taken(Contacts[row + 1])
     THEN failed' = failed + 1 /\ UNCHANGED <<customerStore, imported, importedIds>>
     ELSE /\ \E c \in Customers :
               Insert(c, Contacts[row + 1]) /\ importedIds' = importedIds \union {c}
          /\ imported' = imported + 1
          /\ UNCHANGED failed
  /\ UNCHANGED <<interactions, rewritten>>

\* logInteraction does not look the customer up.
LogInteraction(c, t) ==
  /\ SumFunction(interactions) < MaxInteractions
  /\ interactions' = [interactions EXCEPT ![<<c, t>>] = @ + 1]
  /\ UNCHANGED <<customerStore, row, imported, failed, importedIds, rewritten>>

GetCustomerInteractions(c) == SumFunction([t \in InteractionTypes |-> interactions[<<c, t>>]])

GenerateCrmReport ==
  [activeCustomers |-> Cardinality(Stored),
   interactions |-> SumFunction([c \in Customers |-> GetCustomerInteractions(c)]),
   topInteractionTypes |->
     [t \in InteractionTypes |-> SumFunction([c \in Customers |-> interactions[<<c, t>>]])]]

CustomerNext ==
  \/ \E c \in Customers : \E e \in Emails : CreateCustomer(c, e) \/ UpdateCustomer(c, e)
  \/ ImportRow
  \/ \E c \in Customers : \E t \in InteractionTypes : LogInteraction(c, t)

CustomerSpec == CustomerInit /\ [][CustomerNext]_customerVars

CustomerTypeOK ==
  /\ customerStore \in [Customers -> Emails \union {NoCustomer}]
  /\ row \in 0 .. Len(Contacts) /\ imported \in Nat /\ failed \in Nat
  /\ importedIds \subseteq Stored
  /\ interactions \in [Customers \X InteractionTypes -> Nat]
  /\ rewritten \in BOOLEAN

\* No two customers have the same email, whatever creations come between the
\* rows of an import, unless updateCustomer gave one of them another's.
EmailsUnique ==
  ~ rewritten => \A c, d \in Stored : customerStore[c] = customerStore[d] => c = d

\* An import accounts for each of its rows once, and its counter of successes is
\* the number of customers it created.
ImportAccounted ==
  /\ imported + failed = row
  /\ imported = Cardinality(importedIds)

\* The report counts every interaction under its customer and under its type.
ReportCountsAll ==
  GenerateCrmReport.interactions = SumFunction(GenerateCrmReport.topInteractionTypes)
=============================================================================
