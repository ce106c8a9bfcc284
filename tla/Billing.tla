-------------------------------- MODULE Billing --------------------------------
(***************************************************************************)
(* The billing pipeline steps of src/pipelines/billing.  Amounts are exact *)
(* integers: cents, hundredths of cents for discounted prices, and         *)
(* hundredths of those for the tax on them, so that the rounding is the    *)
(* code's and its binary fractions are left out.                           *)
(***************************************************************************)
EXTENDS Integers, Sequences, FiniteSets, FiniteSetsExt, SequencesExt

CONSTANTS
  LineItems,    \* items: quantity, unitPrice in cents, discount in percent
  TaxRates,     \* percent
  Discounts,    \* [type |-> "percentage" or "fixed", value |-> percent or cents]
  Payers,       \* customers, billed or not
  Amounts,      \* amounts in cents that callers record as paid
  MaxTop,       \* how many customers a report lists: 5
  MaxInvoices,  \* bound on invoices
  MaxPayments   \* bound on payments

ItemRecords == [quantity : Int, unitPrice : Int, discount : Int]

ASSUME BillingAssumption ==
  /\ LineItems \subseteq Seq(ItemRecords)
  /\ Discounts \subseteq [type : {"percentage", "fixed"}, value : Nat]
  /\ Amounts \subseteq Int /\ MaxTop \in Nat \ {0}
  /\ TaxRates \subseteq Nat /\ MaxInvoices \in Nat /\ MaxPayments \in Nat

VARIABLES
  invoices,  \* the invoices an application keeps, with the items they came from
  payments   \* the payments array

billingVars == <<invoices, payments>>

BillingInit == invoices = <<>> /\ payments = <<>>

\* Math.round(x / unit): halves go up.
Round(x, unit) == (2 * x + unit) \div (2 * unit)

\* In hundredths of a cent.
Amount(i) == i.quantity * i.unitPrice * (100 - i.discount)
Subtotal(items) == SumFunction([k \in DOMAIN items |-> Amount(items[k])])

\* The total is rounded from the exact sum, not from the rounded parts.
Invoice(customer, items, rate) ==
  LET subtotal == Subtotal(items)
      tax == subtotal * rate
  IN  [customer |-> customer, taxRate |-> rate, status |-> "draft",
       subtotal |-> Round(subtotal, 100), taxAmount |-> Round(tax, 10000),
       total |-> Round(100 * subtotal + tax, 10000), discounted |-> FALSE]

\* A fixed discount stops at zero; a percentage above 100 does not.
ApplyDiscount(i, d) ==
  LET subtotal == IF d.type = "percentage" THEN Round(i.subtotal * (100 - d.value), 100)
                                           ELSE Max({0, i.subtotal - d.value})
      tax == Round(subtotal * i.taxRate, 100)
  IN  [i EXCEPT !.subtotal = subtotal, !.taxAmount = tax, !.total = subtotal + tax,
                !.discounted = TRUE]

GenerateInvoice ==
  /\ Len(invoices) < MaxInvoices
  /\ \E customer \in Payers, items \in LineItems, rate \in TaxRates :
       \E more \in LineItems \union {<<>>} :
         invoices' = Append(invoices, Invoice(customer, items \o more, rate))
  /\ UNCHANGED payments

Discounting(n) ==
  /\ ~ invoices[n].discounted
  /\ \E d \in Discounts : invoices' = [invoices EXCEPT ![n] = ApplyDiscount(@, d)]
  /\ UNCHANGED payments

\* No code sets the status; the application does.
SetPaid(n) ==
  /\ invoices' = [invoices EXCEPT ![n].status = "paid"]
  /\ UNCHANGED payments

\* recordPayment looks at no invoice, takes any amount and leaves the status alone.
RecordPayment(n, amount) ==
  /\ Len(payments) < MaxPayments
  /\ payments' = Append(payments, [invoice |-> n, amount |-> amount])
  /\ UNCHANGED invoices

GetPaymentsForInvoice(n) == SelectSeq(payments, LAMBDA p : p.invoice = n)

Total(some) == SumFunctionOnSet([n \in DOMAIN invoices |-> invoices[n].total], some)
Paid == {n \in DOMAIN invoices : invoices[n].status = "paid"}

ReconcileAccounts ==
  [totalInvoiced |-> Total(DOMAIN invoices), totalPaid |-> Total(Paid),
   outstanding |-> Total(DOMAIN invoices) - Total(Paid)]

RevenueOf(customer) == Total({n \in Paid : invoices[n].customer = customer})

Paying == {invoices[n].customer : n \in Paid}

\* The sort by revenue is stable: of equals, who paid first comes first.
Ahead(c, d) ==
  \/ RevenueOf(c) > RevenueOf(d)
  \/ /\ RevenueOf(c) = RevenueOf(d)
     /\ \E n \in Paid : /\ invoices[n].customer = c
                        /\ \A k \in Paid : invoices[k].customer = d => n < k

\* topCustomers is given as a function on those it lists.
GenerateBillingReport ==
  [totalRevenue |-> Total(Paid), invoiceCount |-> Cardinality(Paid),
   averageInvoice |-> IF Paid = {} THEN 0 ELSE Round(Total(Paid), Cardinality(Paid)),
   topCustomers |->
     [c \in {d \in Paying : Cardinality({e \in Paying : Ahead(e, d)}) < MaxTop} |-> RevenueOf(c)]]

BillingNext ==
  \/ GenerateInvoice
  \/ \E n \in DOMAIN invoices : Discounting(n) \/ SetPaid(n)
  \/ \E n \in 0 .. Len(invoices), amount \in Amounts : RecordPayment(n, amount)

BillingSpec == BillingInit /\ [][BillingNext]_billingVars

BillingTypeOK ==
  /\ Len(invoices) <= MaxInvoices /\ Len(payments) <= MaxPayments
  /\ \A n \in DOMAIN invoices :
       /\ invoices[n].status \in {"draft", "paid"}
       /\ {invoices[n].subtotal, invoices[n].taxAmount, invoices[n].total} \subseteq Int

\* Subtotal and tax add up to the total within a cent, and exactly once a
\* discount has been applied; no discount of up to 100 percent makes a total
\* negative or raises it by more than the cent of the rounding, unless it was
\* negative or the tax is above 100 percent.
InvoicesAddUp ==
  \A n \in DOMAIN invoices :
    LET i == invoices[n]
        gap == i.total - (i.subtotal + i.taxAmount)
    IN  /\ gap \in -1 .. 1 /\ (i.discounted => gap = 0)
        /\ i.subtotal >= 0 /\ i.taxRate <= 100 =>
             \A d \in Discounts :
               (d.type = "percentage" => d.value <= 100) =>
                 ApplyDiscount(i, d).total \in 0 .. i.total + 1

\* Reconciliation and report agree, over any mixture of paid and unpaid invoices.
\* Nobody whom the report does not list paid more than somebody it lists, and if
\* no more than MaxTop customers paid, their revenues are all of the total.
ReportsAgree ==
  LET report == GenerateBillingReport
      accounts == ReconcileAccounts
      top == report.topCustomers
  IN  /\ report.totalRevenue = accounts.totalInvoiced - accounts.outstanding
      /\ \A c \in DOMAIN top : \A d \in Paying \ DOMAIN top : top[c] >= RevenueOf(d)
      /\ Cardinality(Paying) <= MaxTop => report.totalRevenue = SumFunction(top)
=============================================================================
