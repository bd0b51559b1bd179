------------------------------- MODULE Policy -------------------------------
(***************************************************************************)
(* What the rules decide of one invoice and what is shown of it: evaluate  *)
(* (rules.py) as a function of the fields, the evidence, the register and  *)
(* the other invoices; the groups and the reason derived from its checks   *)
(* (checks.py); the row of the list (main.py); and the reviews between two *)
(* evaluations, while other invoices are accepted on the same orders.      *)
(*                                                                         *)
(* An amount is a number of tenths of a cent, a quantity and a percentage  *)
(* are whole; comparisons of quotients are multiplied out.  A text is what *)
(* it is compared with: a printed identifier or reference is the vendor or *)
(* order that has it, or Other.  A check's message is kept where a later   *)
(* decision reads it (about).  Runs, attempts and locks are InvoiceRuns    *)
(* and Ledger: here an evaluation is one step.                             *)
(***************************************************************************)
EXTENDS Integers, Sequences, FiniteSets, FiniteSetsExt, Functions

CONSTANTS
    None,          \* a field without a value
    Bad,           \* a text that is no number
    Other,         \* a text that nothing in the workspace has
    Vendors, Orders, Skus, References,
    Texts,         \* names, descriptions, units and currencies
    VendorBook,    \* per vendor: its names and aliases, and whether it is active
    OrderBook,     \* per order: vendor, currency, state, ceiling and lines by SKU
    Weak,          \* [References -> Nat]: references that differ in punctuation
    Documents,     \* what extraction reads: fields, and those found on the page
    Requests,      \* what reviewers send
    OtherInvoices, \* the other invoices of the workspace, as they are decided
    MaxRevision    \* bound: revisions

Amount == Int \cup {None, Bad}

Line ==
    [sku: Skus \cup {None, Other}, description: Texts \cup {None}, unit: Texts \cup {None},
     quantity: Amount, unit_price: Amount, discount: Amount, total: Amount]

(* supported: an invoice, one, with one order; clear: without warnings. *)
Data ==
    [supported: BOOLEAN, clear: BOOLEAN,
     vendor_identifier: Vendors \cup {None, Other}, vendor_name: Texts \cup {None},
     invoice_number: References \cup {None},
     invoice_date: {"past", "other past", "future", "unclear", None},
     currency: Texts \cup {None}, po_reference: Orders \cup {None, Other},
     subtotal: Amount, header_discount: Amount, shipping: Amount, tax: Amount,
     tax_rate: Amount, total: Amount,
     tax_treatment: {"exclusive", "inclusive", "none", "ambiguous"}, lines: Seq(Line)]

(* A field is its line (0: none) and its name. *)
Field == Nat \X STRING

(* The values of a field of this name that are told apart. *)
ValuesOf(name) ==
    CASE name \in {"vendor_name", "currency", "description", "unit"} -> Texts
      [] name = "vendor_identifier" -> Vendors \cup {Other}
      [] name = "invoice_number" -> References
      [] name = "invoice_date" -> {"past", "other past", "future", "unclear"}
      [] name = "po_reference" -> Orders \cup {Other}
      [] name = "sku" -> Skus \cup {Other}
      [] OTHER -> Int

Request(q) ==
    /\ q.vendor \in Vendors \cup {None} /\ q.order \in Orders \cup {None}
    /\ DOMAIN q.values \subseteq Field
    /\ \A f \in DOMAIN q.values : q.values[f] \in ValuesOf(f[2]) \cup {None, Bad}

(* Another invoice; an accepted one has reserved its total and quantities. *)
Invoice(p) ==
    /\ p.vendor \in Vendors \cup {None} /\ p.reference \in References \cup {None}
    /\ p.accepted \in BOOLEAN
    /\ p.accepted => p.order \in Orders /\ p.total \in Nat /\ p.quantities \in [Skus -> Nat]

OrderLine == [descriptions: SUBSET Texts, unit: Texts, unit_price: Nat, quantity: Nat]

IsOrder(o) ==
    /\ o.vendor \in Vendors /\ o.currency \in Texts /\ o.active \in BOOLEAN /\ o.ceiling \in Nat
    /\ DOMAIN o.lines \subseteq Skus /\ \A s \in DOMAIN o.lines : o.lines[s] \in OrderLine

ASSUME PolicyAssumption ==
    /\ None # Bad /\ None # Other
    /\ {None, Bad} \cap Int = {}
    /\ {None, Other} \cap (Vendors \cup Orders \cup Skus \cup References \cup Texts) = {}
    /\ IsFiniteSet(Skus)
    /\ \A v \in Vendors : VendorBook[v].active \in BOOLEAN
    /\ \A o \in Orders : IsOrder(OrderBook[o])
    /\ Weak \in [References -> Nat]
    /\ \A d \in Documents : d.data \in Data /\ d.found \subseteq Field
    /\ \A q \in Requests : Request(q)
    /\ \A p \in OtherInvoices : Invoice(p)
    /\ MaxRevision \in Nat \ {0}

VARIABLES
    revision,   \* the current revision: its number, fields, corrected fields, selections
    found,      \* the fields whose extracted value was found on the page
    run,        \* the state of the current run
    others,     \* the other invoices decided so far
    decision,   \* the current decision, or None
    first       \* the first decision, or None

vars == <<revision, found, run, others, decision, first>>

-----------------------------------------------------------------------------
(* Numbers.                                                                *)

Cent == 10

Dollar == 1000

IsNumber(x) == x \notin {None, Bad}

(* decimal. *)
Decimal(x) == IF IsNumber(x) THEN x ELSE None

OrZero(x) == IF x = None THEN 0 ELSE x

Distance(x, y) == IF x > y THEN x - y ELSE y - x

(* quantize(CENT, ROUND_HALF_UP) of the quotient of two natural numbers. *)
ToCents(n, d) == Cent * ((2 * n + Cent * d) \div (2 * Cent * d))

(* Mutated form of PriceAllowed: either tolerance is enough. *)
PriceAllowedByEither(actual, approved, scale) ==
    /\ approved > 0 /\ actual >= 0
    /\ \/ actual - approved <= Dollar * scale
       \/ 100 * (actual - approved) <= approved

(* price_allowed, of amounts multiplied by scale. *)
PriceAllowed(actual, approved, scale) ==
    /\ approved > 0 /\ actual >= 0
    /\ \/ actual <= approved
       \/ /\ actual - approved <= Dollar * scale
          /\ 100 * (actual - approved) <= approved

-----------------------------------------------------------------------------
(* The checks.  line is 0 for those that are not about a line.             *)

Said(code, state, about) == [code |-> code, line |-> 0, state |-> state, about |-> about]

Check(code, state) == Said(code, state, "")

LineCheck(code, i, state) == [code |-> code, line |-> i, state |-> state, about |-> ""]

Judge(ok) == IF ok THEN "passed" ELSE "review"

(* A check that is recorded only when something is wrong. *)
Warn(code, wrong) == IF wrong THEN {Check(code, "review")} ELSE {}

(* A check that is recorded only when there is something to check. *)
Stated(code, present, ok) == IF present THEN {Check(code, Judge(ok))} ELSE {}

Named(d) == IF d.vendor_identifier # None THEN "vendor_identifier" ELSE "vendor_name"

Required(d) == {"invoice_number", "invoice_date", "currency", "total", Named(d)}

RequiredChecks(d) ==
    {Check("required_invoice_number", Judge(d.invoice_number # None)),
     Check("required_invoice_date", Judge(d.invoice_date # None)),
     Check("required_currency", Judge(d.currency # None)),
     Check("required_total", Judge(d.total # None)),
     Check("required_vendor", Judge(d[Named(d)] # None))}

(* The fields the decision rests on. *)
Critical(d) ==
    {<<0, f>> : f \in {g \in Required(d) \cup {"po_reference", "subtotal", "header_discount",
                                               "shipping", "tax", "tax_rate"} : d[g] # None}}
    \cup UNION {
        {<<i, f>> : f \in {g \in {"quantity", "unit", "unit_price", "total", "discount"} :
                              d.lines[i][g] # None}
                          \cup {IF d.lines[i].sku # None THEN "sku" ELSE "description"}} :
        i \in DOMAIN d.lines}

DocumentChecks(d, verified) ==
    {Check("scope", Judge(d.supported)),
     Check("evidence", Judge(Critical(d) \subseteq verified)),
     Check("date", Judge(d.invoice_date \in {"past", "other past"})),
     Check("currency", Judge(d.currency = "USD")),
     Check("positive_total", Judge(IsNumber(d.total) /\ d.total > 0))}
    \cup RequiredChecks(d)
    \cup Warn("extraction_warning", ~d.clear)
    \cup Warn("precision", IsNumber(d.total) /\ d.total % Cent # 0)

(* vendor_candidates. *)
Candidates(d) ==
    IF d.vendor_identifier \in Vendors THEN {d.vendor_identifier}
    ELSE {v \in Vendors : d.vendor_name # None /\ d.vendor_name \in VendorBook[v].names}

Only(S) == IF Cardinality(S) = 1 THEN CHOOSE x \in S : TRUE ELSE None

VendorOf(d, chosen) == IF chosen.vendor # None THEN chosen.vendor ELSE Only(Candidates(d))

(* The order that is selected or printed, once the vendor is known. *)
FoundOrder(d, chosen) ==
    IF VendorOf(d, chosen) = None THEN None
    ELSE IF chosen.order # None THEN chosen.order
    ELSE IF d.po_reference \in Orders THEN d.po_reference ELSE None

Conflicts(d, chosen) ==
    LET o == FoundOrder(d, chosen)
    IN  /\ o # None
        /\ OrderBook[o].vendor # VendorOf(d, chosen) \/ OrderBook[o].currency # d.currency

OrderOf(d, chosen) == IF Conflicts(d, chosen) THEN None ELSE FoundOrder(d, chosen)

MatchChecks(d, chosen) ==
    LET v == VendorOf(d, chosen)
        o == OrderOf(d, chosen)
    IN  {Check("vendor", IF v = None THEN "review"
                         ELSE IF VendorBook[v].active THEN "passed" ELSE "blocked"),
         IF Conflicts(d, chosen)
         THEN Said("po", "review", "conflict")
         ELSE Check("po", IF o = None THEN "review"
                          ELSE IF OrderBook[o].active THEN "passed" ELSE "blocked")}

-----------------------------------------------------------------------------
(* Tax, lines and totals.                                                  *)

InPercent(rate) == IsNumber(rate) /\ rate \in 0 .. 100

(* inclusive_ok: a value that is no number counts as absent here. *)
Derivable(d) ==
    InPercent(d.tax_rate) /\ {d.header_discount, d.shipping} \subseteq {None, Bad, 0}

Inclusive(d) == d.tax_treatment = "inclusive" /\ Derivable(d)

(* Prices are compared net of tax: multiplied by 100, the order's by Scale. *)
Scale(d) == IF Inclusive(d) THEN 100 + d.tax_rate ELSE 100

Valid(l) ==
    /\ \A x \in {l.quantity, l.unit_price, l.total} : IsNumber(x)
    /\ l.discount # Bad
    /\ l.quantity > 0 /\ l.unit_price >= 0 /\ l.total >= 0 /\ OrZero(l.discount) >= 0

AddsUp(l) == Distance(l.quantity * l.unit_price - OrZero(l.discount), l.total) <= Cent

(* The SKUs of the order that a line may be about. *)
Matching(l, o) ==
    IF l.sku # None THEN {l.sku} \cap DOMAIN OrderBook[o].lines
    ELSE {s \in DOMAIN OrderBook[o].lines : l.description \in OrderBook[o].lines[s].descriptions}

(* The SKU a line is allocated to. *)
Allocated(l, o) ==
    LET s == Only(Matching(l, o))
    IN  IF s # None /\ l.unit = OrderBook[o].lines[s].unit THEN s ELSE None

LineChecks(d, o, i) ==
    LET l == d.lines[i]
        s == Allocated(l, o)
    IN  IF ~Valid(l) THEN {LineCheck("line", i, "review")}
        ELSE {LineCheck("line", i, Judge(AddsUp(l)))}
             \cup IF o = None THEN {}
                  ELSE IF s = None THEN {LineCheck("line_match", i, "review")}
                  ELSE {LineCheck("price", i,
                           Judge(PriceAllowed(100 * l.unit_price,
                                              Scale(d) * OrderBook[o].lines[s].unit_price,
                                              Scale(d))))}

NotItemised(d) == d.lines = <<>>

AllocationChecks(d, o) == UNION {LineChecks(d, o, i) : i \in DOMAIN d.lines}

LinesChecks(d, o) == AllocationChecks(d, o) \cup Warn("lines", NotItemised(d))

LineSum(d) == SumFunction([i \in DOMAIN d.lines |-> d.lines[i].total])

Optional(d) == {d.header_discount, d.shipping, d.tax}

(* The totals are compared only when every amount they need is usable. *)
Countable(d) ==
    /\ d.lines # <<>>
    /\ \A i \in DOMAIN d.lines : Valid(d.lines[i]) /\ AddsUp(d.lines[i])
    /\ IsNumber(d.total)
    /\ \A x \in Optional(d) : x # Bad /\ OrZero(x) >= 0

Gross(d) ==
    IF Inclusive(d) THEN LineSum(d)
    ELSE LineSum(d) - OrZero(d.header_discount) + OrZero(d.shipping) + OrZero(d.tax)

DerivedTax(d) == LineSum(d) - ToCents(100 * LineSum(d), Scale(d))

(* The stated rate against the stated tax, on net lines after discount. *)
RateAgrees(d) ==
    /\ InPercent(d.tax_rate)
    /\ d.tax_rate = 0 \/ OrZero(d.shipping) = 0
    /\ Distance((LineSum(d) - OrZero(d.header_discount)) * d.tax_rate, 100 * OrZero(d.tax))
          <= 100 * Cent

Assumed(d) == None \in Optional(d) \/ \E i \in DOMAIN d.lines : d.lines[i].discount = None

Reconciles(d) == Distance(Gross(d), d.total) <= Cent

BasisKnown(d) ==
    d.tax_treatment # "ambiguous" /\ (d.tax_treatment = "inclusive" => Derivable(d))

TaxChecks(d) ==
    IF Inclusive(d)
    THEN Warn("tax_amount", d.tax # None /\ Distance(d.tax, DerivedTax(d)) > Cent)
    ELSE Warn("net_amount", OrZero(d.header_discount) > LineSum(d))
         \cup Stated("tax_rate_amount", d.tax_rate # None, RateAgrees(d))
         \cup Warn("zero_tax", d.tax_treatment = "none" /\ OrZero(d.tax) # 0)

SubtotalAgrees(d) == d.subtotal # Bad /\ Distance(d.subtotal, LineSum(d)) <= Cent

TotalsChecks(d) ==
    {Check("tax_treatment", Judge(BasisKnown(d)))}
    \cup IF Countable(d)
         THEN {Check("arithmetic", Judge(Reconciles(d)))}
              \cup TaxChecks(d)
              \cup Stated("subtotal", d.subtotal # None, SubtotalAgrees(d))
              \cup Stated("assumptions", Assumed(d), Reconciles(d))
         ELSE {Check("arithmetic", "review")}

-----------------------------------------------------------------------------
(* The other invoices.                                                     *)

Collisions(d, v) == {p \in others : p.vendor = v /\ p.reference = d.invoice_number}

SameInvoice(d, p) ==
    Decimal(p.total) = Decimal(d.total) /\ p.date = d.invoice_date /\ p.currency = d.currency

(* The duplicate check: of several collisions the query may list any first. *)
DuplicateChecks(d, v) ==
    IF v = None \/ d.invoice_number = None
    THEN {Said("duplicate", "review", "unconfirmed")}
    ELSE IF Collisions(d, v) # {}
    THEN {Check("duplicate", IF SameInvoice(d, p) THEN "blocked" ELSE "review") :
             p \in Collisions(d, v)}
    ELSE {Check("duplicate",
             Judge(\A p \in others : p.vendor = v /\ p.reference # None =>
                                        Weak[p.reference] # Weak[d.invoice_number]))}

Accepted(o) == {p \in others : p.accepted /\ p.order = o}

SumOfTotals(rows) == SumFunction([p \in rows |-> p.total])

SumOfQuantities(rows, s) == SumFunction([p \in rows |-> p.quantities[s]])

Remaining(o) == OrderBook[o].ceiling - SumOfTotals(Accepted(o))

Available(o, s) == OrderBook[o].lines[s].quantity - SumOfQuantities(Accepted(o), s)

Incoming(d, o, s) ==
    LET lines == {i \in DOMAIN d.lines : Valid(d.lines[i]) /\ Allocated(d.lines[i], o) = s}
    IN  SumFunction([i \in lines |-> d.lines[i].quantity])

BudgetChecks(d, o) ==
    IF o = None THEN {Said("budget", "review", "unselected")}
    ELSE {IF IsNumber(d.total) /\ d.total > 0
          THEN Check("budget", Judge(d.total <= Remaining(o)))
          ELSE Said("budget", "review", "amount")}
         \cup {Said("quantity", Judge(Incoming(d, o, s) <= Available(o, s)), s) :
                  s \in {t \in DOMAIN OrderBook[o].lines : Incoming(d, o, t) > 0}}

-----------------------------------------------------------------------------
Outcome(checks) ==
    IF \E c \in checks : c.state = "blocked" THEN "BLOCKED"
    ELSE IF \E c \in checks : c.state = "review" THEN "NEEDS_REVIEW" ELSE "APPROVED"

(* evaluate. *)
Evaluations(d, verified, chosen) ==
    LET v == VendorOf(d, chosen)
        o == OrderOf(d, chosen)
        most == DocumentChecks(d, verified) \cup MatchChecks(d, chosen) \cup TotalsChecks(d)
                \cup LinesChecks(d, o) \cup BudgetChecks(d, o)
    IN  {[outcome |-> Outcome(most \cup {c}), checks |-> most \cup {c}, vendor |-> v, order |-> o] :
            c \in DuplicateChecks(d, v)}

-----------------------------------------------------------------------------
(* Groups and their progress events (checks.py).                           *)

Groups == {"document", "supplier", "po", "lines", "totals", "duplicate", "budget"}

TOTALS == {"tax_treatment", "tax_amount", "net_amount", "tax_rate_amount", "zero_tax",
           "arithmetic", "subtotal", "assumptions"}

(* check_group. *)
CheckGroup(c) ==
    CASE c.code = "vendor" -> "supplier"
      [] c.code \in {"po", "duplicate", "budget"} -> c.code
      [] c.code \in {"lines", "line", "line_match", "price"} -> "lines"
      [] c.code \in TOTALS -> "totals"
      [] c.code = "quantity" -> "budget"
      [] OTHER -> "document"

(* Mutated form of Waits: the order's own step waits for the order. *)
WaitsForItself(g, result) ==
    \/ result.vendor = None /\ g \in {"po", "lines", "budget"}
    \/ result.outcome = "BLOCKED" /\ g = "budget"
    \/ result.order = None /\ g \in {"po", "lines", "budget"}

(* waiting: a step that cannot be judged yet, or that has nothing to say. *)
Waits(g, result) ==
    \/ result.vendor = None /\ g \in {"po", "lines", "budget"}
    \/ result.outcome = "BLOCKED" /\ g = "budget"
    \/ result.order = None /\ g \in {"lines", "budget"}

(* group_state. *)
Worst(states) ==
    IF "blocked" \in states THEN "blocked"
    ELSE IF "review" \in states THEN "review"
    ELSE IF "passed" \in states THEN "passed" ELSE "skipped"

ChecksOf(g, result) == {c \in result.checks : CheckGroup(c) = g}

GroupState(g, result) ==
    IF Waits(g, result) THEN "skipped" ELSE Worst({c.state : c \in ChecksOf(g, result)})

-----------------------------------------------------------------------------
(* The steps of the page (steps.ts), once the run has ended.               *)

(* dependency: what another step has to settle first. *)
Depends(c) ==
    /\ c.state = "review"
    /\ \/ c.code = "budget" /\ c.about = "unselected"
       \/ c.code = "duplicate" /\ c.about = "unconfirmed"

(* supplierUnconfirmed. *)
SupplierOpen(result) == \E c \in result.checks : c.code = "vendor" /\ c.state = "review"

(* itemFor. *)
ItemState(c, result) ==
    IF \/ Depends(c)
       \/ SupplierOpen(result) /\ c.state = "review" /\ CheckGroup(c) \in {"po", "budget"}
    THEN "skipped" ELSE c.state

Items(g, result) == {ItemState(c, result) : c \in ChecksOf(g, result)}

(* A step's own state: from the event of its group, which says no more than *)
(* its items do when it depends on another step; or from the items alone.   *)
OwnState(g, result, events) ==
    IF ~events THEN Worst(Items(g, result))
    ELSE IF /\ GroupState(g, result) = "review"
            /\ \E c \in ChecksOf(g, result) : Depends(c)
            /\ Worst(Items(g, result)) \notin {"review", "blocked"}
    THEN "skipped" ELSE GroupState(g, result)

(* buildSteps: imported decisions have no events. *)
PageState(g, result, events) ==
    LET own == OwnState(g, result, events)
    IN  IF \/ g \in {"po", "lines", "budget"} /\ SupplierOpen(result) /\ own # "blocked"
           \/ g = "lines" /\ result.order = None /\ own \notin {"review", "blocked"}
        THEN "skipped" ELSE own

-----------------------------------------------------------------------------
(* Why a decision is not approved (checks.py).                             *)

Generic == {"evidence", "other"}

Reasons ==
    {"vendor", "inactive", "po", "nopo", "closed", "nonumber", "duplicate", "price", "item",
     "budget", "totals"} \cup Generic

Classify(c, d) ==
    LET unmatched == IF d.po_reference # None THEN "po" ELSE "nopo"
    IN  CASE c.code = "vendor" -> IF c.state = "blocked" THEN "inactive" ELSE "vendor"
          [] c.code = "po" -> IF c.state = "blocked" THEN "closed"
                              ELSE IF c.about = "conflict" THEN "po" ELSE unmatched
          [] c.code = "duplicate" -> IF d.invoice_number = None THEN "nonumber"
                                     ELSE IF c.about = "unconfirmed" THEN "vendor" ELSE "duplicate"
          [] c.code = "budget" -> IF c.about = "unselected" THEN unmatched
                                  ELSE IF c.about = "amount" THEN "totals" ELSE "budget"
          [] c.code = "quantity" -> "budget"
          [] c.code = "price" -> "price"
          [] c.code = "line_match" -> "item"
          [] c.code \in TOTALS \cup {"line", "precision", "required_total"} -> "totals"
          [] c.code = "required_invoice_number" -> "nonumber"
          [] c.code = "required_vendor" -> "vendor"
          [] c.code = "evidence" -> "evidence"
          [] OTHER -> "other"

(* The codes in the order evaluate adds them; those of a line stay together. *)
Codes ==
    <<"scope", "extraction_warning", "required_invoice_number", "required_invoice_date",
      "required_currency", "required_total", "required_vendor", "evidence", "date", "currency",
      "positive_total", "precision", "vendor", "po", "tax_treatment", "line", "line_match",
      "price", "lines", "tax_amount", "net_amount", "tax_rate_amount", "zero_tax", "arithmetic",
      "subtotal", "assumptions", "duplicate", "budget", "quantity">>

Place(code) == CHOOSE i \in DOMAIN Codes : Codes[i] = code

Section(c) == IF c.line > 0 THEN Place("line") ELSE Place(c.code)

(* ISSUE_PRIORITY, the blocked first. *)
Rank(c) ==
    (IF c.state = "blocked" THEN 0 ELSE 10)
    + CASE c.code = "duplicate" -> 0 [] c.code = "vendor" -> 1 [] c.code = "budget" -> 2
        [] c.code = "arithmetic" -> 3 [] c.code = "po" -> 4 [] OTHER -> 9

Before(c, e) ==
    \/ Rank(c) < Rank(e)
    \/ /\ Rank(c) = Rank(e)
       /\ \/ Section(c) < Section(e)
          \/ /\ Section(c) = Section(e)
             /\ c.line < e.line \/ (c.line = e.line /\ Place(c.code) < Place(e.code))

Leading(checks) == CHOOSE c \in checks : \A e \in checks : ~Before(e, c)

Issues(checks) == {c \in checks : c.state \in {"blocked", "review"}}

(* reason_for: of the decision's own order, the first that is specific. *)
ReasonFor(checks, d) ==
    LET specific == {c \in Issues(checks) : Classify(c, d) \notin Generic}
    IN  IF Issues(checks) = {} THEN None
        ELSE Classify(Leading(IF specific # {} THEN specific ELSE Issues(checks)), d)

-----------------------------------------------------------------------------
Init ==
    /\ \E doc \in Documents :
          /\ revision = [number |-> 1, data |-> doc.data, corrected |-> {},
                         chosen |-> [vendor |-> None, order |-> None]]
          /\ found = doc.found
    /\ run = "ACTIVE"
    /\ others = {}
    /\ decision = None
    /\ first = None

(* verify_evidence: a reviewer's correction cites the page; an extracted   *)
(* value was found on it or was not.                                       *)
Verified == found \cup revision.corrected

(* Mutated form of Decide: the first decision is that of the first revision *)
(* only.                                                                   *)
DecideForgetting ==
    /\ run = "ACTIVE"
    /\ \E result \in Evaluations(revision.data, Verified, revision.chosen) :
          decision' = [number |-> revision.number, data |-> revision.data, result |-> result]
    /\ first' = IF revision.number = 1 THEN None ELSE first
    /\ run' = "COMPLETED"
    /\ UNCHANGED <<revision, found, others>>

(* finalize. *)
Decide ==
    /\ run = "ACTIVE"
    /\ \E result \in Evaluations(revision.data, Verified, revision.chosen) :
          decision' = [number |-> revision.number, data |-> revision.data, result |-> result]
    /\ first' = IF first = None THEN decision' ELSE first
    /\ run' = "COMPLETED"
    /\ UNCHANGED <<revision, found, others>>

Approved == decision # None /\ decision.result.outcome = "APPROVED"

(* What this invoice has reserved of an order. *)
Reserved(o) == IF Approved /\ decision.result.order = o THEN decision.data.total ELSE 0

ReservedQuantity(o, s) ==
    IF Approved /\ decision.result.order = o THEN Incoming(decision.data, o, s) ELSE 0

(* Another invoice is decided; one that is accepted fits its order. *)
DecideOther ==
    \E p \in OtherInvoices \ others :
        /\ p.accepted => /\ p.total + Reserved(p.order) <= Remaining(p.order)
                         /\ \A s \in DOMAIN OrderBook[p.order].lines :
                               p.quantities[s] + ReservedQuantity(p.order, s) <= Available(p.order, s)
        /\ others' = others \cup {p}
        /\ UNCHANGED <<revision, found, run, decision, first>>

HeaderFields ==
    {"vendor_name", "vendor_identifier", "invoice_number", "invoice_date", "po_reference",
     "currency", "subtotal", "header_discount", "shipping", "tax", "tax_rate", "total"}

LineFields == {"quantity", "unit_price", "discount", "total", "sku", "description", "unit"}

(* The fields a request may correct, each to a value its citation shows. *)
Correctable(d, values) ==
    \A f \in DOMAIN values :
        /\ f \in {0} \X HeaderFields \/ f \in (DOMAIN d.lines) \X LineFields
        /\ values[f] \notin {None, Bad}

Corrected(d, values) ==
    [name \in DOMAIN d |->
        IF name = "lines"
        THEN [i \in DOMAIN d.lines |->
                 [g \in DOMAIN d.lines[i] |->
                     IF <<i, g>> \in DOMAIN values THEN values[<<i, g>>] ELSE d.lines[i][g]]]
        ELSE IF <<0, name>> \in DOMAIN values THEN values[<<0, name>>] ELSE d[name]]

(* An order is selected only for the confirmed vendor and currency. *)
Selectable(o, d, chosen) ==
    /\ OrderBook[o].vendor = VendorOf(d, chosen)
    /\ OrderBook[o].currency = d.currency
    /\ OrderBook[o].active

(* The citation of a unit may rest on the row of its SKU: a corrected SKU   *)
(* may lose it, or find it again.                                          *)
UnitsFound(corrected) ==
    LET units == {<<f[1], "unit">> : f \in {g \in corrected : g[2] = "sku"}}
    IN  {found \ units, found \cup units}

(* review; nothing but the fields and selections is told apart here. *)
Review ==
    /\ run = "COMPLETED"
    /\ ~Approved
    /\ revision.number < MaxRevision
    /\ \E q \in Requests :
          LET d == Corrected(revision.data, q.values)
              vendor == IF q.vendor # None THEN q.vendor ELSE revision.chosen.vendor
              chosen == [vendor |-> vendor,
                         order |-> IF q.order # None THEN q.order ELSE revision.chosen.order]
          IN  /\ Correctable(revision.data, q.values)
              /\ q.order # None => Selectable(q.order, d, chosen)
              /\ revision' = [number |-> revision.number + 1, data |-> d,
                              corrected |-> revision.corrected \cup DOMAIN q.values,
                              chosen |-> chosen]
              /\ found' \in UnitsFound(DOMAIN q.values)
    /\ run' = "ACTIVE"
    /\ UNCHANGED <<others, decision, first>>

Next == Decide \/ DecideOther \/ Review

Spec == Init /\ [][Next]_vars

-----------------------------------------------------------------------------
Outcomes == {"APPROVED", "NEEDS_REVIEW", "BLOCKED"}

States == {"passed", "review", "blocked"}

Abouts == {"", "conflict", "unselected", "amount", "unconfirmed"} \cup Skus

Checks == [code: {Codes[i] : i \in DOMAIN Codes}, line: Nat, state: States, about: Abouts]

Results ==
    [outcome: Outcomes, checks: SUBSET Checks,
     vendor: Vendors \cup {None}, order: Orders \cup {None}]

Decisions == [number: 1 .. MaxRevision, data: Data, result: Results]

(* A row of the list can be told from the row of an undecided invoice. *)
ASSUME NullAssumption == None \notin Decisions /\ None \notin Outcomes /\ None \notin Reasons

(* Mutated form of Applicable: any decision of the invoice. *)
ApplicableAlways == decision # None

Applicable == decision # None /\ decision.number = revision.number

(* build_row: what the list shows of the invoice. *)
Row ==
    [data |-> revision.data,
     outcome |-> IF Applicable THEN decision.result.outcome ELSE None,
     reason |-> IF Applicable /\ ~Approved THEN ReasonFor(decision.result.checks, decision.data)
                ELSE None]

(* Fields keep their types through reviews; the current decision is that   *)
(* of the current revision exactly when the run has ended, and the first   *)
(* decision is kept.                                                       *)
TypeOK ==
    /\ revision.number \in 1 .. MaxRevision
    /\ revision.data \in Data
    /\ revision.chosen \in [vendor: Vendors \cup {None}, order: Orders \cup {None}]
    /\ others \subseteq OtherInvoices
    /\ decision \in Decisions \cup {None}
    /\ run = "COMPLETED" <=> Applicable
    /\ decision = None <=> first = None
    /\ first # None => first.number = 1

(* The highest price tolerated for a SKU, multiplied by 100. *)
Highest(d, o, s) ==
    LET approved == Scale(d) * OrderBook[o].lines[s].unit_price
    IN  approved + Min({Dollar * Scale(d), approved \div 100})

(* What an accepted invoice charges for its goods. *)
GoodsTotal(d) == IF Inclusive(d) THEN d.total
    ELSE d.total + OrZero(d.header_discount) - OrZero(d.shipping) - OrZero(d.tax)

(* An accepted invoice is of an active vendor and order, and charges for   *)
(* its goods at most what the order still authorised of them at the        *)
(* tolerated prices, a cent allowed for each line and for the total: the   *)
(* line, price and quantity checks leave no gap between them (rules.py:263, *)
(* rules.py:519).  No later acceptance takes what it reserved.             *)
GoodsAreAuthorised ==
    Approved =>
        LET d == decision.data
            o == decision.result.order
            invoiced == {s \in DOMAIN OrderBook[o].lines : Incoming(d, o, s) > 0}
        IN  /\ o # None /\ OrderBook[o].active /\ VendorBook[OrderBook[o].vendor].active
            /\ d.total <= Remaining(o)
            /\ 100 * GoodsTotal(d) <=
                  SumFunction([s \in invoiced |-> Available(o, s) * Highest(d, o, s)])
                  + 100 * Cent * (Len(d.lines) + 1)

Tells(outcome, states) ==
    /\ outcome = "BLOCKED" <=> "blocked" \in states
    /\ outcome = "NEEDS_REVIEW" <=> "review" \in states /\ "blocked" \notin states
    /\ outcome = "APPROVED" <=> states = {"passed"}

(* A tick for lines claims that each is allocated to the order. *)
TickClaims(state, result, d) ==
    state = "passed" => \A i \in DOMAIN d.lines : Allocated(d.lines[i], result.order) # None

StepsTell(result, d) ==
    /\ Tells(result.outcome, {GroupState(g, result) : g \in Groups})
    /\ TickClaims(GroupState("lines", result), result, d)

PageTells(result, d, events) ==
    /\ Tells(result.outcome, {PageState(g, result, events) : g \in Groups})
    /\ TickClaims(PageState("lines", result, events), result, d)

(* The progress steps tell the outcome, as the events record them and as   *)
(* the page derives them: a step that waits never hides the only issue, a  *)
(* blocked invoice shows the blocking step, an accepted one passes every   *)
(* step; and the lines pass only if each is allocated to the order ("a     *)
(* tick for lines would claim a match that never happened", checks.py:299; *)
(* steps.ts:356).                                                          *)
ProgressTellsOutcome ==
    decision # None =>
        /\ StepsTell(decision.result, decision.data)
        /\ \A events \in BOOLEAN : PageTells(decision.result, decision.data, events)

(* The steps in which a reason can be seen. *)
StepsOf(reason) ==
    CASE reason \in {"nopo", "po", "closed"} -> {"po"}
      [] reason = "inactive" -> {"supplier"}
      [] reason = "vendor" -> {"supplier", "document"}
      [] reason = "duplicate" -> {"duplicate"}
      [] reason \in {"price", "item"} -> {"lines"}
      [] reason = "budget" -> {"budget"}
      [] reason = "totals" -> {"document", "lines", "totals", "budget"}
      [] reason \in {"nonumber", "evidence"} -> {"document"}
      [] OTHER -> {"document", "lines"}

(* The row of the list shows an outcome only together with the fields it   *)
(* was decided for, and a reason for whatever is not accepted; the reason  *)
(* is one that a step of the progress shows, blocked if the invoice is,    *)
(* though it may come from a check whose own step waits (checks.py:127).   *)
RowGivesReason ==
    /\ Row.outcome # None => Row.data = decision.data
    /\ Row.reason = None <=> Row.outcome \in {None, "APPROVED"}
    /\ Row.reason # None =>
          \E g \in StepsOf(Row.reason) :
              GroupState(g, decision.result) =
                  IF Row.outcome = "BLOCKED" THEN "blocked" ELSE "review"
=============================================================================
