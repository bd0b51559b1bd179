------------------------------ MODULE MCPolicy ------------------------------
(* Policy with a small register, the documents and requests that reach     *)
(* every check, and three other invoices.  Amounts are tenths of a cent.   *)
EXTENDS Policy

CONSTANTS v1, v2, o1, o2, o3, s1, s2

MCVendorBook ==
    [v \in Vendors |-> IF v = v1 THEN [names |-> {"Acme", "Acme Tools"}, active |-> TRUE]
                       ELSE [names |-> {"Acme", "Old"}, active |-> FALSE]]

Drill == [descriptions |-> {"Drill"}, unit |-> "each", unit_price |-> 200000, quantity |-> 3]
Cable == [descriptions |-> {"Cable", "Cord"}, unit |-> "each", unit_price |-> 10000, quantity |-> 2]

MCOrderBook ==
    [o \in Orders |->
        [vendor |-> IF o = o3 THEN v2 ELSE v1, currency |-> "USD", active |-> o # o2,
         ceiling |-> 640000,
         lines |-> [s \in {s1, s2} |-> IF s = s1 THEN Drill ELSE Cable]]]

MCWeak == [r \in References |-> IF r \in {"A1", "A-1"} THEN 1 ELSE 2]

Drills(n, price) ==
    [sku |-> s1, description |-> None, unit |-> "each", quantity |-> n, unit_price |-> price,
     discount |-> None, total |-> n * price]

Cables == [sku |-> None, description |-> "Cord", unit |-> "each", quantity |-> 2,
           unit_price |-> 10000, discount |-> 1000, total |-> 19000]

Clean ==
    [supported |-> TRUE, clear |-> TRUE, vendor_identifier |-> v1, vendor_name |-> "Acme",
     invoice_number |-> "A1", invoice_date |-> "past", currency |-> "USD", po_reference |-> o1,
     subtotal |-> None, header_discount |-> None, shipping |-> None, tax |-> None,
     tax_rate |-> None, total |-> 200000, tax_treatment |-> "exclusive",
     lines |-> <<Drills(1, 200000)>>]

Fields(d) ==
    {<<0, f>> : f \in DOMAIN d} \cup UNION {{<<i, f>> : f \in DOMAIN d.lines[i]} : i \in DOMAIN d.lines}

Read(d) == [data |-> d, found |-> Fields(d)]

Unnamed == [Clean EXCEPT !.vendor_identifier = None]

Inclusive10 == [Clean EXCEPT !.tax_treatment = "inclusive", !.tax_rate = 10, !.tax = 18180,
                             !.lines = <<Drills(1, 200000)>>]

Rated == [Clean EXCEPT !.tax_rate = 10, !.tax = 21900, !.total = 240900, !.subtotal = 219000,
                       !.header_discount = 0, !.shipping = 0,
                       !.lines = <<Drills(1, 200000), Cables>>]

Freight == [Clean EXCEPT !.shipping = 5000, !.header_discount = 1000, !.tax_treatment = "none",
                         !.total = 204010]

MCDocuments ==
    {Read(d) : d \in {
        Clean, Inclusive10, Rated, Freight,
        [Inclusive10 EXCEPT !.lines = <<Drills(1, 222500)>>, !.total = 222500, !.tax = None],
        [Clean EXCEPT !.lines = <<Drills(2, 200000), Drills(1, 200990)>>, !.total = 600990],
        [Clean EXCEPT !.lines = <<Drills(3, 201500)>>, !.total = 604500],
        [Clean EXCEPT !.lines = <<Drills(2, 200000), Drills(2, 0)>>, !.total = 400000],
        [Unnamed EXCEPT !.po_reference = None],
        [Unnamed EXCEPT !.vendor_name = "Acme Tools", !.po_reference = Other],
        [Unnamed EXCEPT !.vendor_name = None, !.invoice_number = None],
        [Clean EXCEPT !.po_reference = o2, !.invoice_number = "A-1"],
        [Clean EXCEPT !.vendor_identifier = Other, !.vendor_name = "Old", !.po_reference = o3],
        [Clean EXCEPT !.supported = FALSE, !.po_reference = o3],
        [Clean EXCEPT !.clear = FALSE, !.lines = <<>>],
        [Clean EXCEPT !.tax_treatment = "ambiguous", !.tax_rate = Bad, !.total = Bad, !.po_reference = None]}}
    \cup {[data |-> Rated, found |-> Fields(Rated) \ {<<0, "total">>, <<1, "quantity">>}]}

Ask(values) == [values |-> values, vendor |-> None, order |-> None]

Correct(i, f, value) == Ask([x \in {<<i, f>>} |-> value])

Nothing == [x \in {} |-> 0]

MCRequests ==
    {Ask(Nothing),
     [values |-> Nothing, vendor |-> v1, order |-> None],
     [values |-> Nothing, vendor |-> v2, order |-> None],
     [values |-> Nothing, vendor |-> v1, order |-> o1],
     [values |-> Nothing, vendor |-> None, order |-> o1]}
    \cup {Correct(0, "total", n) : n \in {200000, 200004, 200020, 601000, 0}}
    \cup {Correct(0, "tax", n) : n \in {18200, 21900}}
    \cup {Correct(0, "tax_rate", n) : n \in {10, 101}}
    \cup {Correct(0, "invoice_number", r) : r \in {"A1", "A-1"}}
    \cup {Correct(0, "currency", "EUR"),
          Correct(0, "invoice_date", "future"), Correct(0, "shipping", 5000),
          Correct(0, "header_discount", 250000), Correct(0, "subtotal", 200000),
          Correct(0, "po_reference", o1),
          Correct(1, "quantity", 1), Correct(1, "quantity", 0), Correct(1, "unit_price", 200000),
          Correct(1, "total", 200009), Correct(1, "sku", Other), Correct(1, "unit", "box"),
          Correct(2, "discount", 0)}

Nobody == [s \in Skus |-> 0]

MCOtherInvoices ==
    {[vendor |-> v1, reference |-> "A1", total |-> 200000, date |-> "past", currency |-> "USD",
      accepted |-> FALSE, order |-> o1, quantities |-> Nobody],
     [vendor |-> v1, reference |-> "A-1", total |-> 200000, date |-> "other past",
      currency |-> "USD", accepted |-> FALSE, order |-> o1, quantities |-> Nobody],
     [vendor |-> v1, reference |-> "B2", total |-> 240000, date |-> "past", currency |-> "USD",
      accepted |-> TRUE, order |-> o1, quantities |-> [Nobody EXCEPT ![s1] = 1]]}
=============================================================================
