---------------------------- MODULE PolicyProofs ----------------------------
(***************************************************************************)
(* For every register, document and request: the types of what is decided; *)
(* the progress steps and the row of the list tell what was decided (a     *)
(* review or a block in a step that waits always comes with one in a step  *)
(* that does not); and what is accepted was authorised.                    *)
(***************************************************************************)
EXTENDS Policy, SumTheorems

(* The lines of a document are numbered from 1. *)
Numbered(d) ==
    /\ "lines" \in DOMAIN d
    /\ DOMAIN d.lines \subseteq Nat \ {0}
    /\ d.lines # <<>> => 1 \in DOMAIN d.lines

(* Checks that only pass or go to review, and depend on no other. *)
Mild(checks) ==
    \A c \in checks :
        c.state \in {"passed", "review"} /\ c.code \notin {"vendor", "duplicate", "budget"}

-----------------------------------------------------------------------------
LEMMA GroupOf ==
    ASSUME NEW c
    PROVE  /\ c.code = "vendor" => CheckGroup(c) = "supplier"
           /\ c.code \in {"po", "duplicate", "budget"} => CheckGroup(c) = c.code
           /\ c.code \in {"lines", "line", "line_match", "price"} => CheckGroup(c) = "lines"
           /\ c.code = "quantity" => CheckGroup(c) = "budget"
BY DEF CheckGroup, TOTALS

LEMMA GroupIsKnown == ASSUME NEW c PROVE CheckGroup(c) \in Groups
BY DEF CheckGroup, Groups

LEMMA JudgeIsMild == ASSUME NEW ok PROVE Judge(ok) \in {"passed", "review"}
BY DEF Judge

LEMMA CheckIsMild ==
    ASSUME NEW code, code \notin {"vendor", "duplicate", "budget"},
           NEW state, state \in {"passed", "review"}
    PROVE  Mild({Check(code, state)})
<1>1. Check(code, state).state = state /\ Check(code, state).code = code
    BY DEF Check, Said
<1> QED BY <1>1 DEF Mild

LEMMA JudgedIsMild ==
    ASSUME NEW code, code \notin {"vendor", "duplicate", "budget"}, NEW ok
    PROVE  Mild({Check(code, Judge(ok))})
BY JudgeIsMild, CheckIsMild

LEMMA WarnIsMild ==
    ASSUME NEW code, code \notin {"vendor", "duplicate", "budget"}, NEW wrong
    PROVE  Mild(Warn(code, wrong))
<1>1. Mild({Check(code, "review")}) /\ Mild({})
    BY CheckIsMild DEF Mild
<1> QED BY <1>1 DEF Warn

LEMMA StatedIsMild ==
    ASSUME NEW code, code \notin {"vendor", "duplicate", "budget"}, NEW present, NEW ok
    PROVE  Mild(Stated(code, present, ok))
<1>1. Mild({Check(code, Judge(ok))}) /\ Mild({})
    BY JudgedIsMild DEF Mild
<1> QED BY <1>1 DEF Stated

LEMMA DocumentIsMild ==
    ASSUME NEW d, NEW verified
    PROVE  /\ Mild(DocumentChecks(d, verified))
           /\ \E c \in DocumentChecks(d, verified) : CheckGroup(c) = "document"
           /\ d.invoice_number = None =>
                 \E c \in DocumentChecks(d, verified) :
                     CheckGroup(c) = "document" /\ c.state = "review"
<1>1. Mild(RequiredChecks(d))
  <2>1. /\ Mild({Check("required_invoice_number", Judge(d.invoice_number # None))})
        /\ Mild({Check("required_invoice_date", Judge(d.invoice_date # None))})
        /\ Mild({Check("required_currency", Judge(d.currency # None))})
        /\ Mild({Check("required_total", Judge(d.total # None))})
        /\ Mild({Check("required_vendor", Judge(d[Named(d)] # None))})
      BY JudgedIsMild
  <2> QED BY <2>1 DEF RequiredChecks, Mild
<1>2. Mild(Warn("extraction_warning", ~d.clear))
    BY WarnIsMild
<1>3. Mild(Warn("precision", IsNumber(d.total) /\ d.total % Cent # 0))
    BY WarnIsMild
<1>4. Mild(DocumentChecks(d, verified))
  <2> SUFFICES ASSUME NEW c \in DocumentChecks(d, verified)
               PROVE  c.state \in {"passed", "review"} /\ c.code \notin {"vendor", "duplicate", "budget"}
      BY DEF Mild
  <2>1. CASE c \in RequiredChecks(d)
      BY <1>1, <2>1 DEF Mild
  <2>2. CASE c \in Warn("extraction_warning", ~d.clear)
      BY <1>2, <2>2 DEF Mild
  <2>3. CASE c \in Warn("precision", IsNumber(d.total) /\ d.total % Cent # 0)
      BY <1>3, <2>3 DEF Mild
  <2> DEFINE scope == Check("scope", Judge(d.supported))
             grounded == Check("evidence", Judge(Critical(d) \subseteq verified))
             dated == Check("date", Judge(d.invoice_date \in {"past", "other past"}))
             dollars == Check("currency", Judge(d.currency = "USD"))
             positive == Check("positive_total", Judge(IsNumber(d.total) /\ d.total > 0))
  <2>4. CASE c \in {scope, grounded, dated, dollars, positive}
    <3>1. Mild({scope}) BY JudgedIsMild
    <3>2. Mild({grounded}) BY JudgedIsMild
    <3>3. Mild({dated}) BY JudgedIsMild
    <3>4. Mild({dollars}) BY JudgedIsMild
    <3>5. Mild({positive}) BY JudgedIsMild
    <3> QED BY <2>4, <3>1, <3>2, <3>3, <3>4, <3>5 DEF Mild
  <2>5. DocumentChecks(d, verified) =
          {scope, grounded, dated, dollars, positive} \cup RequiredChecks(d)
          \cup Warn("extraction_warning", ~d.clear)
          \cup Warn("precision", IsNumber(d.total) /\ d.total % Cent # 0)
      BY DEF DocumentChecks
  <2> HIDE DEF scope, grounded, dated, dollars, positive
  <2> QED BY <2>1, <2>2, <2>3, <2>4, <2>5
<1>5. Check("scope", Judge(d.supported)) \in DocumentChecks(d, verified)
    BY DEF DocumentChecks
<1>6. CheckGroup(Check("scope", Judge(d.supported))) = "document"
    BY DEF CheckGroup, Check, Said, TOTALS
<1>7. ASSUME d.invoice_number = None
      PROVE  \E c \in DocumentChecks(d, verified) : CheckGroup(c) = "document" /\ c.state = "review"
  <2> DEFINE known == d.invoice_number # None
             missing == Check("required_invoice_number", Judge(known))
  <2>1. missing \in DocumentChecks(d, verified)
      BY DEF DocumentChecks, RequiredChecks
  <2>2. CheckGroup(missing) = "document"
      BY DEF CheckGroup, Check, Said, TOTALS
  <2>3. missing.state = "review"
      BY <1>7 DEF Check, Said, Judge
  <2> HIDE DEF missing
  <2> QED BY <2>1, <2>2, <2>3
<1> QED BY <1>4, <1>5, <1>6, <1>7

LEMMA TotalsAreMild ==
    ASSUME NEW d
    PROVE  /\ Mild(TotalsChecks(d))
           /\ \E c \in TotalsChecks(d) : CheckGroup(c) = "totals"
<1> DEFINE basis == Check("tax_treatment", Judge(BasisKnown(d)))
           summed == Check("arithmetic", Judge(Reconciles(d)))
           open == Check("arithmetic", "review")
           subtotal == Stated("subtotal", d.subtotal # None, SubtotalAgrees(d))
           assumed == Stated("assumptions", Assumed(d), Reconciles(d))
<1>1. Mild({basis}) /\ Mild({open}) /\ Mild({summed})
    BY CheckIsMild, JudgedIsMild
<1>2. Mild(subtotal) /\ Mild(assumed)
    BY StatedIsMild
<1>3. Mild(TaxChecks(d))
  <2> DEFINE amount == Warn("tax_amount", d.tax # None /\ Distance(d.tax, DerivedTax(d)) > Cent)
             net == Warn("net_amount", OrZero(d.header_discount) > LineSum(d))
             rate == Stated("tax_rate_amount", d.tax_rate # None, RateAgrees(d))
             zero == Warn("zero_tax", d.tax_treatment = "none" /\ OrZero(d.tax) # 0)
  <2>1. Mild(amount) /\ Mild(net) /\ Mild(rate) /\ Mild(zero)
      BY WarnIsMild, StatedIsMild
  <2>2. TaxChecks(d) = IF Inclusive(d) THEN amount ELSE net \cup rate \cup zero
      BY DEF TaxChecks
  <2> HIDE DEF amount, net, rate, zero
  <2> QED BY <2>1, <2>2 DEF Mild
<1>4. TotalsChecks(d) =
        {basis} \cup IF Countable(d) THEN {summed} \cup TaxChecks(d) \cup subtotal \cup assumed ELSE {open}
    BY DEF TotalsChecks
<1>5. CheckGroup(basis) = "totals"
    BY DEF CheckGroup, Check, Said, TOTALS
<1> HIDE DEF basis, summed, open, subtotal, assumed
<1>6. Mild(TotalsChecks(d))
    BY <1>1, <1>2, <1>3, <1>4 DEF Mild
<1> QED BY <1>4, <1>5, <1>6

LEMMA MatchTells ==
    ASSUME PolicyAssumption, NEW d, NEW chosen,
           OrderOf(d, chosen) # None => VendorOf(d, chosen) # None
    PROVE  /\ \A c \in MatchChecks(d, chosen) :
                 /\ c.state \in States
                 /\ CheckGroup(c) \in {"supplier", "po"}
                 /\ CheckGroup(c) = "po" /\ c.state = "blocked" => OrderOf(d, chosen) # None
           /\ \E c \in MatchChecks(d, chosen) :
                 CheckGroup(c) = "supplier" /\ (VendorOf(d, chosen) = None => c.state = "review")
           /\ \E c \in MatchChecks(d, chosen) :
                 CheckGroup(c) = "po" /\ (OrderOf(d, chosen) = None => c.state = "review")
<1> DEFINE v == VendorOf(d, chosen)
           o == OrderOf(d, chosen)
           vendor == Check("vendor", IF v = None THEN "review"
                                     ELSE IF VendorBook[v].active THEN "passed" ELSE "blocked")
           conflict == Said("po", "review", "conflict")
           order == Check("po", IF o = None THEN "review"
                                ELSE IF OrderBook[o].active THEN "passed" ELSE "blocked")
<1>1. MatchChecks(d, chosen) = {vendor, IF Conflicts(d, chosen) THEN conflict ELSE order}
    BY DEF MatchChecks
<1>2. /\ vendor.state \in States /\ (v = None => vendor.state = "review")
      /\ CheckGroup(vendor) = "supplier"
  <2>1. vendor.code = "vendor" /\ vendor.line = 0
      BY DEF Check, Said
  <2>2. vendor.state \in States /\ (v = None => vendor.state = "review")
      BY DEF Check, Said, States
  <2> HIDE DEF vendor
  <2> QED BY <2>1, <2>2, GroupOf
<1>3. conflict.state = "review" /\ CheckGroup(conflict) = "po"
  <2>1. conflict.code = "po" /\ conflict.line = 0 /\ conflict.state = "review"
      BY DEF Said
  <2> HIDE DEF conflict
  <2> QED BY <2>1, GroupOf
<1>4. /\ order.state \in States /\ (o = None => order.state = "review")
      /\ CheckGroup(order) = "po"
  <2>1. order.code = "po" /\ order.line = 0
      BY DEF Check, Said
  <2>2. order.state \in States /\ (o = None => order.state = "review")
      BY DEF Check, Said, States
  <2> HIDE DEF order
  <2> QED BY <2>1, <2>2, GroupOf
<1> HIDE DEF v, o, vendor, conflict, order
<1>5. v = VendorOf(d, chosen) /\ o = OrderOf(d, chosen)
    BY DEF v, o
<1> QED BY <1>1, <1>2, <1>3, <1>4, <1>5 DEF States

LEMMA OrderNeedsVendor ==
    ASSUME NEW d, NEW chosen, OrderOf(d, chosen) # None
    PROVE  VendorOf(d, chosen) # None
BY DEF OrderOf, FoundOrder

LEMMA LineTells ==
    ASSUME NEW d, NEW o, NEW i \in Nat \ {0}
    PROVE  /\ LineChecks(d, o, i) # {}
           /\ \A c \in LineChecks(d, o, i) :
                 c.state \in {"passed", "review"} /\ CheckGroup(c) = "lines"
           /\ \/ o = None \/ Allocated(d.lines[i], o) # None
              \/ \E c \in LineChecks(d, o, i) : c.state = "review"
<1> DEFINE l == d.lines[i]
           s == Allocated(l, o)
           invalid == LineCheck("line", i, "review")
           sum == LineCheck("line", i, Judge(AddsUp(l)))
           unmatched == LineCheck("line_match", i, "review")
           allowed == PriceAllowed(100 * l.unit_price,
                          Scale(d) * OrderBook[o].lines[s].unit_price, Scale(d))
           price == LineCheck("price", i, Judge(allowed))
<1>1. LineChecks(d, o, i) =
        IF ~Valid(l) THEN {invalid}
        ELSE {sum} \cup IF o = None THEN {} ELSE IF s = None THEN {unmatched} ELSE {price}
    BY DEF LineChecks
<1>2. /\ invalid.state = "review" /\ unmatched.state = "review"
      /\ sum.state \in {"passed", "review"} /\ price.state \in {"passed", "review"}
    BY DEF LineCheck, Judge
<1>3. \A c \in {invalid, sum, unmatched, price} : CheckGroup(c) = "lines"
  <2>1. /\ invalid.line = i /\ sum.line = i /\ unmatched.line = i /\ price.line = i
        /\ invalid.code = "line" /\ sum.code = "line"
        /\ unmatched.code = "line_match" /\ price.code = "price"
      BY DEF LineCheck
  <2> HIDE DEF invalid, sum, unmatched, price
  <2> QED BY <2>1, GroupOf
<1> HIDE DEF invalid, sum, unmatched, price
<1> QED BY <1>1, <1>2, <1>3

LEMMA LinesTell ==
    ASSUME NEW d, NEW o, Numbered(d)
    PROVE  /\ \E c \in LinesChecks(d, o) : CheckGroup(c) = "lines"
           /\ \A c \in LinesChecks(d, o) :
                 c.state \in {"passed", "review"} /\ CheckGroup(c) = "lines"
           /\ \A i \in DOMAIN d.lines :
                 \/ o = None \/ Allocated(d.lines[i], o) # None
                 \/ \E c \in LinesChecks(d, o) : c.state = "review"
<1> DEFINE each == AllocationChecks(d, o)
           warning == Warn("lines", NotItemised(d))
<1>0. LinesChecks(d, o) = each \cup warning
    BY DEF LinesChecks
<1>1. DOMAIN d.lines \subseteq Nat \ {0}
    BY DEF Numbered
<1>2. \A c \in Warn("lines", NotItemised(d)) : c.state = "review" /\ CheckGroup(c) = "lines"
  <2> DEFINE missing == Check("lines", "review")
  <2>1. missing.code = "lines" /\ missing.line = 0 /\ missing.state = "review"
      BY DEF Check, Said
  <2>2. Warn("lines", NotItemised(d)) \subseteq {missing}
      BY DEF Warn
  <2> HIDE DEF missing
  <2> QED BY <2>1, <2>2, GroupOf
<1>3. \A c \in LinesChecks(d, o) : c.state \in {"passed", "review"} /\ CheckGroup(c) = "lines"
  <2> SUFFICES ASSUME NEW c \in LinesChecks(d, o)
               PROVE  c.state \in {"passed", "review"} /\ CheckGroup(c) = "lines"
      OBVIOUS
  <2>1. CASE c \in warning
      BY <1>2, <2>1
  <2>2. CASE c \in each
    <3>1. PICK i \in DOMAIN d.lines : c \in LineChecks(d, o, i)
        BY <2>2 DEF AllocationChecks
    <3>2. i \in Nat \ {0}
        BY <1>1
    <3> QED BY <3>1, <3>2, LineTells
  <2> HIDE DEF each, warning
  <2> QED BY <1>0, <2>1, <2>2
<1>4. LinesChecks(d, o) # {}
  <2>1. CASE d.lines = <<>>
    <3>1. Check("lines", "review") \in Warn("lines", NotItemised(d))
        BY <2>1 DEF Warn, NotItemised
    <3> HIDE DEF each
    <3> QED BY <1>0, <3>1
  <2>2. CASE d.lines # <<>>
    <3>1. 1 \in DOMAIN d.lines
        BY <2>2 DEF Numbered
    <3>2. LineChecks(d, o, 1) # {}
        BY LineTells
    <3>3. LineChecks(d, o, 1) \subseteq LinesChecks(d, o)
        BY <1>0, <3>1 DEF AllocationChecks
    <3> QED BY <3>2, <3>3
  <2> QED BY <2>1, <2>2
<1>5. ASSUME NEW i \in DOMAIN d.lines
      PROVE  \/ o = None \/ Allocated(d.lines[i], o) # None
             \/ \E c \in LinesChecks(d, o) : c.state = "review"
  <2>1. LineChecks(d, o, i) \subseteq LinesChecks(d, o)
      BY <1>0 DEF AllocationChecks
  <2> QED BY <1>1, <2>1, LineTells
<1> QED BY <1>3, <1>4, <1>5

LEMMA BudgetTells ==
    ASSUME NEW d, NEW o
    PROVE  /\ \E c \in BudgetChecks(d, o) : CheckGroup(c) = "budget"
           /\ \A c \in BudgetChecks(d, o) :
                 c.state \in {"passed", "review"} /\ CheckGroup(c) = "budget"
           /\ o # None => \A c \in BudgetChecks(d, o) : ~Depends(c)
<1> DEFINE none == Said("budget", "review", "unselected")
           amount == Said("budget", "review", "amount")
           fits == d.total <= Remaining(o)
           room == Check("budget", Judge(fits))
<1>1. \A c \in {none, amount, room} :
        c.state \in {"passed", "review"} /\ CheckGroup(c) = "budget"
  <2>1. /\ none.code = "budget" /\ none.state = "review"
        /\ amount.code = "budget" /\ amount.state = "review"
        /\ room.code = "budget" /\ room.state \in {"passed", "review"}
      BY DEF Said, Check, Judge
  <2> HIDE DEF none, amount, room
  <2> QED BY <2>1, GroupOf
<1>2. ASSUME NEW s, NEW c, c = Said("quantity", Judge(Incoming(d, o, s) <= Available(o, s)), s)
      PROVE  c.state \in {"passed", "review"} /\ CheckGroup(c) = "budget" /\ ~Depends(c)
  <2> DEFINE within == Incoming(d, o, s) <= Available(o, s)
  <2>1. c.code = "quantity" /\ c.state = Judge(within)
      BY <1>2 DEF Said
  <2> HIDE DEF within
  <2>2. c.state \in {"passed", "review"}
      BY <2>1, JudgeIsMild
  <2> QED BY <2>1, <2>2, GroupOf DEF Depends
<1>3. CASE o = None
  <2>1. BudgetChecks(d, o) = {none}
      BY <1>3 DEF BudgetChecks
  <2> HIDE DEF none, amount, room
  <2> QED BY <1>1, <1>3, <2>1
<1>4. CASE o # None
  <2>1. PICK c \in {amount, room} : c \in BudgetChecks(d, o)
      BY <1>4 DEF BudgetChecks
  <2>2. \A e \in BudgetChecks(d, o) :
          \/ e \in {amount, room}
          \/ \E s : e = Said("quantity", Judge(Incoming(d, o, s) <= Available(o, s)), s)
      BY <1>4 DEF BudgetChecks
  <2>3. ~Depends(amount) /\ ~Depends(room)
    <3>1. amount.code = "budget" /\ amount.about = "amount"
        BY DEF Said
    <3>2. room.code = "budget" /\ room.about = ""
        BY DEF Check, Said
    <3> HIDE DEF amount, room
    <3> QED BY <3>1, <3>2 DEF Depends
  <2> HIDE DEF none, amount, room
  <2> QED BY <1>1, <1>2, <2>1, <2>2, <2>3
<1> QED BY <1>3, <1>4

LEMMA DuplicateTells ==
    ASSUME NEW d, NEW v, NEW c \in DuplicateChecks(d, v)
    PROVE  /\ c.state \in States /\ CheckGroup(c) = "duplicate"
           /\ Depends(c) => v = None \/ d.invoice_number = None
<1>1. /\ c.state \in States /\ c.code = "duplicate"
      /\ Depends(c) => v = None \/ d.invoice_number = None
  <2>1. CASE v = None \/ d.invoice_number = None
    <3>1. c = Said("duplicate", "review", "unconfirmed")
        BY <2>1 DEF DuplicateChecks
    <3> QED BY <2>1, <3>1 DEF Said, States
  <2>2. CASE ~(v = None \/ d.invoice_number = None) /\ Collisions(d, v) # {}
    <3>1. PICK p : c = Check("duplicate", IF SameInvoice(d, p) THEN "blocked" ELSE "review")
        BY <2>2 DEF DuplicateChecks
    <3>2. c.code = "duplicate" /\ c.state \in {"blocked", "review"} /\ c.about = ""
        BY <3>1 DEF Check, Said
    <3> QED BY <3>2 DEF Depends, States
  <2>3. CASE ~(v = None \/ d.invoice_number = None) /\ Collisions(d, v) = {}
    <3>1. c = Check("duplicate", "passed") \/ c = Check("duplicate", "review")
        BY <2>3 DEF DuplicateChecks, Judge
    <3>2. c.code = "duplicate" /\ c.state \in {"passed", "review"} /\ c.about = ""
      <4>1. CASE c = Check("duplicate", "passed")
          BY <4>1 DEF Check, Said
      <4>2. CASE c = Check("duplicate", "review")
          BY <4>2 DEF Check, Said
      <4> QED BY <3>1, <4>1, <4>2
    <3> QED BY <3>2 DEF Depends, States
  <2> QED BY <2>1, <2>2, <2>3
<1> QED BY <1>1, GroupOf

LEMMA WorstIs ==
    ASSUME NEW S, S \subseteq States
    PROVE  /\ Worst(S) = "blocked" <=> "blocked" \in S
           /\ Worst(S) = "review" <=> "review" \in S /\ "blocked" \notin S
           /\ Worst(S) = "passed" <=> S = {"passed"}
BY DEF Worst, States

(* What evaluate guarantees of its checks, and how the steps show them. *)
Sound(result) ==
    /\ \A c \in result.checks : c.state \in States /\ CheckGroup(c) \in Groups
    /\ \A c \in result.checks :
          c.state = "blocked" =>
              \/ CheckGroup(c) \in {"supplier", "duplicate"}
              \/ CheckGroup(c) = "po" /\ result.order # None
    /\ \A g \in Groups : \E c \in result.checks : CheckGroup(c) = g
    /\ result.vendor = None => \E c \in result.checks : CheckGroup(c) = "supplier" /\ c.state = "review"
    /\ result.order = None => \E c \in result.checks : CheckGroup(c) = "po" /\ c.state = "review"
    /\ result.order # None => result.vendor # None
    /\ \A c \in result.checks : Depends(c) =>
          \E e \in result.checks : e.state = "review" /\ CheckGroup(e) \in {"supplier", "po", "document"}
    /\ result.outcome = Outcome(result.checks)

LEMMA EvaluationIsSound ==
    ASSUME PolicyAssumption, NEW d, Numbered(d), NEW verified, NEW chosen,
           NEW result \in Evaluations(d, verified, chosen)
    PROVE  Sound(result)
<1> DEFINE v == VendorOf(d, chosen)
           o == OrderOf(d, chosen)
           documents == DocumentChecks(d, verified)
           matches == MatchChecks(d, chosen)
           totals == TotalsChecks(d)
           lines == LinesChecks(d, o)
           budget == BudgetChecks(d, o)
           most == documents \cup matches \cup totals \cup lines \cup budget
<1>1. PICK c \in DuplicateChecks(d, v) :
         result = [outcome |-> Outcome(most \cup {c}), checks |-> most \cup {c},
                   vendor |-> v, order |-> o]
    BY DEF Evaluations
<1>2. /\ result.checks = documents \cup matches \cup totals \cup lines \cup budget \cup {c}
      /\ result.vendor = v /\ result.order = o /\ result.outcome = Outcome(result.checks)
    BY <1>1
<1>3. o # None => v # None
    BY OrderNeedsVendor
<1>4. /\ Mild(documents) /\ \E e \in documents : CheckGroup(e) = "document"
      /\ d.invoice_number = None =>
            \E e \in documents : CheckGroup(e) = "document" /\ e.state = "review"
      /\ Mild(totals) /\ \E e \in totals : CheckGroup(e) = "totals"
    BY DocumentIsMild, TotalsAreMild
<1>5. /\ \E e \in lines : CheckGroup(e) = "lines"
      /\ \A e \in lines : e.state \in {"passed", "review"} /\ CheckGroup(e) = "lines"
    BY LinesTell
<1>6. /\ \E e \in budget : CheckGroup(e) = "budget"
      /\ \A e \in budget : e.state \in {"passed", "review"}
      /\ o # None => \A e \in budget : ~Depends(e)
    BY BudgetTells
<1>7. /\ c.state \in States /\ CheckGroup(c) = "duplicate"
      /\ Depends(c) => v = None \/ d.invoice_number = None
    BY DuplicateTells
<1>8. /\ \A e \in matches :
            /\ e.state \in States
            /\ CheckGroup(e) \in {"supplier", "po"}
            /\ CheckGroup(e) = "po" /\ e.state = "blocked" => o # None
      /\ \E e \in matches : CheckGroup(e) = "supplier" /\ (v = None => e.state = "review")
      /\ \E e \in matches : CheckGroup(e) = "po" /\ (o = None => e.state = "review")
    BY <1>3, MatchTells
<1> HIDE DEF v, o, documents, matches, totals, lines, budget, most
<1>9. \A e \in result.checks : e.state \in States /\ CheckGroup(e) \in Groups
    BY <1>2, <1>4, <1>5, <1>6, <1>7, <1>8, GroupIsKnown DEF Mild, States
<1>10. ASSUME NEW e \in result.checks, e.state = "blocked"
       PROVE  \/ CheckGroup(e) \in {"supplier", "duplicate"}
              \/ CheckGroup(e) = "po" /\ result.order # None
  <2>1. CASE e \in documents \cup totals
      BY <1>4, <1>10, <2>1 DEF Mild
  <2>2. CASE e \in lines \cup budget
      BY <1>5, <1>6, <1>10, <2>2
  <2>3. CASE e \in matches
      BY <1>2, <1>8, <1>10, <2>3
  <2>4. CASE e = c
      BY <1>7, <2>4
  <2> QED BY <1>2, <2>1, <2>2, <2>3, <2>4
<1>11. \A g \in Groups : \E e \in result.checks : CheckGroup(e) = g
    BY <1>2, <1>4, <1>5, <1>6, <1>7, <1>8 DEF Groups
<1>12. /\ result.vendor = None =>
             \E e \in result.checks : CheckGroup(e) = "supplier" /\ e.state = "review"
       /\ result.order = None =>
             \E e \in result.checks : CheckGroup(e) = "po" /\ e.state = "review"
    BY <1>2, <1>8
<1>13. result.order # None => result.vendor # None
    BY <1>2, <1>3
<1>14. result.outcome = Outcome(result.checks)
    BY <1>2
<1>15. ASSUME NEW e \in result.checks, Depends(e)
       PROVE  \E k \in result.checks : k.state = "review" /\ CheckGroup(k) \in {"supplier", "po", "document"}
  <2>1. CheckGroup(e) \in {"duplicate", "budget"}
      BY <1>15, GroupOf DEF Depends
  <2>2. e \notin documents \cup totals
      BY <1>4, <1>15 DEF Mild, Depends
  <2>3. e \notin lines \cup matches
      BY <1>5, <1>8, <2>1
  <2>4. CASE e = c
      BY <1>2, <1>4, <1>7, <1>12, <1>15, <2>4
  <2>5. CASE e \in budget
      BY <1>2, <1>6, <1>12, <1>15, <2>5
  <2> QED BY <1>2, <2>2, <2>3, <2>4, <2>5
<1> QED BY ONLY <1>9, <1>10, <1>11, <1>12, <1>13, <1>14, <1>15 DEF Sound

-----------------------------------------------------------------------------
(* The states of the checks of a step. *)
StatesOf(result, g) == {c.state : c \in ChecksOf(g, result)}

LEMMA StepState ==
    ASSUME NEW result, Sound(result), NEW g \in Groups
    PROVE  /\ StatesOf(result, g) \subseteq States /\ StatesOf(result, g) # {}
           /\ \A c \in result.checks : CheckGroup(c) = g => c.state \in StatesOf(result, g)
           /\ ~Waits(g, result) => GroupState(g, result) = Worst(StatesOf(result, g))
           /\ Waits(g, result) => GroupState(g, result) = "skipped"
           /\ GroupState(g, result) \in {"blocked", "review", "passed"} => ~Waits(g, result)
<1>1. \A c : c \in ChecksOf(g, result) <=> c \in result.checks /\ CheckGroup(c) = g
    BY DEF ChecksOf
<1>2. StatesOf(result, g) \subseteq States /\ StatesOf(result, g) # {}
    BY <1>1 DEF Sound, StatesOf
<1>3. \A c \in result.checks : CheckGroup(c) = g => c.state \in StatesOf(result, g)
    BY <1>1 DEF StatesOf
<1>4. /\ ~Waits(g, result) => GroupState(g, result) = Worst(StatesOf(result, g))
      /\ Waits(g, result) => GroupState(g, result) = "skipped"
    BY DEF GroupState, StatesOf
<1> QED BY <1>2, <1>3, <1>4

LEMMA BlockIsShown ==
    ASSUME NEW result, Sound(result)
    PROVE  result.outcome = "BLOCKED" <=> \E g \in Groups : GroupState(g, result) = "blocked"
<1>1. ASSUME result.outcome = "BLOCKED"
      PROVE  \E g \in Groups : GroupState(g, result) = "blocked"
  <2>1. PICK c \in result.checks : c.state = "blocked"
      BY <1>1 DEF Sound, Outcome
  <2>2. CheckGroup(c) \in Groups /\ ~Waits(CheckGroup(c), result)
      BY <2>1 DEF Sound, Waits
  <2>3. "blocked" \in StatesOf(result, CheckGroup(c))
      BY <2>1, <2>2, StepState
  <2> QED BY <2>2, <2>3, StepState, WorstIs
<1>2. ASSUME NEW g \in Groups, GroupState(g, result) = "blocked"
      PROVE  result.outcome = "BLOCKED"
  <2>1. "blocked" \in StatesOf(result, g)
      BY <1>2, StepState, WorstIs
  <2>2. PICK c \in result.checks : c.state = "blocked"
      BY <2>1 DEF StatesOf, ChecksOf
  <2> QED BY <2>2 DEF Sound, Outcome
<1> QED BY <1>1, <1>2

LEMMA ReviewIsShown ==
    ASSUME NEW result, Sound(result)
    PROVE  result.outcome = "NEEDS_REVIEW" <=>
             /\ \E g \in Groups : GroupState(g, result) = "review"
             /\ ~\E g \in Groups : GroupState(g, result) = "blocked"
<1>1. ASSUME result.outcome = "NEEDS_REVIEW"
      PROVE  \E g \in Groups : GroupState(g, result) = "review"
  <2>1. PICK c \in result.checks : c.state = "review" /\ ~Waits(CheckGroup(c), result)
    <3>1. CASE result.vendor = None
        BY <3>1 DEF Sound, Waits
    <3>2. CASE result.vendor # None /\ result.order = None
        BY <3>2 DEF Sound, Waits
    <3>3. CASE result.vendor # None /\ result.order # None
        BY <1>1, <3>3 DEF Sound, Outcome, Waits
    <3> QED BY <3>1, <3>2, <3>3
  <2>2. CheckGroup(c) \in Groups /\ "review" \in StatesOf(result, CheckGroup(c))
      BY <2>1, StepState DEF Sound
  <2>3. "blocked" \notin StatesOf(result, CheckGroup(c))
      BY <1>1 DEF Sound, Outcome, StatesOf, ChecksOf
  <2> QED BY <2>1, <2>2, <2>3, StepState, WorstIs
<1>2. ASSUME NEW g \in Groups, GroupState(g, result) = "review", result.outcome # "BLOCKED"
      PROVE  result.outcome = "NEEDS_REVIEW"
  <2>1. "review" \in StatesOf(result, g)
      BY <1>2, StepState, WorstIs
  <2>2. PICK c \in result.checks : c.state = "review"
      BY <2>1 DEF StatesOf, ChecksOf
  <2> QED BY <1>2, <2>2 DEF Sound, Outcome
<1>3. result.outcome = "NEEDS_REVIEW" => result.outcome # "BLOCKED"
    OBVIOUS
<1> QED BY <1>1, <1>2, <1>3, BlockIsShown

LEMMA AcceptanceIsShown ==
    ASSUME NEW result, Sound(result)
    PROVE  result.outcome = "APPROVED" <=> \A g \in Groups : GroupState(g, result) = "passed"
<1>1. ASSUME result.outcome = "APPROVED", NEW g \in Groups
      PROVE  GroupState(g, result) = "passed"
  <2>1. \A c \in result.checks : c.state = "passed"
      BY <1>1 DEF Sound, Outcome, States
  <2>2. result.vendor # None /\ result.order # None
      BY <2>1 DEF Sound
  <2>3. ~Waits(g, result)
      BY <1>1, <2>2 DEF Waits
  <2>4. \A state \in StatesOf(result, g) : state = "passed"
      BY <2>1 DEF StatesOf, ChecksOf
  <2>5. StatesOf(result, g) # {}
      BY StepState
  <2>6. StatesOf(result, g) = {"passed"}
      BY <2>4, <2>5
  <2> QED BY <2>3, <2>6, StepState, WorstIs
<1>2. ASSUME \A g \in Groups : GroupState(g, result) = "passed"
      PROVE  result.outcome = "APPROVED"
  <2>1. result.outcome # "BLOCKED" /\ result.outcome # "NEEDS_REVIEW"
      BY <1>2, BlockIsShown, ReviewIsShown
  <2> QED BY <2>1 DEF Sound, Outcome
<1> QED BY <1>1, <1>2

-----------------------------------------------------------------------------
(* The page: a check that has no other to wait for shows in its step. *)
LEMMA ItemsAre ==
    ASSUME NEW result, NEW g, NEW c \in result.checks, CheckGroup(c) = g
    PROVE  ItemState(c, result) \in Items(g, result)
BY DEF Items, ChecksOf

LEMMA ItemsCome ==
    ASSUME NEW result, NEW g, NEW state \in Items(g, result)
    PROVE  state = "skipped" \/ \E c \in result.checks : CheckGroup(c) = g /\ c.state = state
BY DEF Items, ChecksOf, ItemState

LEMMA WorstOfAny ==
    ASSUME NEW S
    PROVE  /\ Worst(S) = "blocked" <=> "blocked" \in S
           /\ Worst(S) = "review" <=> "review" \in S /\ "blocked" \notin S
           /\ Worst(S) = "passed" => "passed" \in S /\ "review" \notin S /\ "blocked" \notin S
           /\ "passed" \in S /\ "review" \notin S /\ "blocked" \notin S => Worst(S) = "passed"
BY DEF Worst

LEMMA PageShowsBlock ==
    ASSUME NEW result, Sound(result), NEW events, NEW c \in result.checks, c.state = "blocked"
    PROVE  PageState(CheckGroup(c), result, events) = "blocked"
<1> DEFINE g == CheckGroup(c)
<1>1. g \in Groups /\ ~Waits(g, result)
    BY DEF Sound, Waits
<1>2. GroupState(g, result) = "blocked"
    BY <1>1, StepState, WorstIs
<1>3. ItemState(c, result) = "blocked"
    BY DEF ItemState, Depends
<1>4. Worst(Items(g, result)) = "blocked"
    BY <1>3, ItemsAre, WorstOfAny
<1>5. OwnState(g, result, events) = "blocked"
    BY <1>2, <1>4 DEF OwnState
<1> QED BY <1>5 DEF PageState

LEMMA PageShowsReview ==
    ASSUME NEW result, Sound(result), NEW events, result.outcome # "BLOCKED",
           NEW c \in result.checks, c.state = "review", ~Depends(c),
           ~Waits(CheckGroup(c), result),
           SupplierOpen(result) => CheckGroup(c) \notin {"po", "lines", "budget"}
    PROVE  PageState(CheckGroup(c), result, events) = "review"
<1> DEFINE g == CheckGroup(c)
<1>1. \A e \in result.checks : e.state # "blocked"
    BY DEF Sound, Outcome
<1>2. GroupState(g, result) = "review"
  <2>1. g \in Groups
      BY DEF Sound
  <2>2. "review" \in StatesOf(result, g)
      BY <2>1, StepState
  <2>3. "blocked" \notin StatesOf(result, g)
      BY <1>1 DEF StatesOf, ChecksOf
  <2> QED BY <2>1, <2>2, <2>3, StepState, WorstIs
<1>3. ItemState(c, result) = "review"
    BY DEF ItemState
<1>4. Worst(Items(g, result)) = "review"
  <2>1. "review" \in Items(g, result)
      BY <1>3, ItemsAre
  <2>2. "blocked" \notin Items(g, result)
      BY <1>1, ItemsCome
  <2> QED BY <2>1, <2>2, WorstOfAny
<1>5. OwnState(g, result, events) = "review"
    BY <1>2, <1>4 DEF OwnState
<1> QED BY <1>5 DEF PageState

LEMMA PageShowsChecks ==
    ASSUME NEW result, Sound(result), NEW events, NEW g \in Groups,
           NEW state \in {"blocked", "review"}, PageState(g, result, events) = state
    PROVE  \E c \in result.checks : c.state = state
<1>1. OwnState(g, result, events) = state
    BY DEF PageState
<1>2. state \in StatesOf(result, g) \/ state \in Items(g, result)
    BY <1>1, StepState, WorstIs, WorstOfAny DEF OwnState
<1> QED BY <1>2, ItemsCome DEF StatesOf, ChecksOf

LEMMA PageShowsPasses ==
    ASSUME NEW result, Sound(result), result.outcome = "APPROVED", NEW events, NEW g \in Groups
    PROVE  PageState(g, result, events) = "passed"
<1>1. \A c \in result.checks : c.state = "passed"
    BY DEF Sound, Outcome, States
<1>2. result.order # None /\ ~SupplierOpen(result)
    BY <1>1 DEF Sound, SupplierOpen
<1>3. GroupState(g, result) = "passed"
    BY AcceptanceIsShown
<1>4. Worst(Items(g, result)) = "passed"
  <2>1. PICK c \in result.checks : CheckGroup(c) = g
      BY DEF Sound
  <2>2. ItemState(c, result) = "passed"
      BY <1>1, <1>2 DEF ItemState, Depends
  <2>3. "passed" \in Items(g, result)
      BY <2>1, <2>2, ItemsAre
  <2>4. "review" \notin Items(g, result) /\ "blocked" \notin Items(g, result)
      BY <1>1, ItemsCome
  <2> QED BY <2>3, <2>4, WorstOfAny
<1>5. OwnState(g, result, events) = "passed"
    BY <1>3, <1>4 DEF OwnState
<1> QED BY <1>2, <1>5 DEF PageState

(* A check that keeps an invoice from being accepted is not hidden. *)
LEMMA ReviewHasAReason ==
    ASSUME NEW result, Sound(result), result.outcome = "NEEDS_REVIEW"
    PROVE  \E c \in result.checks :
              /\ c.state = "review" /\ ~Depends(c) /\ ~Waits(CheckGroup(c), result)
              /\ SupplierOpen(result) => CheckGroup(c) \notin {"po", "lines", "budget"}
<1>0. \A c \in result.checks : CheckGroup(c) \in {"supplier", "po", "document"} => ~Depends(c)
    BY GroupOf DEF Depends
<1>1. CASE SupplierOpen(result)
  <2>1. PICK c \in result.checks : c.code = "vendor" /\ c.state = "review"
      BY <1>1 DEF SupplierOpen
  <2>2. CheckGroup(c) = "supplier"
      BY <2>1, GroupOf
  <2> QED BY <1>0, <2>1, <2>2 DEF Waits
<1>2. CASE ~SupplierOpen(result) /\ result.vendor = None
    BY <1>0, <1>2 DEF Sound, Waits
<1>3. CASE ~SupplierOpen(result) /\ result.vendor # None /\ result.order = None
    BY <1>0, <1>3 DEF Sound, Waits
<1>4. CASE ~SupplierOpen(result) /\ result.vendor # None /\ result.order # None
  <2>1. PICK c \in result.checks : c.state = "review"
      BY DEF Sound, Outcome
  <2>2. \A g : ~Waits(g, result)
      BY <1>4 DEF Waits
  <2>3. CASE Depends(c)
      BY <1>0, <1>4, <2>2, <2>3 DEF Sound
  <2>4. CASE ~Depends(c)
      BY <1>4, <2>1, <2>2, <2>4
  <2> QED BY <2>3, <2>4
<1> QED BY <1>1, <1>2, <1>3, <1>4

PageStates(result, events) == {PageState(g, result, events) : g \in Groups}

LEMMA PageTellsOutcome ==
    ASSUME NEW result, Sound(result), NEW events
    PROVE  Tells(result.outcome, PageStates(result, events))
<1> DEFINE states == {PageState(g, result, events) : g \in Groups}
<1>1. result.outcome \in {"BLOCKED", "NEEDS_REVIEW", "APPROVED"}
    BY DEF Sound, Outcome
<1>2. "blocked" \in states <=> result.outcome = "BLOCKED"
  <2>1. ASSUME result.outcome = "BLOCKED"
        PROVE  "blocked" \in states
    <3>1. PICK c \in result.checks : c.state = "blocked"
        BY <2>1 DEF Sound, Outcome
    <3>2. CheckGroup(c) \in Groups
        BY DEF Sound
    <3>3. PageState(CheckGroup(c), result, events) = "blocked"
        BY <3>1, PageShowsBlock
    <3> QED BY <3>2, <3>3
  <2>2. ASSUME "blocked" \in states
        PROVE  result.outcome = "BLOCKED"
    <3>1. PICK g \in Groups : PageState(g, result, events) = "blocked"
        BY <2>2
    <3>2. \E c \in result.checks : c.state = "blocked"
        BY <3>1, PageShowsChecks
    <3> QED BY <3>2 DEF Sound, Outcome
  <2> QED BY <2>1, <2>2
<1>3. ASSUME result.outcome = "NEEDS_REVIEW"
      PROVE  "review" \in states
  <2>1. PICK c \in result.checks :
           /\ c.state = "review" /\ ~Depends(c) /\ ~Waits(CheckGroup(c), result)
           /\ SupplierOpen(result) => CheckGroup(c) \notin {"po", "lines", "budget"}
      BY <1>3, ReviewHasAReason
  <2>2. CheckGroup(c) \in Groups
      BY DEF Sound
  <2>3. result.outcome # "BLOCKED"
      BY <1>3
  <2>4. PageState(CheckGroup(c), result, events) = "review"
      BY <2>1, <2>3, PageShowsReview
  <2> QED BY <2>2, <2>4
<1>4. ASSUME "review" \in states
      PROVE  result.outcome # "APPROVED"
  <2>1. PICK g \in Groups : PageState(g, result, events) = "review"
      BY <1>4
  <2>2. \E c \in result.checks : c.state = "review"
      BY <2>1, PageShowsChecks
  <2> QED BY <2>2 DEF Sound, Outcome
<1>5. ASSUME result.outcome = "APPROVED"
      PROVE  states = {"passed"}
  <2>1. \A g \in Groups : PageState(g, result, events) = "passed"
      BY <1>5, PageShowsPasses
  <2>2. Groups # {}
      BY DEF Groups
  <2> QED BY <2>1, <2>2
<1>6. ASSUME states = {"passed"}
      PROVE  "review" \notin states /\ "blocked" \notin states
    BY <1>6
<1> HIDE DEF states
<1>7. Tells(result.outcome, states)
    BY <1>1, <1>2, <1>3, <1>4, <1>5, <1>6 DEF Tells
<1> QED BY <1>7 DEF states, PageStates

LEMMA EvaluationTells ==
    ASSUME PolicyAssumption, NEW d, Numbered(d), NEW verified, NEW chosen,
           NEW result \in Evaluations(d, verified, chosen)
    PROVE  StepsTell(result, d) /\ \A events \in BOOLEAN : PageTells(result, d, events)
<1>1. Sound(result)
    BY EvaluationIsSound
<1> DEFINE states == {GroupState(g, result) : g \in Groups}
<1>2. /\ result.outcome = "BLOCKED" <=> "blocked" \in states
      /\ result.outcome = "NEEDS_REVIEW" <=> "review" \in states /\ "blocked" \notin states
    BY <1>1, BlockIsShown, ReviewIsShown
<1>3. result.outcome = "APPROVED" <=> states = {"passed"}
  <2>1. Groups # {}
      BY DEF Groups
  <2>2. states = {"passed"} <=> \A g \in Groups : GroupState(g, result) = "passed"
      BY <2>1
  <2> QED BY <1>1, <2>2, AcceptanceIsShown
<1>4. Tells(result.outcome, states)
    BY <1>2, <1>3 DEF Tells
<1>5. ASSUME result.order # None,
             \A c \in result.checks : CheckGroup(c) = "lines" => c.state # "review"
      PROVE  \A i \in DOMAIN d.lines : Allocated(d.lines[i], result.order) # None
  <2>1. result.order = OrderOf(d, chosen) /\ LinesChecks(d, OrderOf(d, chosen)) \subseteq result.checks
    <3> DEFINE o == OrderOf(d, chosen)
               most == DocumentChecks(d, verified) \cup MatchChecks(d, chosen)
                       \cup TotalsChecks(d) \cup LinesChecks(d, o) \cup BudgetChecks(d, o)
    <3>1. PICK c : result = [outcome |-> Outcome(most \cup {c}), checks |-> most \cup {c},
                             vendor |-> VendorOf(d, chosen), order |-> o]
        BY DEF Evaluations
    <3>2. LinesChecks(d, o) \subseteq most
        OBVIOUS
    <3> HIDE DEF most
    <3> QED BY <3>1, <3>2
  <2>2. \A c \in LinesChecks(d, OrderOf(d, chosen)) : c.state # "review"
      BY <1>5, <2>1, LinesTell
  <2> QED BY <1>5, <2>1, <2>2, LinesTell
<1>6. "lines" \in Groups
    BY DEF Groups
<1>7. TickClaims(GroupState("lines", result), result, d)
  <2> SUFFICES ASSUME GroupState("lines", result) = "passed"
               PROVE  /\ result.order # None
                      /\ \A c \in result.checks : CheckGroup(c) = "lines" => c.state # "review"
      BY <1>5 DEF TickClaims
  <2>1. ~Waits("lines", result) /\ StatesOf(result, "lines") = {"passed"}
      BY <1>1, <1>6, StepState, WorstIs
  <2> QED BY <1>1, <1>6, <2>1, StepState DEF Waits
<1>8. ASSUME NEW events
      PROVE  TickClaims(PageState("lines", result, events), result, d)
  <2> SUFFICES ASSUME PageState("lines", result, events) = "passed"
               PROVE  /\ result.order # None
                      /\ \A c \in result.checks : CheckGroup(c) = "lines" => c.state # "review"
      BY <1>5 DEF TickClaims
  <2>1. OwnState("lines", result, events) = "passed" /\ result.order # None
      BY DEF PageState
  <2>2. ASSUME NEW c \in result.checks, CheckGroup(c) = "lines", c.state = "review"
        PROVE  FALSE
    <3>1. "review" \in StatesOf(result, "lines")
        BY <1>1, <1>6, <2>2, StepState
    <3>2. ItemState(c, result) = "review"
        BY <2>2, GroupOf DEF ItemState, Depends
    <3>3. "review" \in Items("lines", result)
        BY <2>2, <3>2, ItemsAre
    <3> QED BY <1>1, <1>6, <2>1, <3>1, <3>3, StepState, WorstIs, WorstOfAny DEF OwnState
  <2> QED BY <2>1, <2>2
<1>9. StepsTell(result, d)
    BY <1>4, <1>7 DEF StepsTell
<1>10. ASSUME NEW events \in BOOLEAN
       PROVE  PageTells(result, d, events)
  <2>1. Tells(result.outcome, PageStates(result, events))
      BY <1>1, PageTellsOutcome
  <2> QED BY <1>8, <2>1 DEF PageTells, PageStates
<1> QED BY <1>9, <1>10

-----------------------------------------------------------------------------
(* Every check has the type of a check. *)
(* The codes that checks have. *)
CodeSet == {Codes[i] : i \in DOMAIN Codes}

LEMMA CodesAreKnown ==
    /\ {"scope", "extraction_warning", "required_invoice_number", "required_invoice_date",
        "required_currency", "required_total", "required_vendor", "evidence", "date", "currency",
        "positive_total", "precision"} \subseteq CodeSet
    /\ {"vendor", "po", "tax_treatment", "line", "line_match",
        "price", "lines", "tax_amount", "net_amount", "tax_rate_amount", "zero_tax"} \subseteq CodeSet
    /\ {"arithmetic", "subtotal", "assumptions", "duplicate", "budget", "quantity"} \subseteq CodeSet
    /\ DOMAIN Codes \subseteq Nat
<1>1. DOMAIN Codes = 1 .. 29
    BY DEF Codes
<1>2. /\ Codes[1] = "scope" /\ Codes[2] = "extraction_warning"
      /\ Codes[3] = "required_invoice_number" /\ Codes[4] = "required_invoice_date"
      /\ Codes[5] = "required_currency" /\ Codes[6] = "required_total"
      /\ Codes[7] = "required_vendor" /\ Codes[8] = "evidence" /\ Codes[9] = "date"
      /\ Codes[10] = "currency" /\ Codes[11] = "positive_total" /\ Codes[12] = "precision"
      /\ Codes[13] = "vendor" /\ Codes[14] = "po" /\ Codes[15] = "tax_treatment"
      /\ Codes[16] = "line" /\ Codes[17] = "line_match" /\ Codes[18] = "price"
      /\ Codes[19] = "lines" /\ Codes[20] = "tax_amount" /\ Codes[21] = "net_amount"
      /\ Codes[22] = "tax_rate_amount" /\ Codes[23] = "zero_tax" /\ Codes[24] = "arithmetic"
      /\ Codes[25] = "subtotal" /\ Codes[26] = "assumptions" /\ Codes[27] = "duplicate"
      /\ Codes[28] = "budget" /\ Codes[29] = "quantity"
    BY DEF Codes
<1>3. \A i \in 1 .. 29 : Codes[i] \in CodeSet
    BY <1>1 DEF CodeSet
<1> QED BY <1>1, <1>2, <1>3

LEMMA ChecksAre ==
    Checks = [code: CodeSet, line: Nat, state: States, about: Abouts]
BY DEF Checks, CodeSet

LEMMA SaidIsTyped ==
    ASSUME NEW code \in CodeSet, NEW state \in States, NEW about \in Abouts
    PROVE  Said(code, state, about) \in Checks /\ Check(code, state) \in Checks
<1>1. \A t \in Abouts :
        [code |-> code, line |-> 0, state |-> state, about |-> t] \in Checks
    BY ChecksAre
<1>2. "" \in Abouts
    BY DEF Abouts
<1> QED BY <1>1, <1>2 DEF Said, Check

LEMMA LineCheckIsTyped ==
    ASSUME NEW code \in CodeSet, NEW i \in Nat, NEW state \in States
    PROVE  LineCheck(code, i, state) \in Checks
<1>1. "" \in Abouts
    BY DEF Abouts
<1>2. [code |-> code, line |-> i, state |-> state, about |-> ""] \in Checks
    BY <1>1, ChecksAre
<1> QED BY <1>2 DEF LineCheck

LEMMA JudgedAreTyped ==
    ASSUME NEW code \in CodeSet, NEW ok, NEW present
    PROVE  /\ Check(code, Judge(ok)) \in Checks
           /\ Warn(code, ok) \subseteq Checks
           /\ Stated(code, present, ok) \subseteq Checks
<1>1. Judge(ok) \in States /\ "review" \in States
    BY DEF Judge, States
<1>2. Check(code, Judge(ok)) \in Checks /\ Check(code, "review") \in Checks
  <2>1. "" \in Abouts
      BY DEF Abouts
  <2> QED BY <1>1, <2>1, SaidIsTyped
<1> QED BY <1>2 DEF Warn, Stated

LEMMA DocumentIsTyped ==
    ASSUME NEW d, NEW verified
    PROVE  DocumentChecks(d, verified) \subseteq Checks
<1> DEFINE grounded == Critical(d) \subseteq verified
           dated == d.invoice_date \in {"past", "other past"}
           dollars == d.currency = "USD"
           positive == IsNumber(d.total) /\ d.total > 0
           fine == IsNumber(d.total) /\ d.total % Cent # 0
           unclear == ~d.clear
<1>1. /\ Check("scope", Judge(d.supported)) \in Checks /\ Check("evidence", Judge(grounded)) \in Checks
      /\ Check("date", Judge(dated)) \in Checks /\ Check("currency", Judge(dollars)) \in Checks
      /\ Check("positive_total", Judge(positive)) \in Checks
      /\ Warn("extraction_warning", unclear) \subseteq Checks /\ Warn("precision", fine) \subseteq Checks
  <2> HIDE DEF grounded, dated, dollars, positive, fine, unclear
  <2> QED BY JudgedAreTyped, CodesAreKnown
<1>2. RequiredChecks(d) \subseteq Checks
  <2>1. /\ Check("required_invoice_number", Judge(d.invoice_number # None)) \in Checks
        /\ Check("required_invoice_date", Judge(d.invoice_date # None)) \in Checks
        /\ Check("required_currency", Judge(d.currency # None)) \in Checks
        /\ Check("required_total", Judge(d.total # None)) \in Checks
        /\ Check("required_vendor", Judge(d[Named(d)] # None)) \in Checks
      BY JudgedAreTyped, CodesAreKnown
  <2> QED BY <2>1 DEF RequiredChecks
<1> QED BY <1>1, <1>2, ZenonT(60) DEF DocumentChecks

LEMMA MatchIsTyped ==
    ASSUME NEW d, NEW chosen
    PROVE  MatchChecks(d, chosen) \subseteq Checks
<1>1. /\ \A state \in States : Check("vendor", state) \in Checks /\ Check("po", state) \in Checks
      /\ Said("po", "review", "conflict") \in Checks
    BY SaidIsTyped, CodesAreKnown DEF States, Abouts
<1> QED BY <1>1 DEF MatchChecks, States

LEMMA TotalsAreTyped ==
    ASSUME NEW d
    PROVE  TotalsChecks(d) \subseteq Checks
<1>1. TaxChecks(d) \subseteq Checks
  <2> DEFINE other == d.tax # None /\ Distance(d.tax, DerivedTax(d)) > Cent
             negative == OrZero(d.header_discount) > LineSum(d)
             present == d.tax_rate # None
             untaxed == d.tax_treatment = "none" /\ OrZero(d.tax) # 0
             rate == RateAgrees(d)
  <2>1. /\ Warn("tax_amount", other) \subseteq Checks /\ Warn("net_amount", negative) \subseteq Checks
        /\ Stated("tax_rate_amount", present, rate) \subseteq Checks
        /\ Warn("zero_tax", untaxed) \subseteq Checks
    <3> HIDE DEF other, negative, present, untaxed, rate
    <3> QED BY JudgedAreTyped, CodesAreKnown
  <2> QED BY <2>1 DEF TaxChecks
<1>2. /\ Check("tax_treatment", Judge(BasisKnown(d))) \in Checks
      /\ Check("arithmetic", Judge(Reconciles(d))) \in Checks
      /\ Check("arithmetic", "review") \in Checks
      /\ Stated("subtotal", d.subtotal # None, SubtotalAgrees(d)) \subseteq Checks
      /\ Stated("assumptions", Assumed(d), Reconciles(d)) \subseteq Checks
    BY JudgedAreTyped, SaidIsTyped, CodesAreKnown DEF States, Abouts
<1> QED BY <1>1, <1>2 DEF TotalsChecks

LEMMA LinesAreTyped ==
    ASSUME NEW d, NEW o, DOMAIN d.lines \subseteq Nat
    PROVE  LinesChecks(d, o) \subseteq Checks
<1>1. ASSUME NEW i \in DOMAIN d.lines
      PROVE  LineChecks(d, o, i) \subseteq Checks
  <2>1. \A code \in {"line", "line_match", "price"}, state \in {"passed", "review"} :
           LineCheck(code, i, state) \in Checks
      BY LineCheckIsTyped, CodesAreKnown DEF States
  <2>2. \A ok : Judge(ok) \in {"passed", "review"}
      BY DEF Judge
  <2> QED BY <2>1, <2>2 DEF LineChecks
<1>2. Warn("lines", NotItemised(d)) \subseteq Checks
    BY JudgedAreTyped, CodesAreKnown
<1> QED BY <1>1, <1>2 DEF LinesChecks, AllocationChecks

LEMMA BudgetIsTyped ==
    ASSUME NEW d, NEW o, o # None => DOMAIN OrderBook[o].lines \subseteq Skus
    PROVE  BudgetChecks(d, o) \subseteq Checks
<1>1. \A about \in {"unselected", "amount"} : Said("budget", "review", about) \in Checks
    BY SaidIsTyped, CodesAreKnown DEF States, Abouts
<1>2. Check("budget", Judge(d.total <= Remaining(o))) \in Checks
  <2> DEFINE ok == d.total <= Remaining(o)
  <2> HIDE DEF ok
  <2>1. Check("budget", Judge(ok)) \in Checks
      BY JudgedAreTyped, CodesAreKnown
  <2> QED BY <2>1 DEF ok
<1>3. ASSUME NEW s \in Skus
      PROVE  Said("quantity", Judge(Incoming(d, o, s) <= Available(o, s)), s) \in Checks
  <2> DEFINE ok == Incoming(d, o, s) <= Available(o, s)
  <2> HIDE DEF ok
  <2>1. Said("quantity", Judge(ok), s) \in Checks
      BY SaidIsTyped, CodesAreKnown DEF States, Abouts, Judge
  <2> QED BY <2>1 DEF ok
<1> QED BY <1>1, <1>2, <1>3 DEF BudgetChecks

LEMMA DuplicatesAreTyped ==
    ASSUME NEW d, NEW v
    PROVE  DuplicateChecks(d, v) \subseteq Checks
<1>1. ASSUME NEW state \in States PROVE Check("duplicate", state) \in Checks
  <2>1. "duplicate" \in CodeSet /\ "" \in Abouts
      BY CodesAreKnown DEF Abouts
  <2> QED BY <2>1, SaidIsTyped
<1>2. Said("duplicate", "review", "unconfirmed") \in Checks
    BY SaidIsTyped, CodesAreKnown DEF States, Abouts
<1>3. CASE v = None \/ d.invoice_number = None
    BY <1>2, <1>3 DEF DuplicateChecks
<1>4. CASE ~(v = None \/ d.invoice_number = None) /\ Collisions(d, v) # {}
  <2>1. "blocked" \in States /\ "review" \in States
      BY DEF States
  <2>2. Check("duplicate", "blocked") \in Checks /\ Check("duplicate", "review") \in Checks
      BY <1>1, <2>1
  <2> QED BY <1>4, <2>2 DEF DuplicateChecks
<1>5. CASE ~(v = None \/ d.invoice_number = None) /\ Collisions(d, v) = {}
  <2> DEFINE apart == \A p \in others : p.vendor = v /\ p.reference # None =>
                                           Weak[p.reference] # Weak[d.invoice_number]
  <2>1. DuplicateChecks(d, v) = {Check("duplicate", Judge(apart))}
      BY <1>5 DEF DuplicateChecks
  <2> HIDE DEF apart
  <2>2. Judge(apart) \in States
      BY DEF Judge, States
  <2> QED BY <1>1, <2>1, <2>2
<1> QED BY <1>3, <1>4, <1>5

-----------------------------------------------------------------------------
(* Corrections keep the type of the fields. *)
LEMMA RequestedValue ==
    ASSUME PolicyAssumption, NEW q, Request(q), NEW d \in Data, Correctable(d, q.values),
           NEW i, NEW name, <<i, name>> \in DOMAIN q.values
    PROVE  /\ q.values[<<i, name>>] \in ValuesOf(name)
           /\ i = 0 => name \in HeaderFields
           /\ i \in DOMAIN d.lines => name \in LineFields
<1>1. 0 \notin DOMAIN d.lines
  <2>1. d.lines \in Seq(Line)
      BY DEF Data
  <2> QED BY <2>1
<1>2. <<i, name>> \in {0} \X HeaderFields \/ <<i, name>> \in (DOMAIN d.lines) \X LineFields
    BY DEF Correctable
<1>3. q.values[<<i, name>>] \in ValuesOf(<<i, name>>[2]) \cup {None, Bad}
    BY DEF Request
<1>4. q.values[<<i, name>>] \notin {None, Bad}
    BY DEF Correctable
<1> QED BY <1>1, <1>2, <1>3, <1>4

LEMMA CorrectedLineIsTyped ==
    ASSUME NEW l \in Line, NEW m, DOMAIN m = DOMAIN l, m = [g \in DOMAIN m |-> m[g]],
           \A g \in DOMAIN l : m[g] = l[g] \/ (g \in LineFields /\ m[g] \in ValuesOf(g))
    PROVE  m \in Line
<1>1. DOMAIN l = {"sku", "description", "unit", "quantity", "unit_price", "discount", "total"}
    BY DEF Line
<1>2. /\ m.sku \in Skus \cup {None, Other} /\ m.description \in Texts \cup {None}
      /\ m.unit \in Texts \cup {None}
    BY <1>1 DEF Line, ValuesOf
<1>3. m.quantity \in Amount /\ m.unit_price \in Amount /\ m.discount \in Amount /\ m.total \in Amount
    BY <1>1 DEF Line, ValuesOf, Amount
<1> QED BY <1>1, <1>2, <1>3 DEF Line

LEMMA CorrectedDataIsTyped ==
    ASSUME NEW d \in Data, NEW e, DOMAIN e = DOMAIN d, e = [g \in DOMAIN e |-> e[g]],
           e.lines \in Seq(Line),
           \A g \in DOMAIN d \ {"lines"} : e[g] = d[g] \/ (g \in HeaderFields /\ e[g] \in ValuesOf(g))
    PROVE  e \in Data
<1>1. DOMAIN d = {"supported", "clear", "vendor_identifier", "vendor_name", "invoice_number",
                  "invoice_date", "currency", "po_reference", "subtotal", "header_discount",
                  "shipping", "tax", "tax_rate", "total", "tax_treatment", "lines"}
    BY DEF Data
<1>2. /\ e.supported \in BOOLEAN /\ e.clear \in BOOLEAN
      /\ e.tax_treatment \in {"exclusive", "inclusive", "none", "ambiguous"}
  <2>1. /\ e["supported"] = d["supported"] /\ e["clear"] = d["clear"]
        /\ e["tax_treatment"] = d["tax_treatment"]
      BY <1>1 DEF HeaderFields
  <2>2. /\ d["supported"] \in BOOLEAN /\ d["clear"] \in BOOLEAN
        /\ d["tax_treatment"] \in {"exclusive", "inclusive", "none", "ambiguous"}
      BY DEF Data
  <2> QED BY <2>1, <2>2
<1>3. /\ e.vendor_identifier \in Vendors \cup {None, Other}
      /\ e.vendor_name \in Texts \cup {None} /\ e.currency \in Texts \cup {None}
    BY <1>1 DEF Data, ValuesOf
<1>4. /\ e.invoice_number \in References \cup {None}
      /\ e.invoice_date \in {"past", "other past", "future", "unclear", None}
      /\ e.po_reference \in Orders \cup {None, Other}
    BY <1>1 DEF Data, ValuesOf
<1>5. \A g \in {"subtotal", "header_discount", "shipping", "tax", "tax_rate", "total"} :
        e[g] \in Amount
    BY <1>1 DEF Data, ValuesOf, Amount
<1> QED BY <1>1, <1>2, <1>3, <1>4, <1>5 DEF Data

LEMMA CorrectedIsTyped ==
    ASSUME PolicyAssumption, NEW d \in Data, NEW q, Request(q), Correctable(d, q.values)
    PROVE  Corrected(d, q.values) \in Data
<1> DEFINE e == Corrected(d, q.values)
           field(i, g) == IF <<i, g>> \in DOMAIN q.values THEN q.values[<<i, g>>]
                          ELSE d.lines[i][g]
           line(i) == [g \in DOMAIN d.lines[i] |-> field(i, g)]
           lines == [i \in DOMAIN d.lines |-> line(i)]
<1>1. d.lines \in Seq(Line) /\ "lines" \in DOMAIN d
    BY DEF Data
<1>2. e.lines = lines /\ DOMAIN e = DOMAIN d /\ e = [g \in DOMAIN e |-> e[g]]
    BY <1>1 DEF Corrected
<1>3. lines \in Seq(Line)
  <2>1. ASSUME NEW i \in DOMAIN d.lines PROVE line(i) \in Line
    <3>1. d.lines[i] \in Line
        BY <1>1
    <3>2. DOMAIN line(i) = DOMAIN d.lines[i] /\ line(i) = [g \in DOMAIN line(i) |-> line(i)[g]]
        OBVIOUS
    <3>3. ASSUME NEW g \in DOMAIN d.lines[i]
          PROVE  \/ line(i)[g] = d.lines[i][g]
                 \/ g \in LineFields /\ line(i)[g] \in ValuesOf(g)
        BY RequestedValue
    <3> DEFINE m == line(i)
               l == d.lines[i]
    <3>4. /\ l \in Line /\ DOMAIN m = DOMAIN l /\ m = [g \in DOMAIN m |-> m[g]]
          /\ \A g \in DOMAIN l : m[g] = l[g] \/ (g \in LineFields /\ m[g] \in ValuesOf(g))
        BY <3>1, <3>2, <3>3
    <3> HIDE DEF m, l
    <3>5. m \in Line
        BY <3>4, CorrectedLineIsTyped
    <3> QED BY <3>5 DEF m
  <2> HIDE DEF line
  <2> QED BY <1>1, <2>1
<1>4. ASSUME NEW g \in DOMAIN d \ {"lines"}
      PROVE  e[g] = d[g] \/ (g \in HeaderFields /\ e[g] \in ValuesOf(g))
  <2>1. e[g] = IF <<0, g>> \in DOMAIN q.values THEN q.values[<<0, g>>] ELSE d[g]
      BY DEF Corrected
  <2> HIDE DEF e
  <2> QED BY <2>1, RequestedValue
<1> HIDE DEF e, lines
<1> QED BY <1>2, <1>3, <1>4, CorrectedDataIsTyped DEF e

-----------------------------------------------------------------------------
Chosen == [vendor: Vendors \cup {None}, order: Orders \cup {None}]

LEMMA OnlyIsOfSet ==
    ASSUME NEW S
    PROVE  Only(S) = None \/ Only(S) \in S
<1>1. ASSUME Cardinality(S) = 1 PROVE (CHOOSE x \in S : TRUE) \in S
  <2>1. S # {}
      BY <1>1, FS_EmptySet
  <2> QED BY <2>1
<1> QED BY <1>1 DEF Only

LEMMA MatchIsKnown ==
    ASSUME NEW d, NEW chosen \in Chosen
    PROVE  /\ VendorOf(d, chosen) \in Vendors \cup {None}
           /\ OrderOf(d, chosen) \in Orders \cup {None}
<1>1. chosen.vendor \in Vendors \cup {None} /\ chosen.order \in Orders \cup {None}
    BY DEF Chosen
<1>2. Candidates(d) \subseteq Vendors
    BY DEF Candidates
<1>3. VendorOf(d, chosen) \in Vendors \cup {None}
    BY <1>1, <1>2, OnlyIsOfSet DEF VendorOf
<1>4. FoundOrder(d, chosen) \in Orders \cup {None}
    BY <1>1 DEF FoundOrder
<1> QED BY <1>3, <1>4 DEF OrderOf

LEMMA DataIsNumbered ==
    ASSUME NEW d \in Data
    PROVE  Numbered(d)
<1>1. "lines" \in DOMAIN d /\ d.lines \in Seq(Line)
    BY DEF Data
<1> DEFINE lines == d.lines
<1>2. DOMAIN lines = 1 .. Len(lines) /\ Len(lines) \in Nat /\ (Len(lines) = 0 => lines = <<>>)
    BY <1>1
<1> HIDE DEF lines
<1>3. DOMAIN lines \subseteq Nat \ {0} /\ (lines # <<>> => 1 \in DOMAIN lines)
    BY <1>2
<1> QED BY <1>1, <1>3 DEF lines, Numbered

LEMMA EvaluationIsTyped ==
    ASSUME PolicyAssumption, NEW d \in Data, NEW verified, NEW chosen \in Chosen,
           NEW result \in Evaluations(d, verified, chosen)
    PROVE  result \in Results
<1> DEFINE v == VendorOf(d, chosen)
           o == OrderOf(d, chosen)
           most == DocumentChecks(d, verified) \cup MatchChecks(d, chosen) \cup TotalsChecks(d)
                   \cup LinesChecks(d, o) \cup BudgetChecks(d, o)
<1>1. PICK c \in DuplicateChecks(d, v) :
         result = [outcome |-> Outcome(most \cup {c}), checks |-> most \cup {c},
                   vendor |-> v, order |-> o]
    BY DEF Evaluations
<1>2. v \in Vendors \cup {None} /\ o \in Orders \cup {None}
    BY MatchIsKnown
<1>3. c \in Checks
    BY DuplicatesAreTyped
<1>4. most \subseteq Checks
  <2>1. DOMAIN d.lines \subseteq Nat
      BY DataIsNumbered DEF Numbered
  <2>2. o # None => DOMAIN OrderBook[o].lines \subseteq Skus
    <3>1. o # None => o \in Orders
        BY <1>2
    <3> HIDE DEF o
    <3> QED BY <3>1 DEF PolicyAssumption, IsOrder
  <2>3. LinesChecks(d, o) \subseteq Checks
      BY <2>1, LinesAreTyped
  <2>4. BudgetChecks(d, o) \subseteq Checks
      BY <2>2, BudgetIsTyped
  <2> QED BY <2>3, <2>4, DocumentIsTyped, MatchIsTyped, TotalsAreTyped
<1> HIDE DEF most, v, o
<1>5. Outcome(most \cup {c}) \in Outcomes
    BY DEF Outcome, Outcomes
<1> QED BY <1>1, <1>2, <1>3, <1>4, <1>5 DEF Results

(* The first decision is that of the first revision because there is one   *)
(* before any review.                                                      *)
TypeInv == TypeOK /\ (decision = None => revision.number = 1)

LEMMA TypeInvInitially == PolicyAssumption /\ Init => TypeInv
<1> SUFFICES ASSUME PolicyAssumption, Init PROVE TypeInv
    OBVIOUS
<1>1. PICK doc \in Documents :
         revision = [number |-> 1, data |-> doc.data, corrected |-> {},
                     chosen |-> [vendor |-> None, order |-> None]]
    BY DEF Init
<1>2. doc.data \in Data /\ MaxRevision \in Nat \ {0}
    BY DEF PolicyAssumption
<1>3. /\ revision.number = 1 /\ revision.data \in Data
      /\ revision.chosen \in [vendor: Vendors \cup {None}, order: Orders \cup {None}]
    BY <1>1, <1>2
<1>4. 1 \in 1 .. MaxRevision
    BY <1>2
<1> QED BY <1>3, <1>4 DEF Init, TypeInv, TypeOK, Applicable

LEMMA DecideKeepsTypes ==
    ASSUME PolicyAssumption, NullAssumption, TypeInv, Decide
    PROVE  TypeInv'
<1>1. PICK result \in Evaluations(revision.data, Verified, revision.chosen) :
         decision' = [number |-> revision.number, data |-> revision.data, result |-> result]
    BY DEF Decide
<1>2. /\ revision.number \in 1 .. MaxRevision /\ revision.data \in Data
      /\ revision.chosen \in Chosen
    BY DEF TypeInv, TypeOK, Chosen
<1>3. result \in Results
    BY <1>2, EvaluationIsTyped
<1>4. decision' \in Decisions /\ decision'.number = revision.number
    BY <1>1, <1>2, <1>3 DEF Decisions
<1>5. decision' # None
    BY <1>4 DEF NullAssumption
<1>6. run' = "COMPLETED" /\ revision' = revision /\ others' = others
    BY DEF Decide
<1>7. Applicable'
    BY <1>4, <1>5, <1>6 DEF Applicable
<1>8. first' # None /\ first'.number = 1
  <2>1. CASE first = None
    <3>1. revision.number = 1
        BY <2>1 DEF TypeInv, TypeOK
    <3> QED BY <1>4, <1>5, <2>1, <3>1 DEF Decide
  <2>2. CASE first # None
      BY <2>2 DEF Decide, TypeInv, TypeOK
  <2> QED BY <2>1, <2>2
<1>9. /\ revision'.number \in 1 .. MaxRevision /\ revision'.data \in Data
      /\ revision'.chosen \in Chosen /\ others' \subseteq OtherInvoices
    BY <1>2, <1>6 DEF TypeInv, TypeOK
<1> QED BY <1>4, <1>5, <1>6, <1>7, <1>8, <1>9 DEF TypeInv, TypeOK, Chosen

LEMMA ReviewKeepsTypes ==
    ASSUME PolicyAssumption, TypeInv, Review
    PROVE  TypeInv'
<1>1. PICK q \in Requests :
        /\ Correctable(revision.data, q.values)
        /\ revision'.number = revision.number + 1
        /\ revision'.data = Corrected(revision.data, q.values)
        /\ revision'.chosen =
              [vendor |-> IF q.vendor # None THEN q.vendor ELSE revision.chosen.vendor,
               order |-> IF q.order # None THEN q.order ELSE revision.chosen.order]
    BY DEF Review
<1>2. Request(q) /\ MaxRevision \in Nat
    BY DEF PolicyAssumption
<1>3. /\ revision.number \in 1 .. MaxRevision /\ revision.data \in Data
      /\ revision.chosen \in [vendor: Vendors \cup {None}, order: Orders \cup {None}]
    BY DEF TypeInv, TypeOK
<1>4. revision'.data \in Data
    BY <1>1, <1>2, <1>3, CorrectedIsTyped
<1>5. revision'.chosen \in [vendor: Vendors \cup {None}, order: Orders \cup {None}]
    BY <1>1, <1>2, <1>3 DEF Request
<1>6. revision'.number \in 1 .. MaxRevision
    BY <1>1, <1>2, <1>3 DEF Review
<1>7. Applicable /\ decision' = decision /\ first' = first /\ others' = others /\ run' = "ACTIVE"
    BY DEF Review, TypeInv, TypeOK
<1>8. ~Applicable'
    BY <1>1, <1>3, <1>7 DEF Applicable
<1> QED BY <1>4, <1>5, <1>6, <1>7, <1>8 DEF TypeInv, TypeOK, Applicable

LEMMA TypeInvPreserved ==
    PolicyAssumption /\ NullAssumption /\ TypeInv /\ [Next]_vars => TypeInv'
<1> SUFFICES ASSUME PolicyAssumption, NullAssumption, TypeInv, [Next]_vars PROVE TypeInv'
    OBVIOUS
<1>1. CASE DecideOther
    BY <1>1 DEF DecideOther, TypeInv, TypeOK, Applicable
<1>2. CASE UNCHANGED vars
    BY <1>2 DEF vars, TypeInv, TypeOK, Applicable
<1> QED BY <1>1, <1>2, DecideKeepsTypes, ReviewKeepsTypes DEF Next

(* For every document and every sequence of requests: corrections keep the *)
(* fields of an invoice what the rules read (main.py:594), evaluate gives  *)
(* a result of the schema (rules.py:569), the current decision is that of  *)
(* the current revision exactly when the run has ended, and the first one  *)
(* is of the first revision (pipeline.py:281).                             *)
THEOREM PolicyIsTyped == Spec => []TypeOK
<1>1. PolicyAssumption /\ NullAssumption
    BY PolicyAssumption, NullAssumption
<1>2. TypeInv => TypeOK
    BY DEF TypeInv
<1> QED BY <1>1, <1>2, TypeInvInitially, TypeInvPreserved, PTL DEF Spec

-----------------------------------------------------------------------------
(* The issue that leads: the order in which reasons are considered. *)
LEMMA PlaceIsNumber ==
    ASSUME NEW code \in CodeSet
    PROVE  Place(code) \in Nat
<1>1. PICK i \in DOMAIN Codes : Codes[i] = code
    BY DEF CodeSet
<1>2. Place(code) \in DOMAIN Codes
    BY <1>1 DEF Place
<1> QED BY <1>2, CodesAreKnown

LEMMA RankIs ==
    ASSUME NEW c
    PROVE  /\ Rank(c) \in Nat
           /\ c.state = "blocked" <=> Rank(c) < 10
           /\ c.state # "blocked" =>
                 /\ Rank(c) = 10 <=> c.code = "duplicate"
                 /\ Rank(c) = 11 <=> c.code = "vendor"
                 /\ Rank(c) = 12 <=> c.code = "budget"
BY DEF Rank

(* The least of numbers given by F: the members of S where F is least. *)
LEMMA LeastMembers ==
    ASSUME NEW S, S # {}, NEW f, \A c \in S : f[c] \in Nat
    PROVE  \E c \in S : \A e \in S : f[c] <= f[e]
<1> DEFINE T == {f[c] : c \in S}
<1>1. T \in SUBSET Nat /\ T # {}
    OBVIOUS
<1> HIDE DEF T
<1>2. PICK n \in T : \A m \in T : n <= m
    BY <1>1, LeastNumber
<1> QED BY <1>2 DEF T

LEMMA LeadingLeads ==
    ASSUME NEW S \in SUBSET Checks, S # {}
    PROVE  /\ Leading(S) \in S
           /\ \A e \in S : Rank(Leading(S)) <= Rank(e)
<1>1. \A c \in S : c.code \in CodeSet /\ c.line \in Nat
    BY ChecksAre
<1> DEFINE rank == [c \in S |-> Rank(c)]
           section == [c \in S |-> Section(c)]
           line == [c \in S |-> c.line]
           place == [c \in S |-> Place(c.code)]
<1>2. \A c \in S : rank[c] = Rank(c) /\ rank[c] \in Nat
    BY RankIs
<1>3. \A c \in S : section[c] = Section(c) /\ section[c] \in Nat
  <2>1. "line" \in CodeSet
      BY CodesAreKnown
  <2>2. \A c \in S : Section(c) \in Nat
      BY <1>1, <2>1, PlaceIsNumber DEF Section
  <2> QED BY <2>2
<1>4. \A c \in S : line[c] = c.line /\ line[c] \in Nat
    BY <1>1
<1>5. \A c \in S : place[c] = Place(c.code) /\ place[c] \in Nat
    BY <1>1, PlaceIsNumber
<1> HIDE DEF rank, section, line, place
<1>6. PICK c1 \in S : \A e \in S : rank[c1] <= rank[e]
    BY <1>2, LeastMembers
<1> DEFINE S1 == {e \in S : rank[e] = rank[c1]}
<1>7. PICK c2 \in S1 : \A e \in S1 : section[c2] <= section[e]
  <2>1. S1 # {} /\ \A e \in S1 : section[e] \in Nat
      BY <1>3, <1>6
  <2> HIDE DEF S1
  <2> QED BY <2>1, LeastMembers
<1> DEFINE S2 == {e \in S1 : section[e] = section[c2]}
<1>8. PICK c3 \in S2 : \A e \in S2 : line[c3] <= line[e]
  <2>1. S2 # {} /\ \A e \in S2 : line[e] \in Nat
      BY <1>4, <1>7
  <2> HIDE DEF S2
  <2> QED BY <2>1, LeastMembers
<1> DEFINE S3 == {e \in S2 : line[e] = line[c3]}
<1>9. PICK c4 \in S3 : \A e \in S3 : place[c4] <= place[e]
  <2>1. S3 # {} /\ \A e \in S3 : place[e] \in Nat
      BY <1>5, <1>8
  <2> HIDE DEF S3
  <2> QED BY <2>1, LeastMembers
<1>10. /\ c4 \in S /\ rank[c4] = rank[c1] /\ section[c4] = section[c2] /\ line[c4] = line[c3]
    BY <1>9
<1>11. ASSUME NEW e \in S
       PROVE  ~Before(e, c4)
  <2>1. rank[c4] <= rank[e]
      BY <1>6, <1>10
  <2>2. rank[e] = rank[c4] => section[c4] <= section[e]
      BY <1>7, <1>10
  <2>3. rank[e] = rank[c4] /\ section[e] = section[c4] => line[c4] <= line[e]
      BY <1>8, <1>10
  <2>4. rank[e] = rank[c4] /\ section[e] = section[c4] /\ line[e] = line[c4] => place[c4] <= place[e]
      BY <1>9, <1>10
  <2> HIDE DEF S1, S2, S3
  <2> QED BY <1>2, <1>3, <1>4, <1>5, <1>10, <2>1, <2>2, <2>3, <2>4 DEF Before
<1>12. Leading(S) \in S /\ \A e \in S : ~Before(e, Leading(S))
    BY <1>10, <1>11 DEF Leading
<1>13. ASSUME NEW e \in S
       PROVE  Rank(Leading(S)) <= Rank(e)
  <2>1. ~(Rank(e) < Rank(Leading(S)))
      BY <1>12 DEF Before
  <2> QED BY <2>1, RankIs
<1> QED BY <1>12, <1>13

-----------------------------------------------------------------------------
(* What the checks of an evaluation say of the fields it was made from. *)
Reasoned(result, d) ==
    /\ result.checks \subseteq Checks
    /\ \A c \in result.checks :
          /\ c.code = "duplicate" =>
                 (c.about = "unconfirmed" <=> result.vendor = None \/ d.invoice_number = None)
          /\ c.code = "duplicate" /\ c.about = "unconfirmed" => c.state = "review"
          /\ c.code = "vendor" /\ c.state = "review" => result.vendor = None
          /\ c.code = "budget" => (c.about = "unselected" <=> result.order = None)
    /\ result.vendor = None =>
          \E c \in result.checks : c.code = "duplicate" /\ c.state = "review"
    /\ result.order = None =>
          \E c \in result.checks : c.code = "budget" /\ c.about = "unselected" /\ c.state = "review"
    /\ d.invoice_number = None =>
          \E c \in result.checks : CheckGroup(c) = "document" /\ c.state = "review"

LEMMA GroupKnowsCode ==
    ASSUME NEW c
    PROVE  /\ CheckGroup(c) = "supplier" <=> c.code = "vendor"
           /\ CheckGroup(c) = "po" <=> c.code = "po"
           /\ CheckGroup(c) = "duplicate" <=> c.code = "duplicate"
           /\ CheckGroup(c) = "budget" <=> c.code \in {"budget", "quantity"}
BY DEF CheckGroup, TOTALS

LEMMA DuplicateSays ==
    ASSUME NEW d, NEW v, NEW c \in DuplicateChecks(d, v)
    PROVE  /\ c.code = "duplicate"
           /\ c.about = "unconfirmed" <=> v = None \/ d.invoice_number = None
           /\ c.about = "unconfirmed" => c.state = "review"
<1>1. CASE v = None \/ d.invoice_number = None
  <2>1. c = Said("duplicate", "review", "unconfirmed")
      BY <1>1 DEF DuplicateChecks
  <2> QED BY <1>1, <2>1 DEF Said
<1>2. CASE ~(v = None \/ d.invoice_number = None)
  <2>1. \E state : c = Check("duplicate", state)
    <3>1. CASE Collisions(d, v) # {}
        BY <1>2, <3>1 DEF DuplicateChecks
    <3>2. CASE Collisions(d, v) = {}
        BY <1>2, <3>2 DEF DuplicateChecks
    <3> QED BY <3>1, <3>2
  <2>2. c.code = "duplicate" /\ c.about = ""
    <3>1. PICK state : c = Check("duplicate", state)
        BY <2>1
    <3> QED BY <3>1 DEF Check, Said
  <2> QED BY <1>2, <2>2
<1> QED BY <1>1, <1>2

LEMMA MatchSays ==
    ASSUME NEW d, NEW chosen, NEW c \in MatchChecks(d, chosen)
    PROVE  /\ c.code \in {"vendor", "po"}
           /\ c.code = "vendor" /\ c.state = "review" => VendorOf(d, chosen) = None
<1> DEFINE v == VendorOf(d, chosen)
           state == IF v = None THEN "review"
                    ELSE IF VendorBook[v].active THEN "passed" ELSE "blocked"
<1>1. \/ c = Check("vendor", state)
      \/ c = Said("po", "review", "conflict")
      \/ \E other : c = Check("po", other)
    BY DEF MatchChecks
<1>2. state = "review" => v = None
    OBVIOUS
<1> HIDE DEF v, state
<1>3. CASE c = Check("vendor", state)
  <2>1. c.code = "vendor" /\ c.state = state
      BY <1>3 DEF Check, Said
  <2> QED BY <1>2, <2>1 DEF v
<1>4. CASE c = Said("po", "review", "conflict")
  <2>1. c.code = "po"
      BY <1>4 DEF Said
  <2> QED BY <2>1
<1>5. CASE \E other : c = Check("po", other)
  <2>1. PICK other : c = Check("po", other)
      BY <1>5
  <2>2. c.code = "po"
      BY <2>1 DEF Check, Said
  <2> QED BY <2>2
<1> QED BY <1>1, <1>3, <1>4, <1>5

LEMMA BudgetSays ==
    ASSUME NEW d, NEW o, NEW c \in BudgetChecks(d, o)
    PROVE  /\ c.code \in {"budget", "quantity"}
           /\ c.code = "budget" => (c.about = "unselected" <=> o = None)
           /\ o = None => c.code = "budget" /\ c.about = "unselected" /\ c.state = "review"
<1>1. CASE o = None
  <2>1. c = Said("budget", "review", "unselected")
      BY <1>1 DEF BudgetChecks
  <2> QED BY <1>1, <2>1 DEF Said
<1>2. CASE o # None
  <2>1. \/ c = Said("budget", "review", "amount")
        \/ \E state : c = Said("budget", state, "")
        \/ \E state, s : c = Said("quantity", state, s)
    <3>1. \/ c = (IF IsNumber(d.total) /\ d.total > 0
                  THEN Check("budget", Judge(d.total <= Remaining(o)))
                  ELSE Said("budget", "review", "amount"))
          \/ \E s : c = Said("quantity", Judge(Incoming(d, o, s) <= Available(o, s)), s)
        BY <1>2 DEF BudgetChecks
    <3>2. c = Check("budget", Judge(d.total <= Remaining(o))) => \E state : c = Said("budget", state, "")
        BY DEF Check
    <3> QED BY <3>1, <3>2
  <2>2. c.code \in {"budget", "quantity"} /\ (c.code = "budget" => c.about # "unselected")
    <3>1. CASE c = Said("budget", "review", "amount")
        BY <3>1 DEF Said
    <3>2. CASE \E state : c = Said("budget", state, "")
      <4>1. PICK state : c = Said("budget", state, "")
          BY <3>2
      <4> QED BY <4>1 DEF Said
    <3>3. CASE \E state, s : c = Said("quantity", state, s)
      <4>1. PICK state, s : c = Said("quantity", state, s)
          BY <3>3
      <4> QED BY <4>1 DEF Said
    <3> QED BY <2>1, <3>1, <3>2, <3>3
  <2> QED BY <1>2, <2>2
<1> QED BY <1>1, <1>2

LEMMA EvaluationIsReasoned ==
    ASSUME PolicyAssumption, NEW d \in Data, NEW verified, NEW chosen \in Chosen,
           NEW result \in Evaluations(d, verified, chosen)
    PROVE  Reasoned(result, d)
<1> DEFINE v == VendorOf(d, chosen)
           o == OrderOf(d, chosen)
           documents == DocumentChecks(d, verified)
           matches == MatchChecks(d, chosen)
           totals == TotalsChecks(d)
           lines == LinesChecks(d, o)
           budget == BudgetChecks(d, o)
           most == documents \cup matches \cup totals \cup lines \cup budget
<1>1. PICK k \in DuplicateChecks(d, v) :
         result = [outcome |-> Outcome(most \cup {k}), checks |-> most \cup {k},
                   vendor |-> v, order |-> o]
    BY DEF Evaluations
<1>2. /\ result.checks = documents \cup matches \cup totals \cup lines \cup budget \cup {k}
      /\ result.vendor = v /\ result.order = o
    BY <1>1
<1>3. result.checks \subseteq Checks
    BY EvaluationIsTyped DEF Results
<1>4. Numbered(d)
    BY DataIsNumbered
<1>5. \A c \in documents \cup totals : c.code \notin {"vendor", "duplicate", "budget"}
    BY DocumentIsMild, TotalsAreMild DEF Mild
<1>6. \A c \in lines : c.code \notin {"vendor", "duplicate", "budget"}
    BY <1>4, LinesTell, GroupKnowsCode
<1>7. \A c \in matches : c.code \in {"vendor", "po"} /\ (c.code = "vendor" /\ c.state = "review" => v = None)
    BY MatchSays
<1>8. \A c \in budget : /\ c.code \in {"budget", "quantity"}
                        /\ c.code = "budget" => (c.about = "unselected" <=> o = None)
                        /\ o = None => c.code = "budget" /\ c.about = "unselected" /\ c.state = "review"
    BY BudgetSays
<1>9. \E c \in budget : CheckGroup(c) = "budget"
    BY BudgetTells
<1>10. /\ k.code = "duplicate"
       /\ k.about = "unconfirmed" <=> v = None \/ d.invoice_number = None
       /\ k.about = "unconfirmed" => k.state = "review"
    BY DuplicateSays
<1>11. d.invoice_number = None => \E c \in documents : CheckGroup(c) = "document" /\ c.state = "review"
    BY DocumentIsMild
<1> HIDE DEF v, o, documents, matches, totals, lines, budget, most
<1>12. ASSUME NEW c \in result.checks
       PROVE  /\ c.code = "duplicate" =>
                     (c.about = "unconfirmed" <=> result.vendor = None \/ d.invoice_number = None)
              /\ c.code = "duplicate" /\ c.about = "unconfirmed" => c.state = "review"
              /\ c.code = "vendor" /\ c.state = "review" => result.vendor = None
              /\ c.code = "budget" => (c.about = "unselected" <=> result.order = None)
    BY <1>2, <1>5, <1>6, <1>7, <1>8, <1>10
<1>13. result.vendor = None => \E c \in result.checks : c.code = "duplicate" /\ c.state = "review"
    BY <1>2, <1>10
<1>14. result.order = None =>
          \E c \in result.checks : c.code = "budget" /\ c.about = "unselected" /\ c.state = "review"
    BY <1>2, <1>8, <1>9
<1>15. d.invoice_number = None =>
          \E c \in result.checks : CheckGroup(c) = "document" /\ c.state = "review"
    BY <1>2, <1>11
<1> QED BY <1>3, <1>12, <1>13, <1>14, <1>15 DEF Reasoned

LEMMA ClassifyIsReason ==
    ASSUME NEW c, NEW d
    PROVE  Classify(c, d) \in Reasons
BY DEF Classify, Reasons, Generic

(* A step that does not wait shows a review when nothing is blocked. *)
LEMMA StepShowsReview ==
    ASSUME NEW result, Sound(result), result.outcome = "NEEDS_REVIEW",
           NEW c \in result.checks, c.state = "review", ~Waits(CheckGroup(c), result)
    PROVE  GroupState(CheckGroup(c), result) = "review"
<1>1. CheckGroup(c) \in Groups /\ \A e \in result.checks : e.state # "blocked"
    BY DEF Sound, Outcome
<1>2. "review" \in StatesOf(result, CheckGroup(c))
    BY <1>1, StepState
<1>3. "blocked" \notin StatesOf(result, CheckGroup(c))
    BY <1>1 DEF StatesOf, ChecksOf
<1> QED BY <1>1, <1>2, <1>3, StepState, WorstIs

LEMMA StepShowsBlock ==
    ASSUME NEW result, Sound(result), NEW c \in result.checks, c.state = "blocked"
    PROVE  GroupState(CheckGroup(c), result) = "blocked"
<1>1. CheckGroup(c) \in Groups /\ ~Waits(CheckGroup(c), result)
    BY DEF Sound, Waits
<1>2. "blocked" \in StatesOf(result, CheckGroup(c))
    BY <1>1, StepState
<1> QED BY <1>1, <1>2, StepState, WorstIs

(* The reason is that of an issue of the least rank among those that are   *)
(* considered: the specific ones, when there are any.                      *)
LEMMA ReasonIsOfLeading ==
    ASSUME NEW checks \in SUBSET Checks, Issues(checks) # {}, NEW d
    PROVE  \E c \in Issues(checks) :
              /\ ReasonFor(checks, d) = Classify(c, d)
              /\ \A e \in Issues(checks) : Classify(e, d) \notin Generic => Rank(c) <= Rank(e)
<1> DEFINE specific == {c \in Issues(checks) : Classify(c, d) \notin Generic}
           considered == IF specific # {} THEN specific ELSE Issues(checks)
           c == Leading(considered)
<1>1. Issues(checks) \subseteq Checks
    BY DEF Issues
<1>2. considered \in SUBSET Checks /\ considered # {} /\ considered \subseteq Issues(checks)
      /\ specific \subseteq considered
    BY <1>1
<1>3. ReasonFor(checks, d) = Classify(c, d)
    BY DEF ReasonFor
<1> HIDE DEF considered
<1>4. c \in considered /\ \A e \in considered : Rank(c) <= Rank(e)
    BY <1>2, LeadingLeads
<1>5. \A e \in Issues(checks) : Classify(e, d) \notin Generic => Rank(c) <= Rank(e)
    BY <1>2, <1>4
<1> HIDE DEF c
<1> QED BY <1>2, <1>3, <1>4, <1>5

LEMMA BlockIsGiven ==
    ASSUME NEW result, NEW d, Sound(result), Reasoned(result, d), result.outcome = "BLOCKED"
    PROVE  \E g \in StepsOf(ReasonFor(result.checks, d)) : GroupState(g, result) = "blocked"
<1>1. PICK b \in result.checks : b.state = "blocked"
    BY DEF Sound, Outcome
<1>2. result.checks \in SUBSET Checks /\ b \in Issues(result.checks)
    BY <1>1 DEF Reasoned, Issues
<1>3. PICK c \in Issues(result.checks) :
        /\ ReasonFor(result.checks, d) = Classify(c, d)
        /\ \A e \in Issues(result.checks) : Classify(e, d) \notin Generic => Rank(c) <= Rank(e)
    BY <1>2, ReasonIsOfLeading
<1>4. ASSUME NEW e \in result.checks, e.state = "blocked"
      PROVE  \/ e.code = "vendor" /\ Classify(e, d) = "inactive"
             \/ e.code = "po" /\ Classify(e, d) = "closed"
             \/ e.code = "duplicate" /\ Classify(e, d) = "duplicate"
  <2>1. e.code \in {"vendor", "po", "duplicate"}
      BY <1>4, GroupKnowsCode DEF Sound
  <2>2. e.code = "duplicate" => e.about # "unconfirmed" /\ d.invoice_number # None
      BY <1>4 DEF Reasoned
  <2>3. CASE e.code = "vendor"
      BY <1>4, <2>3 DEF Classify, TOTALS
  <2>4. CASE e.code = "po"
      BY <1>4, <2>4 DEF Classify, TOTALS
  <2>5. CASE e.code = "duplicate"
      BY <2>2, <2>5 DEF Classify, TOTALS
  <2> QED BY <2>1, <2>3, <2>4, <2>5
<1>5. Classify(b, d) \notin Generic
    BY <1>1, <1>4 DEF Generic
<1>6. Rank(c) <= Rank(b)
    BY <1>2, <1>3, <1>5
<1>7. c \in result.checks /\ c.state = "blocked"
  <2>1. Rank(c) < 10
      BY <1>1, <1>6, RankIs
  <2> QED BY <2>1, RankIs DEF Issues
<1>8. CheckGroup(c) \in StepsOf(Classify(c, d))
  <2>1. CASE c.code = "vendor"
      BY <1>4, <1>7, <2>1, GroupOf DEF StepsOf
  <2>2. CASE c.code = "po"
      BY <1>4, <1>7, <2>2, GroupOf DEF StepsOf
  <2>3. CASE c.code = "duplicate"
      BY <1>4, <1>7, <2>3, GroupOf DEF StepsOf
  <2> QED BY <1>4, <1>7, <2>1, <2>2, <2>3
<1> QED BY <1>3, <1>7, <1>8, StepShowsBlock

(* The code of a check in review names a step that shows a reason like it. *)
LEMMA ReasonNamesStep ==
    ASSUME NEW c, NEW d, c.code \in CodeSet, c.state = "review",
           c.code = "duplicate" => c.about # "unconfirmed" /\ d.invoice_number # None,
           c.code = "budget" => c.about # "unselected"
    PROVE  CheckGroup(c) \in StepsOf(Classify(c, d))
<1>1. CASE c.code \in {"vendor", "po", "duplicate", "budget"}
  <2>1. CASE c.code = "vendor"
    <3>1. Classify(c, d) = "vendor"
        BY <2>1 DEF Classify, TOTALS
    <3> QED BY <2>1, <3>1, GroupOf DEF StepsOf
  <2>2. CASE c.code = "po"
    <3>1. Classify(c, d) \in {"po", "nopo"}
        BY <2>2 DEF Classify, TOTALS
    <3> QED BY <2>2, <3>1, GroupOf DEF StepsOf
  <2>3. CASE c.code = "duplicate"
    <3>1. Classify(c, d) = "duplicate"
        BY <2>3 DEF Classify, TOTALS
    <3> QED BY <2>3, <3>1, GroupOf DEF StepsOf
  <2>4. CASE c.code = "budget"
    <3>1. Classify(c, d) \in {"totals", "budget"}
        BY <2>4 DEF Classify, TOTALS
    <3> QED BY <2>4, <3>1, GroupOf DEF StepsOf
  <2> QED BY <1>1, <2>1, <2>2, <2>3, <2>4
<1>2. CASE c.code \in {"quantity", "price", "line_match", "line", "lines"}
  <2>1. CASE c.code = "quantity"
    <3>1. Classify(c, d) = "budget"
        BY <2>1 DEF Classify, TOTALS
    <3> QED BY <2>1, <3>1, GroupOf DEF StepsOf
  <2>2. CASE c.code \in {"price", "line_match", "line", "lines"}
    <3>1. Classify(c, d) \in {"price", "item", "totals", "other"}
        BY <2>2 DEF Classify, TOTALS
    <3>2. CheckGroup(c) = "lines"
        BY <2>2, GroupOf
    <3> QED BY <3>1, <3>2 DEF StepsOf
  <2> QED BY <1>2, <2>1, <2>2
<1>3. CASE c.code \in TOTALS
  <2>1. Classify(c, d) = "totals" /\ CheckGroup(c) = "totals"
      BY <1>3 DEF Classify, TOTALS, CheckGroup
  <2> QED BY <2>1 DEF StepsOf
<1>4. CASE c.code \notin {"vendor", "po", "duplicate", "budget", "quantity", "price",
                          "line_match", "line", "lines"} \cup TOTALS
  <2>1. CheckGroup(c) = "document"
      BY <1>4 DEF CheckGroup
  <2>2. Classify(c, d) \in {"totals", "nonumber", "vendor", "evidence", "other"}
      BY <1>4 DEF Classify, TOTALS
  <2> QED BY <2>1, <2>2 DEF StepsOf
<1> QED BY <1>1, <1>2, <1>3, <1>4

LEMMA ReviewIsGiven ==
    ASSUME NEW result, NEW d, Sound(result), Reasoned(result, d), result.outcome = "NEEDS_REVIEW"
    PROVE  \E g \in StepsOf(ReasonFor(result.checks, d)) : GroupState(g, result) = "review"
<1>1. /\ \A e \in result.checks : e.state # "blocked"
      /\ \E e \in result.checks : e.state = "review"
    BY DEF Sound, Outcome
<1>2. result.checks \in SUBSET Checks /\ Issues(result.checks) # {}
    BY <1>1 DEF Reasoned, Issues
<1>3. PICK c \in Issues(result.checks) :
        /\ ReasonFor(result.checks, d) = Classify(c, d)
        /\ \A e \in Issues(result.checks) : Classify(e, d) \notin Generic => Rank(c) <= Rank(e)
    BY <1>2, ReasonIsOfLeading
<1>4. c \in result.checks /\ c.state = "review" /\ c.code \in CodeSet
  <2>1. c \in result.checks /\ c.state = "review"
      BY <1>1 DEF Issues
  <2> QED BY <1>2, <2>1, ChecksAre
<1>5. \A e \in result.checks : e.state = "review" => e \in Issues(result.checks)
    BY DEF Issues
<1>6. ASSUME d.invoice_number = None, c.code = "duplicate"
      PROVE  \E g \in StepsOf(Classify(c, d)) : GroupState(g, result) = "review"
  <2>1. Classify(c, d) = "nonumber"
      BY <1>6 DEF Classify, TOTALS
  <2>2. PICK e \in result.checks : CheckGroup(e) = "document" /\ e.state = "review"
      BY <1>6 DEF Reasoned
  <2>3. GroupState("document", result) = "review"
      BY <2>2, StepShowsReview DEF Waits
  <2> QED BY <2>1, <2>3 DEF StepsOf
<1>7. CASE result.vendor = None
  <2>1. PICK e \in result.checks : e.code = "duplicate" /\ e.state = "review"
      BY <1>7 DEF Reasoned
  <2>2. Classify(e, d) \notin Generic
      BY <2>1 DEF Classify, TOTALS, Generic
  <2>3. Rank(c) <= 10
      BY <1>3, <1>5, <2>1, <2>2, RankIs
  <2>4. c.code = "duplicate"
      BY <1>4, <2>3, RankIs
  <2>5. CASE d.invoice_number # None
    <3>1. c.about = "unconfirmed"
        BY <1>4, <1>7, <2>4 DEF Reasoned
    <3>2. Classify(c, d) = "vendor"
        BY <2>4, <2>5, <3>1 DEF Classify, TOTALS
    <3>3. PICK k \in result.checks : CheckGroup(k) = "supplier" /\ k.state = "review"
        BY <1>7 DEF Sound
    <3>4. GroupState("supplier", result) = "review"
        BY <3>3, StepShowsReview DEF Waits
    <3> QED BY <1>3, <3>2, <3>4 DEF StepsOf
  <2> QED BY <1>3, <1>6, <2>4, <2>5
<1>8. CASE result.vendor # None /\ result.order = None
  <2>1. PICK e \in result.checks : e.code = "budget" /\ e.about = "unselected" /\ e.state = "review"
      BY <1>8 DEF Reasoned
  <2>2. Classify(e, d) \notin Generic
      BY <2>1 DEF Classify, TOTALS, Generic
  <2>3. Rank(c) <= 12
      BY <1>3, <1>5, <2>1, <2>2, RankIs
  <2>4. c.code \in {"duplicate", "vendor", "budget"}
      BY <1>4, <2>3, RankIs
  <2>5. c.code # "vendor"
      BY <1>4, <1>8 DEF Reasoned
  <2>6. CASE c.code = "duplicate" /\ d.invoice_number # None
    <3>1. c.about # "unconfirmed"
        BY <1>4, <1>8, <2>6 DEF Reasoned
    <3>2. CheckGroup(c) \in StepsOf(Classify(c, d))
        BY <1>4, <2>6, <3>1, ReasonNamesStep
    <3>3. ~Waits(CheckGroup(c), result)
        BY <2>6, GroupOf DEF Waits
    <3> QED BY <1>3, <1>4, <3>2, <3>3, StepShowsReview
  <2>7. CASE c.code = "budget"
    <3>1. CASE c.about = "unselected"
      <4>1. Classify(c, d) \in {"po", "nopo"}
          BY <2>7, <3>1 DEF Classify, TOTALS
      <4>2. PICK k \in result.checks : CheckGroup(k) = "po" /\ k.state = "review"
          BY <1>8 DEF Sound
      <4>3. GroupState("po", result) = "review"
        <5>1. ~Waits("po", result)
            BY <1>8 DEF Waits
        <5> QED BY <4>2, <5>1, StepShowsReview
      <4> QED BY <1>3, <4>1, <4>3 DEF StepsOf
    <3>2. CASE c.about # "unselected"
        BY <1>4, <1>8, <2>7, <3>2 DEF Reasoned
    <3> QED BY <3>1, <3>2
  <2> QED BY <1>3, <1>6, <2>4, <2>5, <2>6, <2>7
<1>9. CASE result.vendor # None /\ result.order # None
  <2>1. ~Waits(CheckGroup(c), result)
      BY <1>9 DEF Waits
  <2>2. CASE ~(c.code = "duplicate" /\ d.invoice_number = None)
    <3>1. /\ c.code = "duplicate" => c.about # "unconfirmed" /\ d.invoice_number # None
          /\ c.code = "budget" => c.about # "unselected"
        BY <1>4, <1>9, <2>2 DEF Reasoned
    <3>2. CheckGroup(c) \in StepsOf(Classify(c, d))
        BY <1>4, <3>1, ReasonNamesStep
    <3> QED BY <1>3, <1>4, <2>1, <3>2, StepShowsReview
  <2> QED BY <1>3, <1>6, <2>2
<1> QED BY <1>7, <1>8, <1>9

-----------------------------------------------------------------------------
(* The decision of the current revision is of its fields, and its checks   *)
(* say why it was not accepted.                                            *)
DecisionInv ==
    /\ Applicable => decision.data = revision.data
    /\ decision # None =>
          Sound(decision.result) /\ Reasoned(decision.result, decision.data)
    /\ ProgressTellsOutcome

LEMMA RowShows ==
    ASSUME NullAssumption, TypeOK, DecisionInv
    PROVE  RowGivesReason
<1> DEFINE d == decision.data
           result == decision.result
           outcome == IF Applicable THEN result.outcome ELSE None
           reason == IF Applicable /\ ~Approved THEN ReasonFor(result.checks, d) ELSE None
<1>1. Row.data = revision.data /\ Row.outcome = outcome /\ Row.reason = reason
    BY DEF Row
<1>2. CASE ~Applicable
    BY <1>1, <1>2 DEF RowGivesReason
<1>3. CASE Applicable
  <2>1. Sound(result) /\ Reasoned(result, d) /\ d = revision.data /\ decision # None
      BY <1>3 DEF DecisionInv, Applicable
  <2>2. result.outcome \in Outcomes /\ result.outcome # None
    <3>1. result.outcome \in Outcomes
        BY <2>1 DEF Sound, Outcome, Outcomes
    <3> QED BY <3>1 DEF NullAssumption
  <2>3. Approved <=> result.outcome = "APPROVED"
      BY <2>1 DEF Approved
  <2>4. CASE Approved
      BY <1>1, <1>3, <2>1, <2>2, <2>3, <2>4 DEF RowGivesReason
  <2>5. CASE ~Approved
    <3>1. reason = ReasonFor(result.checks, d)
        BY <1>3, <2>5
    <3>2. reason \in Reasons
      <4>1. result.checks \in SUBSET Checks /\ Issues(result.checks) # {}
        <5>1. \E c \in result.checks : c.state \in {"blocked", "review"}
            BY <2>1, <2>3, <2>5 DEF Sound, Outcome
        <5> QED BY <2>1, <5>1 DEF Reasoned, Issues
      <4> HIDE DEF result, d, reason
      <4> QED BY <3>1, <4>1, ReasonIsOfLeading, ClassifyIsReason
    <3>3. reason # None
        BY <3>2 DEF NullAssumption
    <3>4. outcome = result.outcome /\ outcome \in {"BLOCKED", "NEEDS_REVIEW"}
        BY <1>3, <2>2, <2>3, <2>5 DEF Outcomes
    <3>5. \E g \in StepsOf(reason) :
            GroupState(g, result) = IF outcome = "BLOCKED" THEN "blocked" ELSE "review"
      <4> HIDE DEF result, d, reason, outcome
      <4>1. CASE outcome = "BLOCKED"
          BY <2>1, <3>1, <3>4, <4>1, BlockIsGiven
      <4>2. CASE outcome = "NEEDS_REVIEW"
          BY <2>1, <3>1, <3>4, <4>2, ReviewIsGiven
      <4> QED BY <3>4, <4>1, <4>2
    <3>6. outcome \notin {None, "APPROVED"}
        BY <2>2, <3>4
    <3> HIDE DEF reason, outcome
    <3> QED BY <1>1, <2>1, <3>3, <3>5, <3>6 DEF RowGivesReason, result, d
  <2> QED BY <2>4, <2>5
<1> QED BY <1>2, <1>3

LEMMA DecisionInvInitially == Init => DecisionInv
BY DEF Init, DecisionInv, Applicable, ProgressTellsOutcome

LEMMA DecisionInvPreserved ==
    PolicyAssumption /\ TypeInv /\ DecisionInv /\ [Next]_vars => DecisionInv'
<1> SUFFICES ASSUME PolicyAssumption, TypeInv, DecisionInv, [Next]_vars PROVE DecisionInv'
    OBVIOUS
<1>1. CASE Decide
  <2>1. PICK result \in Evaluations(revision.data, Verified, revision.chosen) :
           decision' = [number |-> revision.number, data |-> revision.data, result |-> result]
      BY <1>1 DEF Decide
  <2>2. revision.data \in Data /\ revision.chosen \in Chosen
      BY DEF TypeInv, TypeOK, Chosen
  <2>3. Sound(result) /\ Reasoned(result, revision.data)
      BY <2>2, DataIsNumbered, EvaluationIsSound, EvaluationIsReasoned
  <2>4. decision'.result = result /\ decision'.data = revision.data
      BY <2>1
  <2>5. /\ StepsTell(result, revision.data)
        /\ \A events \in BOOLEAN : PageTells(result, revision.data, events)
      BY <2>2, DataIsNumbered, EvaluationTells
  <2> QED BY <1>1, <2>3, <2>4, <2>5 DEF Decide, DecisionInv, ProgressTellsOutcome
<1>2. CASE DecideOther
    BY <1>2 DEF DecideOther, DecisionInv, Applicable, ProgressTellsOutcome
<1>3. CASE Review
  <2>1. Applicable /\ decision' = decision /\ revision'.number = revision.number + 1
      BY <1>3 DEF Review, TypeInv, TypeOK
  <2>2. revision.number \in Int
      BY DEF TypeInv, TypeOK
  <2>3. ~Applicable'
      BY <2>1, <2>2 DEF Applicable
  <2> QED BY <2>1, <2>3 DEF DecisionInv, ProgressTellsOutcome
<1>4. CASE UNCHANGED vars
    BY <1>4 DEF vars, DecisionInv, Applicable, ProgressTellsOutcome
<1> QED BY <1>1, <1>2, <1>3, <1>4 DEF Next

(* For every register, document and sequence of requests, the progress     *)
(* steps of the current decision tell its outcome (checks.py:315,          *)
(* steps.ts:327): nothing that keeps an invoice from being accepted is     *)
(* hidden by a waiting step.                                               *)
THEOREM ProgressAlwaysTells == Spec => []ProgressTellsOutcome
<1>1. PolicyAssumption /\ NullAssumption
    BY PolicyAssumption, NullAssumption
<1>2. DecisionInv => ProgressTellsOutcome
    BY DEF DecisionInv
<1> QED BY <1>1, <1>2, TypeInvInitially, TypeInvPreserved, DecisionInvInitially,
           DecisionInvPreserved, PTL DEF Spec

(* And the row of the list shows an outcome with the fields it was decided *)
(* for, and a reason for whatever is not accepted that a step of the       *)
(* progress shows, though the check it comes from may belong to a step     *)
(* that waits (checks.py:127, checks.py:295, main.py:171).                 *)
THEOREM RowAlwaysGivesReason == Spec => []RowGivesReason
<1>1. PolicyAssumption /\ NullAssumption
    BY PolicyAssumption, NullAssumption
<1>2. TypeInv /\ DecisionInv => RowGivesReason
    BY <1>1, RowShows DEF TypeInv
<1> QED BY <1>1, <1>2, TypeInvInitially, TypeInvPreserved, DecisionInvInitially,
           DecisionInvPreserved, PTL DEF Spec

-----------------------------------------------------------------------------
(* What is accepted was authorised.  The checks of a line bound what it    *)
(* charges; the lines add up by the SKU they are allocated to, and the     *)
(* ledger keeps room for what is accepted.                                 *)

LEMMA TimesMonotone ==
    ASSUME NEW q \in Nat, NEW x \in Int, NEW y \in Int, x <= y
    PROVE  q * x <= q * y
<1>1. q * (y - x) >= 0
  <2> DEFINE z == y - x
  <2>1. z \in Nat
      OBVIOUS
  <2> HIDE DEF z
  <2>2. q * z \in Nat
      BY <2>1
  <2> QED BY <2>2 DEF z
<1>2. q * (y - x) = q * y - q * x
    OBVIOUS
<1> QED BY <1>1, <1>2

LEMMA MinIs ==
    ASSUME NEW a \in Nat, NEW b \in Nat
    PROVE  Min({a, b}) = IF a <= b THEN a ELSE b
BY DEF Min

LEMMA ScaleIsNumber ==
    ASSUME NEW d
    PROVE  Scale(d) \in Nat
BY DEF Scale, Inclusive, Derivable, InPercent

LEMMA HighestIsNumber ==
    ASSUME PolicyAssumption, NEW d, NEW o \in Orders, NEW s \in DOMAIN OrderBook[o].lines
    PROVE  /\ Scale(d) * OrderBook[o].lines[s].unit_price \in Nat
           /\ Highest(d, o, s) \in Nat
<1>1. OrderBook[o].lines[s].unit_price \in Nat
    BY DEF PolicyAssumption, IsOrder, OrderLine
<1> DEFINE approved == Scale(d) * OrderBook[o].lines[s].unit_price
           dollar == Dollar * Scale(d)
<1>2. approved \in Nat /\ dollar \in Nat
  <2>1. \A a, b \in Nat : a * b \in Nat
      OBVIOUS
  <2> QED BY <1>1, <2>1, ScaleIsNumber DEF Dollar
<1>3. Highest(d, o, s) = approved + Min({dollar, approved \div 100})
    BY DEF Highest
<1> HIDE DEF approved, dollar
<1>4. approved \div 100 \in Nat
    BY <1>2
<1> QED BY <1>2, <1>3, <1>4, MinIs DEF approved

LEMMA PriceIsTolerated ==
    ASSUME PolicyAssumption, NEW d, NEW o \in Orders, NEW s \in DOMAIN OrderBook[o].lines,
           NEW actual \in Int,
           PriceAllowed(actual, Scale(d) * OrderBook[o].lines[s].unit_price, Scale(d))
    PROVE  actual <= Highest(d, o, s)
<1> DEFINE approved == Scale(d) * OrderBook[o].lines[s].unit_price
           dollar == Dollar * Scale(d)
<1>1. approved \in Nat /\ dollar \in Nat
    BY HighestIsNumber, ScaleIsNumber DEF Dollar
<1>2. Highest(d, o, s) = approved + Min({dollar, approved \div 100})
    BY DEF Highest
<1>3. \/ actual <= approved
      \/ actual - approved <= dollar /\ 100 * (actual - approved) <= approved
    BY DEF PriceAllowed
<1> HIDE DEF approved, dollar
<1>4. approved \div 100 \in Nat
    BY <1>1
<1>5. 100 * (actual - approved) <= approved => actual - approved <= approved \div 100
    BY <1>1
<1> QED BY <1>1, <1>2, <1>3, <1>4, <1>5, MinIs

(* What an accepted invoice's lines and totals have passed. *)
LineApproved(d, o, i) ==
    LET s == Allocated(d.lines[i], o)
    IN  /\ Valid(d.lines[i]) /\ AddsUp(d.lines[i]) /\ s # None
        /\ PriceAllowed(100 * d.lines[i].unit_price,
                        Scale(d) * OrderBook[o].lines[s].unit_price, Scale(d))

Priced(d, o) ==
    /\ \A i \in DOMAIN d.lines : LineApproved(d, o, i)
    /\ Countable(d) /\ Reconciles(d)

LEMMA AllocatedIsOrdered ==
    ASSUME NEW l, NEW o, Allocated(l, o) # None
    PROVE  Allocated(l, o) \in DOMAIN OrderBook[o].lines
<1>1. Allocated(l, o) = Only(Matching(l, o)) /\ Only(Matching(l, o)) # None
    BY DEF Allocated
<1>2. Matching(l, o) \subseteq DOMAIN OrderBook[o].lines
    BY DEF Matching
<1> QED BY <1>1, <1>2, OnlyIsOfSet

LEMMA ValidIsNumbers ==
    ASSUME NEW l \in Line, Valid(l)
    PROVE  /\ l.quantity \in Nat /\ l.unit_price \in Nat /\ l.total \in Nat
           /\ OrZero(l.discount) \in Nat
<1>1. /\ l.quantity \in Amount /\ l.unit_price \in Amount /\ l.total \in Amount
      /\ l.discount \in Amount
    BY DEF Line
<1>2. /\ IsNumber(l.quantity) /\ IsNumber(l.unit_price) /\ IsNumber(l.total)
      /\ l.discount # Bad
    BY DEF Valid
<1>3. l.quantity \in Int /\ l.unit_price \in Int /\ l.total \in Int /\ OrZero(l.discount) \in Int
    BY <1>1, <1>2 DEF Amount, IsNumber, OrZero
<1>4. l.quantity > 0 /\ l.unit_price >= 0 /\ l.total >= 0 /\ OrZero(l.discount) >= 0
    BY DEF Valid
<1> QED BY <1>3, <1>4

LEMMA LineIsBounded ==
    ASSUME PolicyAssumption, NEW d, NEW o \in Orders, NEW i, d.lines[i] \in Line,
           LineApproved(d, o, i)
    PROVE  100 * d.lines[i].total
              <= d.lines[i].quantity * Highest(d, o, Allocated(d.lines[i], o)) + 100 * Cent
<1> DEFINE l == d.lines[i]
           s == Allocated(l, o)
           h == Highest(d, o, s)
           q == l.quantity
           u == l.unit_price
           c == OrZero(l.discount)
           t == l.total
<1>1. q \in Nat /\ u \in Nat /\ c \in Nat /\ t \in Nat
    BY ValidIsNumbers DEF LineApproved
<1>2. s \in DOMAIN OrderBook[o].lines
    BY AllocatedIsOrdered DEF LineApproved
<1>3. h \in Nat
    BY <1>2, HighestIsNumber
<1>4. Distance(q * u - c, t) <= Cent
    BY DEF LineApproved, AddsUp
<1>5. 100 * u <= h
  <2>1. PriceAllowed(100 * u, Scale(d) * OrderBook[o].lines[s].unit_price, Scale(d))
      BY DEF LineApproved
  <2> HIDE DEF s, u
  <2>2. 100 * u \in Int
      BY <1>1
  <2> QED BY <1>2, <2>1, <2>2, PriceIsTolerated
<1> HIDE DEF l, s, h, q, u, c, t
<1>6. q * u \in Nat /\ q * (100 * u) = 100 * (q * u)
    BY <1>1
<1>7. t <= q * u + Cent
    BY <1>1, <1>4, <1>6 DEF Distance, Cent
<1>8. q * (100 * u) <= q * h
    BY <1>1, <1>3, <1>5, TimesMonotone
<1>9. q * h \in Nat
    BY <1>1, <1>3
<1>10. 100 * t <= q * h + 100 * Cent
    BY <1>1, <1>6, <1>7, <1>8, <1>9 DEF Cent
<1> QED BY <1>10 DEF l, s, h, q, t

LEMMA GoodsAreOfLines ==
    ASSUME PolicyAssumption, NEW d \in Data, Countable(d), Reconciles(d), LineSum(d) \in Int
    PROVE  GoodsTotal(d) \in Int /\ GoodsTotal(d) <= LineSum(d) + Cent
<1> DEFINE sum == LineSum(d)
           off == OrZero(d.header_discount)
           freight == OrZero(d.shipping)
           tax == OrZero(d.tax)
           total == d.total
<1>1. total \in Int
    BY DEF Countable, IsNumber, Data, Amount
<1>2. off \in Int /\ freight \in Int /\ tax \in Int
  <2>1. d.header_discount \in Amount /\ d.shipping \in Amount /\ d.tax \in Amount
      BY DEF Data
  <2>2. d.header_discount # Bad /\ d.shipping # Bad /\ d.tax # Bad
      BY DEF Countable, Optional
  <2> QED BY <2>1, <2>2 DEF Amount, OrZero
<1>3. Distance(Gross(d), total) <= Cent
    BY DEF Reconciles
<1>4. Gross(d) = IF Inclusive(d) THEN sum ELSE sum - off + freight + tax
    BY DEF Gross
<1>5. GoodsTotal(d) = IF Inclusive(d) THEN total ELSE total + off - freight - tax
    BY DEF GoodsTotal
<1> HIDE DEF sum, off, freight, tax, total
<1>6. sum \in Int
    BY DEF sum
<1>7. total <= Gross(d) + Cent
    BY <1>1, <1>2, <1>3, <1>4, <1>6 DEF Distance, Cent
<1> QED BY <1>1, <1>2, <1>4, <1>5, <1>6, <1>7 DEF sum, Cent

Invoiced(d, o) == {s \in DOMAIN OrderBook[o].lines : Incoming(d, o, s) > 0}

(* The lines of the invoice, added up by the SKU they are allocated to. *)
LEMMA LinesAreBounded ==
    ASSUME PolicyAssumption, NEW d \in Data, NEW o \in Orders, Priced(d, o)
    PROVE  /\ LineSum(d) \in Int
           /\ \A s \in DOMAIN OrderBook[o].lines : Incoming(d, o, s) \in Nat
           /\ LET charge == [s \in DOMAIN OrderBook[o].lines |->
                                Highest(d, o, s) * Incoming(d, o, s)]
              IN  100 * LineSum(d) <= SumFunction(charge) + 100 * Cent * Len(d.lines)
<1> DEFINE lines == d.lines
           I == DOMAIN lines
           S == DOMAIN OrderBook[o].lines
           key == [i \in I |-> Allocated(lines[i], o)]
           total == [i \in I |-> lines[i].total]
           quantity == [i \in I |-> lines[i].quantity]
           worth == [i \in I |-> quantity[i] * Highest(d, o, key[i])]
           hundred == [i \in I |-> 100 * total[i]]
           allowance == [i \in I |-> 100 * Cent]
           bound == [i \in I |-> worth[i] + allowance[i]]
           charge == [s \in S |-> Highest(d, o, s) * Incoming(d, o, s)]
<1>1. I = 1 .. Len(lines) /\ Len(lines) \in Nat /\ \A i \in I : lines[i] \in Line
  <2>1. lines \in Seq(Line)
      BY DEF Data
  <2> HIDE DEF lines
  <2> QED BY <2>1
<1>2. IsFiniteSet(I) /\ Cardinality(I) = Len(lines)
  <2>1. ASSUME NEW n \in Nat
        PROVE  IsFiniteSet(1 .. n) /\ Cardinality(1 .. n) = n
    <3>1. /\ IsFiniteSet(1 .. n)
          /\ Cardinality(1 .. n) = IF 1 > n THEN 0 ELSE n - 1 + 1
        BY FS_Interval
    <3> QED BY <3>1
  <2> QED BY <1>1, <2>1
<1>3. IsFiniteSet(S)
  <2>1. S \in SUBSET Skus /\ IsFiniteSet(Skus)
      BY DEF PolicyAssumption, IsOrder
  <2> QED BY <2>1, FS_Subset
<1>4. \A i \in I : LineApproved(d, o, i)
    BY DEF Priced
<1>5. \A i \in I : key[i] = Allocated(lines[i], o) /\ key[i] \in S
    BY <1>4, AllocatedIsOrdered DEF LineApproved
<1>6. \A s \in S : Highest(d, o, s) \in Nat
    BY HighestIsNumber
<1>7. \A i \in I : /\ total[i] = lines[i].total /\ total[i] \in Nat
                   /\ quantity[i] = lines[i].quantity /\ quantity[i] \in Nat
    BY <1>1, <1>4, ValidIsNumbers DEF LineApproved
<1>8. \A i \in I :
         100 * lines[i].total
            <= lines[i].quantity * Highest(d, o, Allocated(lines[i], o)) + 100 * Cent
    BY <1>1, <1>4, LineIsBounded
<1>9. \A i \in I : worth[i] = quantity[i] * Highest(d, o, key[i])
    OBVIOUS
<1>10. \A i \in I :
          /\ hundred[i] = 100 * total[i]
          /\ bound[i] = worth[i] + allowance[i] /\ allowance[i] = 100 * Cent
    OBVIOUS
<1>11. LineSum(d) = SumFunctionOnSet(total, I)
    BY DEF LineSum, SumFunction
<1>12. /\ SumFunction(charge) = SumFunctionOnSet(charge, S)
       /\ \A s \in S : charge[s] = Highest(d, o, s) * Incoming(d, o, s)
    BY DEF SumFunction
<1> HIDE DEF key, total, quantity, worth, hundred, allowance, bound
<1>13. \A i \in I : worth[i] \in Nat
    BY <1>5, <1>6, <1>7, <1>9
<1>14. \A i \in I : hundred[i] \in Int /\ bound[i] \in Int /\ hundred[i] <= bound[i]
    BY <1>5, <1>7, <1>8, <1>9, <1>10, <1>13 DEF Cent
<1> HIDE DEF charge, I, S
<1>15. SumFunctionOnSet(hundred, I) = 100 * SumFunctionOnSet(total, I)
       /\ SumFunctionOnSet(total, I) \in Int
    BY <1>2, <1>7, <1>10, SumTimes, SumType
<1>16. SumFunctionOnSet(hundred, I) <= SumFunctionOnSet(bound, I)
    BY <1>2, <1>14, SumLeq
<1>17. SumFunctionOnSet(allowance, I) = 100 * Cent * Len(lines)
  <2> DEFINE k == 100 * Cent
  <2>1. k \in Int /\ \A i \in I : allowance[i] = k
      BY <1>10 DEF Cent
  <2> HIDE DEF k
  <2>2. SumFunctionOnSet(allowance, I) = k * Cardinality(I)
      BY <1>2, <2>1, SumOfConstant
  <2> QED BY <1>2, <2>2 DEF k
<1>18. SumFunctionOnSet(bound, I) = SumFunctionOnSet(worth, I) + SumFunctionOnSet(allowance, I)
  <2>1. \A i \in I : worth[i] \in Int /\ allowance[i] \in Int /\ bound[i] = worth[i] + allowance[i]
      BY <1>10, <1>13 DEF Cent
  <2> QED BY <1>2, <2>1, SumPlus
<1>19. ASSUME NEW s \in S
       PROVE  /\ Incoming(d, o, s) \in Nat
              /\ charge[s] = SumFunctionOnSet(worth, OfKind(I, key, s))
  <2> DEFINE K == OfKind(I, key, s)
             local == [i \in K |-> lines[i].quantity]
  <2>1. K \in SUBSET I /\ \A i \in K : key[i] = s
      BY DEF OfKind
  <2>2. IsFiniteSet(K)
      BY <1>2, <2>1, FS_Subset
  <2>3. K = {i \in DOMAIN d.lines : Valid(d.lines[i]) /\ Allocated(d.lines[i], o) = s}
      BY <1>4, <1>5 DEF OfKind, I, LineApproved
  <2>4. Incoming(d, o, s) = SumFunctionOnSet(local, K)
    <3>1. Incoming(d, o, s) = SumFunction(local)
        BY <2>3 DEF Incoming
    <3> QED BY <3>1 DEF SumFunction
  <2>5. \A i \in K : local[i] = quantity[i] /\ quantity[i] \in Nat
      BY <1>7, <2>1
  <2> HIDE DEF K, local
  <2>6. Incoming(d, o, s) = SumFunctionOnSet(quantity, K)
      BY <2>2, <2>4, <2>5, SumIsOfValues
  <2>7. \A i \in K : quantity[i] \in Int /\ worth[i] = Highest(d, o, s) * quantity[i]
      BY <1>6, <1>9, <2>1, <2>5
  <2>8. SumFunctionOnSet(worth, K) = Highest(d, o, s) * SumFunctionOnSet(quantity, K)
      BY <1>6, <2>2, <2>7, SumTimes
  <2>9. SumFunctionOnSet(quantity, K) \in Nat
      BY <2>2, <2>5, SumIsNatural
  <2> QED BY <1>12, <2>6, <2>8, <2>9 DEF K
<1>20. SumFunctionOnSet(worth, I) = SumFunctionOnSet(charge, S)
    BY <1>2, <1>3, <1>5, <1>13, <1>19, SumByKind, SMTT(60)
<1>21. SumFunctionOnSet(charge, S) \in Int
    BY <1>2, <1>13, <1>20, SumType
<1>22. 100 * SumFunctionOnSet(total, I) <= SumFunctionOnSet(charge, S) + 100 * Cent * Len(lines)
    BY <1>15, <1>16, <1>17, <1>18, <1>20
<1> QED BY <1>11, <1>12, <1>15, <1>19, <1>22 DEF S, charge, lines

LEMMA GoodsAreBounded ==
    ASSUME PolicyAssumption, NEW d \in Data, NEW o \in Orders, Priced(d, o),
           NEW available,
           \A s \in Invoiced(d, o) : available[s] \in Int /\ Incoming(d, o, s) <= available[s]
    PROVE  LET allowed == [s \in Invoiced(d, o) |-> available[s] * Highest(d, o, s)]
           IN  100 * GoodsTotal(d) <= SumFunction(allowed) + 100 * Cent * (Len(d.lines) + 1)
<1> DEFINE S == DOMAIN OrderBook[o].lines
           R == Invoiced(d, o)
           charge == [s \in S |-> Highest(d, o, s) * Incoming(d, o, s)]
           allowed == [s \in R |-> available[s] * Highest(d, o, s)]
           n == Len(d.lines)
<1>1. /\ LineSum(d) \in Int
      /\ \A s \in S : Incoming(d, o, s) \in Nat
      /\ 100 * LineSum(d) <= SumFunction(charge) + 100 * Cent * n
    BY LinesAreBounded
<1>2. GoodsTotal(d) \in Int /\ GoodsTotal(d) <= LineSum(d) + Cent
    BY <1>1, GoodsAreOfLines DEF Priced
<1>3. n \in Nat
  <2>1. d.lines \in Seq(Line)
      BY DEF Data
  <2> QED BY <2>1
<1>4. IsFiniteSet(S)
  <2>1. S \in SUBSET Skus /\ IsFiniteSet(Skus)
      BY DEF PolicyAssumption, IsOrder
  <2> QED BY <2>1, FS_Subset
<1>5. R \in SUBSET S /\ \A s \in S \ R : Incoming(d, o, s) = 0
    BY <1>1 DEF Invoiced
<1>6. \A s \in S : Highest(d, o, s) \in Nat
    BY HighestIsNumber
<1>7. \A s \in S : charge[s] = Highest(d, o, s) * Incoming(d, o, s) /\ charge[s] \in Nat
    BY <1>1, <1>6
<1>8. \A s \in S \ R : charge[s] = 0
    BY <1>5, <1>6
<1>9. \A s \in R : allowed[s] = available[s] * Highest(d, o, s)
    OBVIOUS
<1>10. /\ SumFunction(charge) = SumFunctionOnSet(charge, S)
       /\ SumFunction(allowed) = SumFunctionOnSet(allowed, R)
    BY DEF SumFunction
<1> HIDE DEF S, R, charge, allowed, n
<1>11. SumFunctionOnSet(charge, S) = SumFunctionOnSet(charge, R)
    BY <1>4, <1>5, <1>7, <1>8, SumOfSupport
<1>12. ASSUME NEW s \in R
       PROVE  charge[s] \in Int /\ allowed[s] \in Int /\ charge[s] <= allowed[s]
  <2> DEFINE h == Highest(d, o, s)
             q == Incoming(d, o, s)
             a == available[s]
  <2>1. h \in Nat /\ q \in Nat /\ a \in Int /\ q <= a
      BY <1>1, <1>5, <1>6 DEF R, S
  <2>2. charge[s] = h * q /\ allowed[s] = a * h
      BY <1>5, <1>7, <1>9
  <2> HIDE DEF h, q, a
  <2>3. h * q <= h * a /\ h * a = a * h /\ h * a \in Int /\ h * q \in Int
      BY <2>1, TimesMonotone
  <2> QED BY <2>2, <2>3
<1>13. IsFiniteSet(R)
    BY <1>4, <1>5, FS_Subset
<1>14. SumFunctionOnSet(charge, R) <= SumFunctionOnSet(allowed, R)
    BY <1>12, <1>13, SumLeq
<1>15. SumFunctionOnSet(charge, R) \in Int /\ SumFunctionOnSet(allowed, R) \in Int
    BY <1>12, <1>13, SumType
<1>16. 100 * GoodsTotal(d) <= SumFunction(allowed) + 100 * Cent * (n + 1)
    BY <1>1, <1>2, <1>3, <1>10, <1>11, <1>14, <1>15 DEF Cent
<1> QED BY <1>16 DEF allowed, R, n

-----------------------------------------------------------------------------
(* What the other invoices leave of an order. *)
Whole(rows) == IsFiniteSet(rows) /\ rows \subseteq OtherInvoices

LEMMA TotalsOfRows ==
    ASSUME PolicyAssumption, NEW rows, IsFiniteSet(rows),
           \A p \in rows : p \in OtherInvoices /\ p.accepted
    PROVE  /\ SumOfTotals(rows) \in Int
           /\ \A p \in rows : SumOfTotals(rows) = p.total + SumOfTotals(rows \ {p})
<1> DEFINE total(rs) == [p \in rs |-> p.total]
<1>1. \A rs : SumOfTotals(rs) = SumFunctionOnSet(total(rs), rs)
    BY DEF SumOfTotals, SumFunction
<1>2. \A p \in rows : total(rows)[p] = p.total /\ total(rows)[p] \in Int
    BY DEF PolicyAssumption, Invoice
<1>3. \A p \in rows : \A r \in rows \ {p} : total(rows)[r] = total(rows \ {p})[r]
    OBVIOUS
<1>4. \A p \in rows : IsFiniteSet(rows \ {p})
    BY FS_RemoveElement
<1> HIDE DEF total
<1>5. SumOfTotals(rows) \in Int
    BY <1>1, <1>2, SumType
<1>6. ASSUME NEW p \in rows
      PROVE  SumOfTotals(rows) = p.total + SumOfTotals(rows \ {p})
  <2>1. SumFunctionOnSet(total(rows), rows)
           = total(rows)[p] + SumFunctionOnSet(total(rows), rows \ {p})
      BY <1>2, SumTakesOut
  <2>2. SumFunctionOnSet(total(rows), rows \ {p}) = SumFunctionOnSet(total(rows \ {p}), rows \ {p})
      BY <1>3, <1>4, SumIsOfValues
  <2> QED BY <1>1, <1>2, <2>1, <2>2
<1> QED BY <1>5, <1>6

LEMMA QuantitiesOfRows ==
    ASSUME PolicyAssumption, NEW rows, IsFiniteSet(rows),
           \A p \in rows : p \in OtherInvoices /\ p.accepted, NEW s \in Skus
    PROVE  /\ SumOfQuantities(rows, s) \in Int
           /\ \A p \in rows :
                 SumOfQuantities(rows, s) = p.quantities[s] + SumOfQuantities(rows \ {p}, s)
<1> DEFINE quantity(rs) == [p \in rs |-> p.quantities[s]]
<1>1. \A rs : SumOfQuantities(rs, s) = SumFunctionOnSet(quantity(rs), rs)
    BY DEF SumOfQuantities, SumFunction
<1>2. \A p \in rows : quantity(rows)[p] = p.quantities[s] /\ quantity(rows)[p] \in Int
    BY DEF PolicyAssumption, Invoice
<1>3. \A p \in rows : \A r \in rows \ {p} : quantity(rows)[r] = quantity(rows \ {p})[r]
    OBVIOUS
<1>4. \A p \in rows : IsFiniteSet(rows \ {p})
    BY FS_RemoveElement
<1> HIDE DEF quantity
<1>5. SumOfQuantities(rows, s) \in Int
    BY <1>1, <1>2, SumType
<1>6. ASSUME NEW p \in rows
      PROVE  SumOfQuantities(rows, s) = p.quantities[s] + SumOfQuantities(rows \ {p}, s)
  <2>1. SumFunctionOnSet(quantity(rows), rows)
           = quantity(rows)[p] + SumFunctionOnSet(quantity(rows), rows \ {p})
      BY <1>2, SumTakesOut
  <2>2. SumFunctionOnSet(quantity(rows), rows \ {p})
           = SumFunctionOnSet(quantity(rows \ {p}), rows \ {p})
      BY <1>3, <1>4, SumIsOfValues
  <2> QED BY <1>1, <1>2, <2>1, <2>2
<1> QED BY <1>5, <1>6

LEMMA SumsOfAccepted ==
    ASSUME PolicyAssumption, NEW rows, Whole(rows), NEW o \in Orders,
           NEW accepted, accepted = {p \in rows : p.accepted /\ p.order = o}
    PROVE  /\ IsFiniteSet(accepted) /\ SumOfTotals(accepted) \in Int
           /\ \A s \in Skus : SumOfQuantities(accepted, s) \in Int
<1>1. accepted \in SUBSET rows
    OBVIOUS
<1>2. IsFiniteSet(accepted)
    BY <1>1, FS_Subset DEF Whole
<1>3. \A p \in accepted : p \in OtherInvoices /\ p.accepted
    BY DEF Whole
<1> QED BY <1>2, <1>3, TotalsOfRows, QuantitiesOfRows

(* One more accepted invoice adds its total and quantities. *)
LEMMA AnotherTotal ==
    ASSUME PolicyAssumption, NEW rows, Whole(rows), NEW o \in Orders,
           NEW accepted, accepted = {p \in rows : p.accepted /\ p.order = o},
           NEW row \in OtherInvoices \ rows, row.accepted, row.order = o,
           NEW more, more = accepted \cup {row}
    PROVE  /\ row.total \in Nat /\ SumOfTotals(accepted) \in Int
           /\ SumOfTotals(more) = row.total + SumOfTotals(accepted)
<1>1. more \ {row} = accepted /\ row \in more
    OBVIOUS
<1>2. SumOfTotals(accepted) \in Int
    BY SumsOfAccepted
<1>3. IsFiniteSet(more) /\ \A p \in more : p \in OtherInvoices /\ p.accepted
    BY SumsOfAccepted, FS_AddElement DEF Whole
<1>4. row.total \in Nat
    BY DEF PolicyAssumption, Invoice
<1>5. SumOfTotals(more) = row.total + SumOfTotals(more \ {row})
    BY <1>1, <1>3, TotalsOfRows, Zenon
<1> QED BY <1>1, <1>2, <1>4, <1>5

LEMMA QuantityTakesOut ==
    ASSUME PolicyAssumption, NEW rows, IsFiniteSet(rows),
           \A p \in rows : p \in OtherInvoices /\ p.accepted, NEW sku \in Skus, NEW row \in rows
    PROVE  SumOfQuantities(rows, sku) = row.quantities[sku] + SumOfQuantities(rows \ {row}, sku)
BY QuantitiesOfRows

LEMMA AnotherQuantity ==
    ASSUME PolicyAssumption, NEW rows, Whole(rows), NEW o \in Orders,
           NEW accepted, accepted = {p \in rows : p.accepted /\ p.order = o},
           NEW row \in OtherInvoices \ rows, row.accepted, row.order = o,
           NEW more, more = accepted \cup {row}, NEW sku \in Skus
    PROVE  /\ row.quantities[sku] \in Nat /\ SumOfQuantities(accepted, sku) \in Int
           /\ SumOfQuantities(more, sku) = row.quantities[sku] + SumOfQuantities(accepted, sku)
<1>1. more \ {row} = accepted /\ row \in more
    OBVIOUS
<1>2. SumOfQuantities(accepted, sku) \in Int
    BY SumsOfAccepted
<1>3. IsFiniteSet(more) /\ \A p \in more : p \in OtherInvoices /\ p.accepted
    BY SumsOfAccepted, FS_AddElement DEF Whole
<1>4. row.quantities[sku] \in Nat
    BY DEF PolicyAssumption, Invoice
<1>5. SumOfQuantities(more, sku) = row.quantities[sku] + SumOfQuantities(more \ {row}, sku)
    BY <1>1, <1>3, QuantityTakesOut, ZenonT(60)
<1> QED BY <1>1, <1>2, <1>4, <1>5

Passed(checks) == \A c \in checks : c.state = "passed"

LEMMA OrderPasses ==
    ASSUME NEW d, NEW chosen, Passed(MatchChecks(d, chosen))
    PROVE  LET v == VendorOf(d, chosen)
               o == OrderOf(d, chosen)
           IN  o # None /\ OrderBook[o].active /\ OrderBook[o].vendor = v /\ VendorBook[v].active
<1> DEFINE v == VendorOf(d, chosen)
           o == OrderOf(d, chosen)
           vendor == IF v = None THEN "review"
                     ELSE IF VendorBook[v].active THEN "passed" ELSE "blocked"
           order == IF o = None THEN "review"
                    ELSE IF OrderBook[o].active THEN "passed" ELSE "blocked"
           conflict == Said("po", "review", "conflict")
<1>1. /\ Check("vendor", vendor).state = "passed"
      /\ (IF Conflicts(d, chosen) THEN conflict ELSE Check("po", order)).state = "passed"
    BY DEF MatchChecks, Passed
<1>2. conflict.state = "review" /\ Check("vendor", vendor).state = vendor
      /\ Check("po", order).state = order
    BY DEF Said, Check
<1>3. ~Conflicts(d, chosen) /\ vendor = "passed" /\ order = "passed"
  <2> HIDE DEF conflict, vendor, order
  <2> QED BY <1>1, <1>2
<1>4. o # None /\ OrderBook[o].active /\ v # None /\ VendorBook[v].active
    BY <1>3
<1>5. o = FoundOrder(d, chosen)
    BY <1>3 DEF OrderOf
<1>6. OrderBook[o].vendor = v
    BY <1>3, <1>4, <1>5 DEF Conflicts
<1> QED BY <1>4, <1>6

LEMMA LinePasses ==
    ASSUME NEW d, NEW o, o # None, NEW i, Passed(LineChecks(d, o, i))
    PROVE  LineApproved(d, o, i)
<1> DEFINE l == d.lines[i]
           s == Allocated(l, o)
           sums == AddsUp(l)
           allowed == PriceAllowed(100 * l.unit_price,
                          Scale(d) * OrderBook[o].lines[s].unit_price, Scale(d))
           invalid == LineCheck("line", i, "review")
           sum == LineCheck("line", i, Judge(sums))
           unmatched == LineCheck("line_match", i, "review")
           price == LineCheck("price", i, Judge(allowed))
<1>1. LineChecks(d, o, i) =
        IF ~Valid(l) THEN {invalid}
        ELSE {sum} \cup IF s = None THEN {unmatched} ELSE {price}
    BY DEF LineChecks
<1>2. invalid.state = "review" /\ unmatched.state = "review"
    BY DEF LineCheck
<1>3. sum.state = "passed" => sums
    BY DEF LineCheck, Judge
<1>4. price.state = "passed" => allowed
    BY DEF LineCheck, Judge
<1> HIDE DEF invalid, sum, unmatched, price
<1>5. Valid(l) /\ sums /\ s # None /\ allowed
  <2> HIDE DEF sums, allowed
  <2> QED BY <1>1, <1>2, <1>3, <1>4 DEF Passed
<1> QED BY <1>5 DEF LineApproved

LEMMA TotalsPass ==
    ASSUME NEW d, Passed(TotalsChecks(d))
    PROVE  Countable(d) /\ Reconciles(d)
<1> DEFINE fits == Reconciles(d)
           open == Check("arithmetic", "review")
           summed == Check("arithmetic", Judge(fits))
<1>1. IF Countable(d) THEN summed \in TotalsChecks(d) ELSE open \in TotalsChecks(d)
    BY DEF TotalsChecks
<1>2. open.state = "review"
    BY DEF Check, Said
<1>3. summed.state = "passed" => fits
    BY DEF Check, Said, Judge
<1> HIDE DEF open, summed
<1> QED BY <1>1, <1>2, <1>3 DEF Passed

LEMMA BudgetPasses ==
    ASSUME NEW d, NEW o, o # None, Passed(BudgetChecks(d, o))
    PROVE  /\ d.total <= Remaining(o)
           /\ \A s \in Invoiced(d, o) : Incoming(d, o, s) <= Available(o, s)
<1>1. d.total <= Remaining(o)
  <2> DEFINE fits == d.total <= Remaining(o)
             room == Check("budget", Judge(fits))
             amount == Said("budget", "review", "amount")
  <2>1. room \in BudgetChecks(d, o) \/ amount \in BudgetChecks(d, o)
      BY DEF BudgetChecks
  <2>2. amount.state = "review"
      BY DEF Said
  <2>3. room.state = "passed" => fits
    <3> HIDE DEF fits
    <3> QED BY DEF Check, Said, Judge
  <2> HIDE DEF room, amount
  <2> QED BY <2>1, <2>2, <2>3 DEF Passed
<1>2. ASSUME NEW s \in Invoiced(d, o)
      PROVE  Incoming(d, o, s) <= Available(o, s)
  <2> DEFINE within == Incoming(d, o, s) <= Available(o, s)
             check == Said("quantity", Judge(within), s)
  <2>1. check \in BudgetChecks(d, o)
      BY DEF BudgetChecks, Invoiced
  <2>2. check.state = "passed" => within
    <3> HIDE DEF within
    <3> QED BY DEF Said, Judge
  <2> HIDE DEF check
  <2> QED BY <2>1, <2>2 DEF Passed
<1> QED BY <1>1, <1>2

LEMMA EvaluationPasses ==
    ASSUME PolicyAssumption, NEW d \in Data, NEW verified, NEW chosen \in Chosen,
           NEW result \in Evaluations(d, verified, chosen), result.outcome = "APPROVED"
    PROVE  LET o == result.order
           IN  /\ o \in Orders /\ OrderBook[o].active /\ VendorBook[OrderBook[o].vendor].active
               /\ Priced(d, o) /\ d.total <= Remaining(o)
               /\ \A s \in Invoiced(d, o) : Incoming(d, o, s) <= Available(o, s)
<1> DEFINE v == VendorOf(d, chosen)
           o == OrderOf(d, chosen)
           most == DocumentChecks(d, verified) \cup MatchChecks(d, chosen) \cup TotalsChecks(d)
                   \cup LinesChecks(d, o) \cup BudgetChecks(d, o)
<1>1. PICK c \in DuplicateChecks(d, v) :
         result = [outcome |-> Outcome(most \cup {c}), checks |-> most \cup {c},
                   vendor |-> v, order |-> o]
    BY DEF Evaluations
<1>2. /\ MatchChecks(d, chosen) \subseteq most /\ TotalsChecks(d) \subseteq most
      /\ LinesChecks(d, o) \subseteq most /\ BudgetChecks(d, o) \subseteq most
    OBVIOUS
<1>3. Passed(result.checks)
  <2>1. Sound(result)
      BY DataIsNumbered, EvaluationIsSound
  <2> QED BY <2>1 DEF Sound, Outcome, States, Passed
<1> HIDE DEF most
<1>4. Passed(most) /\ result.order = o
    BY <1>1, <1>3 DEF Passed
<1>5. /\ Passed(MatchChecks(d, chosen)) /\ Passed(TotalsChecks(d))
      /\ Passed(LinesChecks(d, o)) /\ Passed(BudgetChecks(d, o))
    BY <1>2, <1>4 DEF Passed
<1>6. o # None /\ OrderBook[o].active /\ OrderBook[o].vendor = v /\ VendorBook[v].active
    BY <1>5, OrderPasses
<1>7. o \in Orders
    BY <1>6, MatchIsKnown
<1>8. \A i \in DOMAIN d.lines : LineApproved(d, o, i)
  <2> TAKE i \in DOMAIN d.lines
  <2>1. Passed(LineChecks(d, o, i))
      BY <1>5 DEF LinesChecks, AllocationChecks, Passed
  <2> QED BY <1>6, <2>1, LinePasses
<1>9. Priced(d, o)
    BY <1>5, <1>8, TotalsPass DEF Priced
<1> HIDE DEF o, v
<1> QED BY <1>4, <1>5, <1>6, <1>7, <1>9, BudgetPasses

(* An accepted invoice has passed what it still keeps: its prices, and its *)
(* part of what the order authorises.                                      *)
GoodsInv ==
    /\ Whole(others)
    /\ Approved =>
          LET o == decision.result.order
          IN  /\ o \in Orders /\ OrderBook[o].active /\ VendorBook[OrderBook[o].vendor].active
              /\ Priced(decision.data, o) /\ decision.data.total <= Remaining(o)
              /\ \A s \in Invoiced(decision.data, o) :
                    Incoming(decision.data, o, s) <= Available(o, s)

LEMMA GoodsInvInitially == Init => GoodsInv
BY FS_EmptySet DEF Init, GoodsInv, Whole, Approved

LEMMA DecideKeepsGoods ==
    ASSUME PolicyAssumption, TypeInv, GoodsInv, Decide
    PROVE  GoodsInv'
<1>1. PICK result \in Evaluations(revision.data, Verified, revision.chosen) :
         decision' = [number |-> revision.number, data |-> revision.data, result |-> result]
    BY DEF Decide
<1>2. revision.data \in Data /\ revision.chosen \in Chosen /\ others' = others
    BY DEF TypeInv, TypeOK, Chosen, Decide
<1>3. decision'.result = result /\ decision'.data = revision.data
    BY <1>1
<1>4. Whole(others)'
    BY <1>2 DEF GoodsInv
<1>5. CASE result.outcome = "APPROVED"
  <2>1. PICK d, o : d = revision.data /\ o = result.order
      OBVIOUS
  <2>2. /\ o \in Orders /\ OrderBook[o].active /\ VendorBook[OrderBook[o].vendor].active
        /\ Priced(d, o) /\ d.total <= Remaining(o)
        /\ \A s \in Invoiced(d, o) : Incoming(d, o, s) <= Available(o, s)
      BY <1>2, <1>5, <2>1, EvaluationPasses
  <2>3. Remaining(o)' = Remaining(o) /\ \A s : Available(o, s)' = Available(o, s)
      BY <1>2 DEF Remaining, Available, Accepted
  <2>4. decision'.data = d /\ decision'.result.order = o
      BY <1>3, <2>1
  <2> QED BY <1>4, <2>2, <2>3, <2>4 DEF GoodsInv
<1>6. CASE result.outcome # "APPROVED"
    BY <1>3, <1>4, <1>6 DEF GoodsInv, Approved
<1> QED BY <1>5, <1>6

LEMMA OtherKeepsGoods ==
    ASSUME PolicyAssumption, TypeInv, GoodsInv, DecideOther
    PROVE  GoodsInv'
<1>1. PICK row \in OtherInvoices \ others :
        /\ row.accepted =>
              /\ row.total + Reserved(row.order) <= Remaining(row.order)
              /\ \A s \in DOMAIN OrderBook[row.order].lines :
                    row.quantities[s] + ReservedQuantity(row.order, s) <= Available(row.order, s)
        /\ others' = others \cup {row}
    BY DEF DecideOther
<1>2. decision' = decision
    BY DEF DecideOther
<1>3. Whole(others) /\ Whole(others)'
    BY <1>1, FS_AddElement DEF GoodsInv, Whole
<1>4. Approved' <=> Approved
    BY <1>2 DEF Approved
<1>5. ASSUME Approved
      PROVE  \A d, o : d = decision.data /\ o = decision.result.order =>
                /\ d.total <= Remaining(o)'
                /\ \A s \in Invoiced(d, o) : Incoming(d, o, s) <= Available(o, s)'
  <2> SUFFICES ASSUME NEW d, NEW o, d = decision.data /\ o = decision.result.order
               PROVE  /\ d.total <= Remaining(o)'
                      /\ \A s \in Invoiced(d, o) : Incoming(d, o, s) <= Available(o, s)'
      OBVIOUS
  <2>1. d = decision.data /\ o = decision.result.order
      OBVIOUS
  <2>2. /\ o \in Orders /\ Priced(d, o) /\ d.total <= Remaining(o)
        /\ \A s \in Invoiced(d, o) : Incoming(d, o, s) <= Available(o, s)
      BY <1>5, <2>1 DEF GoodsInv
  <2>3. d \in Data
      BY <1>5, <2>1 DEF TypeInv, TypeOK, Approved, Decisions
  <2>4. d.total \in Int
      BY <2>2, <2>3 DEF Priced, Countable, IsNumber, Data, Amount
  <2>5. \A s \in DOMAIN OrderBook[o].lines :
           Incoming(d, o, s) \in Nat /\ s \in Skus /\ OrderBook[o].lines[s].quantity \in Nat
      BY <2>2, <2>3, LinesAreBounded DEF PolicyAssumption, IsOrder, OrderLine
  <2>6. OrderBook[o].ceiling \in Nat
      BY <2>2 DEF PolicyAssumption, IsOrder
  <2> DEFINE accepted == {r \in others : r.accepted /\ r.order = o}
  <2>7. Accepted(o) = accepted
      BY DEF Accepted
  <2> HIDE DEF accepted
  <2>8. /\ SumOfTotals(accepted) \in Int
        /\ \A s \in Skus : SumOfQuantities(accepted, s) \in Int
        /\ row.accepted /\ row.order = o =>
              /\ row.total \in Nat
              /\ SumOfTotals(accepted \cup {row}) = row.total + SumOfTotals(accepted)
              /\ \A s \in Skus :
                    /\ row.quantities[s] \in Nat
                    /\ SumOfQuantities(accepted \cup {row}, s)
                          = row.quantities[s] + SumOfQuantities(accepted, s)
    <3>1. Whole(others) /\ accepted = {r \in others : r.accepted /\ r.order = o}
        BY <1>3 DEF accepted
    <3>2. o \in Orders /\ row \in OtherInvoices \ others
        BY <1>1, <2>2
    <3>3. ASSUME row.accepted, row.order = o, NEW more, more = accepted \cup {row}
          PROVE  /\ row.total \in Nat /\ SumOfTotals(more) = row.total + SumOfTotals(accepted)
                 /\ \A s \in Skus :
                       /\ row.quantities[s] \in Nat
                       /\ SumOfQuantities(more, s) = row.quantities[s] + SumOfQuantities(accepted, s)
      <4>1. row.total \in Nat /\ \A s \in Skus : row.quantities[s] \in Nat
          BY <3>2, <3>3 DEF PolicyAssumption, Invoice
      <4>2. SumOfTotals(more) = row.total + SumOfTotals(accepted)
          BY <3>1, <3>2, <3>3, AnotherTotal
      <4>3. ASSUME NEW sku \in Skus
            PROVE  SumOfQuantities(more, sku) = row.quantities[sku] + SumOfQuantities(accepted, sku)
          BY <3>1, <3>2, <3>3, <4>1, <4>3, AnotherQuantity, SMTT(60)
      <4> QED BY <4>1, <4>2, <4>3
    <3>4. SumOfTotals(accepted) \in Int
        BY <3>1, <3>2, SumsOfAccepted, Zenon
    <3>5. \A s \in Skus : SumOfQuantities(accepted, s) \in Int
        BY <3>1, <3>2, SumsOfAccepted, Zenon
    <3> QED BY <3>2, <3>3, <3>4, <3>5
  <2>9. /\ Remaining(o) = OrderBook[o].ceiling - SumOfTotals(accepted)
        /\ \A s : Available(o, s) = OrderBook[o].lines[s].quantity - SumOfQuantities(accepted, s)
      BY <2>7 DEF Remaining, Available
  <2>10. CASE row.accepted /\ row.order = o
    <3>1. Accepted(o)' = accepted \cup {row}
        BY <1>1, <2>10 DEF Accepted, accepted
    <3>2. /\ Remaining(o)' = OrderBook[o].ceiling - (row.total + SumOfTotals(accepted))
          /\ \A s \in Skus : Available(o, s)' =
                OrderBook[o].lines[s].quantity - (row.quantities[s] + SumOfQuantities(accepted, s))
        BY <2>8, <2>10, <3>1 DEF Remaining, Available
    <3>3. Reserved(o) = d.total /\ \A s : ReservedQuantity(o, s) = Incoming(d, o, s)
        BY <1>5, <2>1 DEF Reserved, ReservedQuantity
    <3>4. /\ row.total + d.total <= Remaining(o)
          /\ \A s \in DOMAIN OrderBook[o].lines :
                row.quantities[s] + Incoming(d, o, s) <= Available(o, s)
        BY <1>1, <2>10, <3>3
    <3>5. d.total <= Remaining(o)'
        BY <2>4, <2>6, <2>8, <2>9, <2>10, <3>2, <3>4
    <3>6. \A s \in DOMAIN OrderBook[o].lines : Incoming(d, o, s) <= Available(o, s)'
        BY <2>5, <2>8, <2>9, <2>10, <3>2, <3>4
    <3> QED BY <3>5, <3>6 DEF Invoiced
  <2>11. CASE ~(row.accepted /\ row.order = o)
    <3>1. Accepted(o)' = accepted
        BY <1>1, <2>11 DEF Accepted, accepted
    <3>2. Remaining(o)' = Remaining(o) /\ \A s : Available(o, s)' = Available(o, s)
        BY <2>9, <3>1 DEF Remaining, Available
    <3>3. \A s \in Invoiced(d, o) : Incoming(d, o, s) <= Available(o, s)'
        BY <2>2, <3>2
    <3> QED BY <2>2, <3>2, <3>3
  <2> QED BY <2>10, <2>11
<1>6. ASSUME Approved
      PROVE  LET o == decision.result.order
             IN  /\ o \in Orders /\ OrderBook[o].active /\ VendorBook[OrderBook[o].vendor].active
                 /\ Priced(decision.data, o)
    BY <1>6 DEF GoodsInv
<1> QED BY <1>2, <1>3, <1>4, <1>5, <1>6 DEF GoodsInv

LEMMA GoodsInvPreserved ==
    PolicyAssumption /\ TypeInv /\ GoodsInv /\ [Next]_vars => GoodsInv'
<1> SUFFICES ASSUME PolicyAssumption, TypeInv, GoodsInv, [Next]_vars PROVE GoodsInv'
    OBVIOUS
<1>1. CASE others' = others /\ decision' = decision
    BY <1>1 DEF GoodsInv, Whole, Approved, Remaining, Available, Accepted
<1>2. Review \/ UNCHANGED vars => others' = others /\ decision' = decision
    BY DEF Review, vars
<1> QED BY <1>1, <1>2, DecideKeepsGoods, OtherKeepsGoods DEF Next

LEMMA GoodsFollow ==
    ASSUME PolicyAssumption, NullAssumption, TypeInv, GoodsInv
    PROVE  GoodsAreAuthorised
<1> SUFFICES ASSUME Approved PROVE GoodsAreAuthorised
    BY DEF GoodsAreAuthorised
<1> DEFINE d == decision.data
           o == decision.result.order
           available == [s \in DOMAIN OrderBook[o].lines |-> Available(o, s)]
<1>1. /\ o \in Orders /\ OrderBook[o].active /\ VendorBook[OrderBook[o].vendor].active
      /\ Priced(d, o) /\ d.total <= Remaining(o)
      /\ \A s \in Invoiced(d, o) : Incoming(d, o, s) <= Available(o, s)
    BY DEF GoodsInv
<1>2. d \in Data
    BY DEF TypeInv, TypeOK, Approved, Decisions
<1>3. o # None
    BY <1>1 DEF PolicyAssumption
<1>4. \A s \in Invoiced(d, o) :
        /\ available[s] = Available(o, s) /\ available[s] \in Int
        /\ Incoming(d, o, s) <= available[s]
  <2>1. \A s \in Invoiced(d, o) : s \in DOMAIN OrderBook[o].lines
      BY DEF Invoiced
  <2>2. \A s \in DOMAIN OrderBook[o].lines : s \in Skus /\ OrderBook[o].lines[s].quantity \in Nat
      BY <1>1 DEF PolicyAssumption, IsOrder, OrderLine
  <2>3. \A s \in Skus : SumOfQuantities(Accepted(o), s) \in Int
    <3>1. Whole(others) /\ Accepted(o) = {p \in others : p.accepted /\ p.order = o}
        BY DEF GoodsInv, Accepted
    <3> HIDE DEF o
    <3> QED BY <1>1, <3>1, SumsOfAccepted
  <2>4. \A s \in DOMAIN OrderBook[o].lines : Available(o, s) \in Int
      BY <2>2, <2>3 DEF Available
  <2>5. \A s \in DOMAIN OrderBook[o].lines : available[s] = Available(o, s)
      OBVIOUS
  <2> HIDE DEF available, d, o
  <2> QED BY <1>1, <2>1, <2>4, <2>5
<1> DEFINE allowed == [s \in Invoiced(d, o) |-> available[s] * Highest(d, o, s)]
           charged == [s \in Invoiced(d, o) |-> Available(o, s) * Highest(d, o, s)]
<1>5. 100 * GoodsTotal(d) <= SumFunction(allowed) + 100 * Cent * (Len(d.lines) + 1)
  <2> HIDE DEF available, d, o
  <2> QED BY <1>1, <1>2, <1>4, GoodsAreBounded
<1>6. allowed = charged
    BY <1>4
<1>7. charged = [s \in {s \in DOMAIN OrderBook[o].lines : Incoming(d, o, s) > 0} |->
                    Available(o, s) * Highest(d, o, s)]
    BY DEF Invoiced
<1> HIDE DEF allowed, charged, available
<1> QED BY <1>1, <1>3, <1>5, <1>6, <1>7 DEF GoodsAreAuthorised

(* For every register, document, sequence of reviews and of other          *)
(* acceptances: what an accepted invoice charges for its goods is at most  *)
(* what its order still authorised of them at the tolerated prices, a cent *)
(* allowed for each line and for the total; the order and its vendor are   *)
(* active, the total fits the amount left (rules.py:263, rules.py:403,     *)
(* rules.py:493), and no later acceptance takes what it reserved.          *)
THEOREM GoodsAreAlwaysAuthorised == Spec => []GoodsAreAuthorised
<1>1. PolicyAssumption /\ NullAssumption
    BY PolicyAssumption, NullAssumption
<1>2. TypeInv /\ GoodsInv => GoodsAreAuthorised
    BY <1>1, GoodsFollow
<1> QED BY <1>1, <1>2, TypeInvInitially, TypeInvPreserved, GoodsInvInitially,
           GoodsInvPreserved, PTL DEF Spec
=============================================================================
