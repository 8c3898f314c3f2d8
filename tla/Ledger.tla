-------------------------------- MODULE Ledger ---------------------------------
(***************************************************************************)
(* A document's totals and what it posts (packages/core/src/domain):       *)
(* calculateDocument (lineCalc.ts, taxEngine.ts) works the totals out when *)
(* a draft is written and they are stored; postDocument (ledger/           *)
(* postings.ts) reads them, and works the tax of the lines out again       *)
(* (itc.ts) without the context the totals were worked out in.  One        *)
(* document, written line by line, issued and cancelled.                   *)
(***************************************************************************)
EXTENDS Money, TLC

CONSTANTS
  Headings,  \* what a document can say above its lines
  Lines,     \* what a line can say
  MaxLines   \* bound: lines of a document

VARIABLES
  doc,     \* the document: its heading
  lines,   \* its lines
  totals,  \* its stored totals
  status   \* "draft", "issued" or "cancelled"
vars == <<doc, lines, totals, status>>

Credits == {"creditNote", "supplierCreditNote"}
Purchases == {"purchaseBill", "supplierCreditNote"}
TaxKinds == <<"Cgst", "Sgst", "Igst", "Cess">>
Purchase(d) == d.kind \in Purchases

(* -------------------------------- Totals -------------------------------- *)

CrossBorder(d) == d.party \in {"overseas", "sez"}
TaxContext(d) ==
  [regime |-> d.regime, registered |-> d.registered, rcm |-> d.rcm,
   interState |-> CrossBorder(d) \/ d.party = "otherState",
   zeroRated |-> IF Purchase(d) THEN d.party = "overseas" ELSE CrossBorder(d) /\ d.lut,
   composition |-> ~Purchase(d) /\ d.composition]

\* A line's treatment: reverse charge is owed even on what carries no tax by itself.
Treatment(line, ctx) ==
  LET taxable == ~line.reimbursement /\ line.supply = "taxable"
      rcm == taxable /\ (ctx.rcm \/ line.rcm)
      charged == taxable /\ ctx.registered /\ (rcm \/ ~(ctx.zeroRated \/ ctx.composition))
  IN  [rcm |-> rcm, rate |-> IF charged THEN line.rate ELSE 0, cess |-> IF charged THEN line.cess ELSE 0]

LeastOf(a, b) == IF a < b THEN a ELSE b
DiscountOf(base, discount) ==
  IF discount.mode = "percent" THEN Percent(base, LeastOf(discount.value, 100)) ELSE LeastOf(discount.value, base)

TaxInside(line, t) == line.inclusive /\ t.rate + t.cess > 0 /\ ~t.rcm
TaxOn(net, t, inside) == IF inside THEN InclusiveTax(net, t.rate + t.cess) ELSE Percent(net, t.rate) + Percent(net, t.cess)
TaxedLine(line, off, t, tax) ==
  [gross |-> line.price, discount |-> off, taxable |-> line.price - off - (IF TaxInside(line, t) THEN tax ELSE 0), tax |-> tax,
   slab |-> t, reimbursement |-> line.reimbursement]
DiscountedLine(line, off, t) == TaxedLine(line, off, t, TaxOn(line.price - off, t, TaxInside(line, t)))
CalculateLine(line, ctx) == DiscountedLine(line, DiscountOf(line.price, line.discount), Treatment(line, ctx))

\* The tax of one slab, by component: only those it has are in the domain.
SplitTax(taxable, slab, ctx) ==
  LET tax == Percent(taxable, slab.rate)
      half == Allocate(tax, <<1, 1>>)
      gst == CASE slab.rate = 0 -> [k \in {} |-> 0]
               [] slab.rate > 0 /\ ctx.regime = "VAT" -> [k \in {"Vat"} |-> tax]
               [] slab.rate > 0 /\ ctx.regime = "GST" /\ ctx.interState -> [k \in {"Igst"} |-> tax]
               [] OTHER -> [k \in {"Cgst", "Sgst"} |-> IF k = "Cgst" THEN half[1] ELSE half[2]]
  IN  [k \in DOMAIN gst \cup (IF slab.cess > 0 THEN {"Cess"} ELSE {}) |->
         IF k = "Cess" THEN Percent(taxable, slab.cess) ELSE gst[k]]
TaxOf(parts) == MapThenSumSet(LAMBDA k : parts[k], DOMAIN parts)

\* Tax is worked out on a slab's lines together.
TaxLines(calc, ctx) ==
  LET slabs == {calc[i].slab : i \in {i \in DOMAIN calc : calc[i].slab.rate + calc[i].slab.cess > 0}}
      taxable(slab) == SumOf([i \in DOMAIN calc |-> IF calc[i].slab = slab THEN calc[i].taxable ELSE 0])
  IN  [slab \in slabs |-> SplitTax(taxable(slab), slab, ctx)]

Charged(taxLines, rcm) == MapThenSumSet(LAMBDA slab : TaxOf(taxLines[slab]), {slab \in DOMAIN taxLines : slab.rcm = rcm})
\* What is supplied; what is only recovered (reimbursements) is kept apart.
Sums(calc, taxLines) ==
  LET taxable(recovered) == SumOf([i \in DOMAIN calc |-> IF calc[i].reimbursement = recovered THEN calc[i].taxable ELSE 0])
  IN  [taxable |-> taxable(FALSE), reimbursements |-> taxable(TRUE), taxLines |-> taxLines,
       tax |-> Charged(taxLines, FALSE), rcmTax |-> Charged(taxLines, TRUE)]
SumLines(calc, ctx) == Sums(calc, TaxLines(calc, ctx))

Rounded(d, exact) ==
  CASE d.rounding.mode = "off" -> exact
    [] d.rounding.mode = "manual" -> exact + d.rounding.by
    [] d.rounding.mode = "auto" -> RoundToWholeUnit(exact)
GrandTotal(d, sums, off, tcs) ==
  LET exact == sums.taxable + sums.tax - off + sums.reimbursements + d.charges + tcs
  IN  sums @@ [discount |-> off, charges |-> d.charges, tcs |-> tcs, roundOff |-> Rounded(d, exact) - exact,
               grandTotal |-> Rounded(d, exact)]
\* Tax is collected at source on what is left to pay after the discount.
Collect(d, sums, off) == GrandTotal(d, sums, off, 100 * HalfUp((sums.taxable + sums.tax - off + d.charges) * d.tcs, 10000))
Discount(d, sums) == Collect(d, sums, DiscountOf(sums.taxable + sums.tax, d.discount))
Calculate(d, ls) ==
  LET ctx == TaxContext(d)
  IN  Discount(d, SumLines([i \in DOMAIN ls |-> CalculateLine(ls[i], ctx)], ctx))

(* ------------------------------- Postings ------------------------------- *)

\* In base currency, d.rate being hundredths of it for one of the document's.
Base(d, n) == Nearest(n * d.rate, 100)

\* Tax of the document itself, or self-assessed, by the kinds that have accounts.
ChargedTax(t, rcm) ==
  [i \in DOMAIN TaxKinds |->
     MapThenSumSet(LAMBDA s : IF TaxKinds[i] \in DOMAIN t.taxLines[s] THEN t.taxLines[s][TaxKinds[i]] ELSE 0,
                   {s \in DOMAIN t.taxLines : s.rcm = rcm})]

\* Mutant: tax the business owes itself is forgotten.
GuessedFromCharged(d, t) ==
  [regime |-> "GST", registered |-> t.tax > 0, rcm |-> d.rcm, interState |-> FALSE, zeroRated |-> FALSE, composition |-> FALSE]
\* The context as far as the stored document still tells it.
GuessedContext(d, t) ==
  [regime |-> "GST", registered |-> t.tax + t.rcmTax > 0, rcm |-> d.rcm,
   interState |-> FALSE, zeroRated |-> FALSE, composition |-> FALSE]

\* The credit of one line, in base currency, as TaxKinds are ordered.
CreditOf(gst, cess, inter) == IF inter THEN <<0, 0, gst, cess>> ELSE <<gst - gst \div 2, gst \div 2, 0, cess>>
CessOf(all, slab) == IF slab.cess = 0 THEN 0 ELSE Nearest(all * slab.cess, slab.rate + slab.cess)
SplitCredit(all, slab, inter) == CreditOf(all - CessOf(all, slab), CessOf(all, slab), inter)
CreditOnLine(d, calc, inter) == SplitCredit(Base(d, calc.tax), calc.slab, inter)
InterState(t) == \E slab \in DOMAIN t.taxLines : "Igst" \in DOMAIN t.taxLines[slab]
LineCredit(line, d, t) == CreditOnLine(d, CalculateLine(line, GuessedContext(d, t)), InterState(t))

\* What can be claimed, by kind; and, of what cannot, the sum.
Claim(ls, credit) ==
  LET may(i) == ls[i].credit = "eligible"
  IN  [claimable |-> [k \in DOMAIN TaxKinds |-> SumOf([i \in DOMAIN ls |-> IF may(i) THEN credit[i][k] ELSE 0])],
       lost |-> SumOf([i \in DOMAIN ls |-> IF may(i) THEN 0 ELSE SumOf(credit[i])])]
ItcOfDocument(d, ls, t) == Claim(ls, [i \in DOMAIN ls |-> LineCredit(ls[i], d, t)])

\* Entries are <<account, hundredths of a paisa, debit positive>>; one per kind of tax.
PerKind(side, amounts) == [i \in DOMAIN TaxKinds |-> <<<<side, TaxKinds[i]>>, amounts[i]>>]
Times(n, amounts) == [i \in DOMAIN amounts |-> n * amounts[i]]

SalesEntries(d, t) ==
  <<<<<<"party">>, t.grandTotal * d.rate>>, <<<<"sales">>, -t.taxable * d.rate>>,
    <<<<"discount">>, t.discount * d.rate>>, <<<<"reimbursements">>, -t.reimbursements * d.rate>>,
    <<<<"charges">>, -t.charges * d.rate>>, <<<<"roundOff">>, -t.roundOff * d.rate>>, <<<<"tcs">>, -t.tcs * d.rate>>>>
  \o PerKind("output", Times(-d.rate, ChargedTax(t, FALSE)))

Tds(d, t) == HalfUp(Nearest(Base(d, t.taxable) * d.tds, 100) * 100, d.rate)
Capital(ls) ==
  SumOf([i \in DOMAIN ls |-> IF ls[i].capital /\ ~ls[i].reimbursement THEN ls[i].price - DiscountOf(ls[i].price, ls[i].discount) ELSE 0])

PurchaseEntriesOf(d, t, itc, capital, tds) ==
  LET duty == IF d.kind = "purchaseBill" THEN d.duty ELSE 0
  IN  <<<<<<"party">>, -t.grandTotal * d.rate>>,
        <<<<"purchases">>, (t.taxable - capital + t.reimbursements) * d.rate + 100 * itc.lost>>,
        <<<<"fixedAssets">>, capital * d.rate>>, <<<<"discount">>, -t.discount * d.rate>>,
        <<<<"charges">>, t.charges * d.rate>>, <<<<"roundOff">>, t.roundOff * d.rate>>,
        <<<<"party">>, tds * d.rate>>, <<<<"tds">>, -tds * d.rate>>,
        <<<<"input", "Igst">>, 100 * duty>>, <<<<"customs">>, -100 * duty>>>>
      \o PerKind("input", Times(100, itc.claimable)) \o PerKind("rcm", Times(-d.rate, ChargedTax(t, TRUE)))
PurchaseEntries(d, ls, t) == PurchaseEntriesOf(d, t, ItcOfDocument(d, ls, t), Capital(ls), Tds(d, t))

\* Signed amounts rounded and merged by account; what is left over is round off.
Rest(balances) == MapThenSumSet(LAMBDA a : balances[a], DOMAIN balances)
LeftToRoundOff(balances) == [a \in DOMAIN balances |-> IF a = <<"roundOff">> THEN balances[a] - Rest(balances) ELSE balances[a]]
ToPostings(entries) ==
  LeftToRoundOff([a \in {entries[i][1] : i \in DOMAIN entries} |->
    SumOf([i \in DOMAIN entries |-> IF entries[i][1] = a THEN Nearest(entries[i][2], 100) ELSE 0])])

Signed(entries, sign) == [i \in DOMAIN entries |-> <<entries[i][1], sign * entries[i][2]>>]
PostDocument(d, ls, t) ==
  ToPostings(Signed(IF Purchase(d) THEN PurchaseEntries(d, ls, t) ELSE SalesEntries(d, t), IF d.kind \in Credits THEN -1 ELSE 1))

\* What is on the books of it now: a draft and a cancelled document post nothing.
Books == IF status = "issued" THEN PostDocument(doc, lines, totals) ELSE [a \in {} |-> 0]
On(books, account) == IF account \in DOMAIN books THEN books[account] ELSE 0

(* ------------------------------ The document ------------------------------ *)

Init ==
  /\ doc \in Headings
  /\ lines = <<>> /\ status = "draft"
  /\ totals = Calculate(doc, <<>>)

\* A draft written with one line more: its totals are worked out anew.
WriteLine(line) ==
  /\ status = "draft" /\ Len(lines) < MaxLines
  /\ lines' = Append(lines, line)
  /\ totals' = Calculate(doc, lines')
  /\ UNCHANGED <<doc, status>>

Issue ==
  /\ status = "draft" /\ lines # <<>>
  /\ status' = "issued"
  /\ UNCHANGED <<doc, lines, totals>>

Cancel ==
  /\ status = "issued"
  /\ status' = "cancelled"
  /\ UNCHANGED <<doc, lines, totals>>

Next == (\E line \in Lines : WriteLine(line)) \/ Issue \/ Cancel
Spec == Init /\ [][Next]_vars

(* ------------------------------ Properties ------------------------------ *)

TypeOK ==
  /\ doc \in Headings
  /\ lines \in Seq(Lines) /\ Len(lines) <= MaxLines
  /\ status \in {"draft", "issued", "cancelled"}
  /\ \A field \in {"taxable", "tax", "rcmTax", "discount", "reimbursements", "charges", "tcs", "grandTotal"} : totals[field] \in Nat

\* Lines whose tax is in the books: the supplier's, or self-assessed.
Taxed == {i \in DOMAIN lines : Treatment(lines[i], TaxContext(doc)).rate > 0}
\* A bill from abroad with a line under reverse charge and a taxable one that is not: GuessedContext takes both for
\* taxed, so credit is claimed of tax that nobody charged, and Round off takes up the difference.
Misread == Purchase(doc) /\ TaxContext(doc).zeroRated /\ Taxed # {} /\ Taxed # DOMAIN lines
\* A paisa for every line, in base currency, and half of one for each entry rounded.
Slack == Len(lines) * Nearest(doc.rate, 100) + (IF doc.rate = 100 THEN 0 ELSE 10)
Near(a, b) == Abs(a - b) <= Slack

(* What the postings send to Round off beyond the document's own rounding is a paisa a      *)
(* line, though its totals tax slabs and the credit is worked out line by line from a       *)
(* context of its own (toPostings, itcOfDocument).                                           *)
RoundOffIsRounding(books) ==
  LET own == (IF Purchase(doc) = (doc.kind \in Credits) THEN -1 ELSE 1) * totals.roundOff
  IN  ~Misread => Near(On(books, <<"roundOff">>), Base(doc, own))

(* Where all credit may be claimed, what is claimed of each kind of tax is what the supplier *)
(* charged or the business owes itself, and customs took (itcOfDocument, postDocument).      *)
ClaimsAre(books, charged, owed) ==
  LET customs == <<0, 0, doc.duty, 0>>
  IN  \A i \in DOMAIN TaxKinds : Near(On(books, <<"input", TaxKinds[i]>>), Base(doc, charged[i] + owed[i]) + customs[i])
CreditFollowsTax(books) ==
  doc.kind = "purchaseBill" /\ ~Misread /\ (\A i \in DOMAIN lines : lines[i].credit = "eligible") =>
    ClaimsAre(books, ChargedTax(totals, FALSE), ChargedTax(totals, TRUE))

(* Capital goods stand in the books at what they cost without tax, and the rest, with the    *)
(* credit that is lost, in purchases (postDocument); a price that includes tax is the exception: it goes to *)
(* fixed assets with its tax, and purchases go below nothing.                                 *)
AssetsAreWhatTheyCost(books) ==
  LET asset(i) == lines[i].capital /\ ~lines[i].reimbursement
      cost(i) == CalculateLine(lines[i], TaxContext(doc)).taxable
  IN  doc.kind = "purchaseBill" /\ (\A i \in DOMAIN lines : asset(i) => ~lines[i].inclusive) =>
        /\ Near(On(books, <<"fixedAssets">>), Base(doc, SumOf([i \in DOMAIN lines |-> IF asset(i) THEN cost(i) ELSE 0])))
        /\ On(books, <<"purchases">>) >= 0

(* Prices said to include tax are what the buyer pays, to a paisa a line, whatever the lines *)
(* and slabs they are made of (calculateLine, calculateDocument).                             *)
PriceIsKept ==
  Taxed = DOMAIN lines /\ (\A i \in DOMAIN lines : lines[i].inclusive /\ ~Treatment(lines[i], TaxContext(doc)).rcm) =>
    Abs(totals.taxable + totals.tax - SumOf([i \in DOMAIN lines |-> lines[i].price - DiscountOf(lines[i].price, lines[i].discount)]))
      <= Len(lines)

(* A note for all of a document takes all of it off the books again, but for what rounding to *)
(* base currency leaves on an account (postDocument); TCS and customs duty are not taken back. *)
Undo(books, undone) == \A a \in DOMAIN books : Abs(books[a] + undone[a]) <= (IF doc.rate = 100 THEN 0 ELSE 10)
NoteUndoes(books, note) ==
  doc.tcs = 0 /\ doc.duty = 0 /\ doc.kind \notin Credits => Undo(books, PostDocument(note, lines, Calculate(note, lines)))
FullNote == [doc EXCEPT !.kind = IF Purchase(doc) THEN "supplierCreditNote" ELSE "creditNote"]

AreSound(books) ==
  RoundOffIsRounding(books) /\ CreditFollowsTax(books) /\ AssetsAreWhatTheyCost(books) /\ NoteUndoes(books, FullNote)
(* The five together: what an issued document put on the books is what it says (postDocument). *)
BooksFollowDocument == PriceIsKept /\ (status = "issued" => AreSound(Books))

\* What the code's own check of the books (integrityChecks) takes for granted of any document that is not rounded by hand.
RoundOffUnderARupee == doc.rounding.mode # "manual" => Abs(On(Books, <<"roundOff">>)) < 100
=============================================================================
