----------------------------- MODULE MCSettlement ------------------------------
(* What becomes of documents, as one instance for TLC: what settles them (Settlement),       *)
(* with an invoice of 2, a debit note of 1 and credit notes of 2 and 1 against it; what is   *)
(* made from them and the stock they move (Documents); what they come to and what they post  *)
(* (Ledger); and the tax on a receipt in advance of them (AdvanceTax).  A behaviour is one   *)
(* of these: focus says which, and the others stand still where they began.                  *)
EXTENDS Settlement, TLC
CONSTANTS s1, s2, p1, p2, p3, inv, cn1, cn2, dn, a1, a2, n1, n2
VARIABLES focus, dDoc, dPosted, dCounted, dRowLock, dItemLock, dTask, dNoted, dAsked,
  lDoc, lLines, lTotals, lStatus, aReceipt

OneInvoice == {inv}
AllNotes == <<cn1, dn, inv, cn2>>
SourceOf == [n \in {cn1, cn2, dn} \cap Docs |-> inv]
Totals == [d \in Docs |-> IF d \in {dn, cn2} THEN 1 ELSE 2]

In(dir, amount, alloc) ==
  [dir |-> dir, amount |-> amount, alloc |-> alloc, of |-> Nothing, acc |-> a1]
ToInvoice(cash, adj) == [NoAlloc EXCEPT ![inv] = [cash |-> cash, adj |-> adj]]
ToBoth == [ToInvoice(1, 0) EXCEPT ![dn] = [cash |-> 1, adj |-> 0]]

(* Receipts that settle the invoice with an adjustment, in part, with the debit note, not   *)
(* at all, and one that leaves no advance.                                                  *)
Receipts ==
  {In("received", 2, ToInvoice(1, 1)), In("received", 2, ToInvoice(1, 0)), In("received", 2, ToBoth),
   In("received", 2, NoAlloc), In("received", 1, ToInvoice(1, 0))}
(* And money paid out, and a receipt on another account, to be made there or moved there.   *)
ReceiptsAndPaidOut ==
  Receipts \cup {In("paid", 1, NoAlloc), [In("received", 2, NoAlloc) EXCEPT !.acc = a2]}

\* A customer's order of 1, and a supplier's bill of 1 that came in on the first day; another on the second.
Confirmed(what) == [kind |-> what, status |-> "final", src |-> "none", qty |-> 1, date |-> 1, version |-> 1, approval |-> "none"]
OrderAndBill == [d \in {"order", "bill"} |-> Confirmed(IF d = "order" THEN "salesOrder" ELSE "purchaseBill")]
Chain == INSTANCE Documents WITH
  Given <- OrderAndBill, New <- {n1, n2}, Fresh <- {"invoice", "purchaseBill"}, Requests <- Sessions, MaxDay <- 2, MaxQty <- 2,
  Opening <- [t \in 1 .. 2 |-> t - 1], Ruled <- {"invoice"}, Over <- 1, MaxAsked <- 4,
  doc <- dDoc, posted <- dPosted, counted <- dCounted, rowLock <- dRowLock, itemLock <- dItemLock, task <- dTask,
  noted <- dNoted, asked <- dAsked

(* Ids of documents and sessions are none of the strings that stand for the lack of one. *)
ASSUME PartsAssumption == {n1, n2} \cap {Chain!None, Chain!ShortCount} = {} /\ Chain!Free \notin Sessions

\* Lines of every treatment a line can get, priced so that each rounds somewhere.
Plain == [price |-> 105, discount |-> [mode |-> "amount", value |-> 0], rate |-> 18, cess |-> 0, inclusive |-> FALSE,
          supply |-> "taxable", rcm |-> FALSE, reimbursement |-> FALSE, capital |-> FALSE, credit |-> "eligible"]
SomeLines ==
  {Plain, [Plain EXCEPT !.price = 47, !.rate = 5], [Plain EXCEPT !.supply = "exempt", !.price = 500],
   [Plain EXCEPT !.discount = [mode |-> "percent", value |-> 7], !.price = 1234],
   [Plain EXCEPT !.discount = [mode |-> "amount", value |-> 2000], !.cess = 12, !.price = 3333],
   [Plain EXCEPT !.inclusive = TRUE, !.price = 10000], [Plain EXCEPT !.inclusive = TRUE, !.cess = 12, !.price = 999],
   [Plain EXCEPT !.rcm = TRUE, !.price = 2003], [Plain EXCEPT !.reimbursement = TRUE, !.price = 777],
   [Plain EXCEPT !.capital = TRUE, !.discount = [mode |-> "amount", value |-> 50], !.price = 5003],
   [Plain EXCEPT !.capital = TRUE, !.inclusive = TRUE, !.price = 11800],
   [Plain EXCEPT !.capital = TRUE, !.credit = "blocked", !.price = 4444],
   [Plain EXCEPT !.credit = "blocked", !.inclusive = TRUE, !.price = 333]}

\* Documents of every kind and party; rounded or not, discounted, in another currency, with TCS, TDS and duty.
Bare == [kind |-> "invoice", regime |-> "GST", registered |-> TRUE, composition |-> FALSE, lut |-> FALSE, party |-> "home",
         rcm |-> FALSE, discount |-> [mode |-> "amount", value |-> 0], charges |-> 0, rounding |-> [mode |-> "auto", by |-> 0],
         rate |-> 100, tcs |-> 0, tds |-> 0, duty |-> 0]
Full == [Bare EXCEPT !.discount = [mode |-> "percent", value |-> 10], !.charges = 75]
Unrounded == [mode |-> "off", by |-> 0]
Bill == [Bare EXCEPT !.kind = "purchaseBill"]
SomeHeadings ==
  {[Bare EXCEPT !.kind = k, !.party = p] :
     k \in {"invoice", "creditNote", "purchaseBill", "supplierCreditNote"}, p \in {"home", "otherState", "sez", "overseas"}}
  \cup {[Full EXCEPT !.kind = k, !.rounding = r] :
           k \in {"invoice", "purchaseBill"}, r \in {Unrounded, [mode |-> "manual", by |-> -40]}}
  \cup {[Full EXCEPT !.kind = k, !.rate = 8350, !.rounding = Unrounded, !.rcm = r, !.party = "overseas"] :
           k \in {"invoice", "purchaseBill"}, r \in BOOLEAN}
  \cup {[Bare EXCEPT !.lut = TRUE, !.party = "sez"], [Bare EXCEPT !.composition = TRUE], [Bill EXCEPT !.registered = FALSE],
        [Full EXCEPT !.tcs = 1], [Full EXCEPT !.kind = "purchaseBill", !.tds = 2],
        [Full EXCEPT !.kind = "purchaseBill", !.tds = 2, !.rcm = TRUE], [Bill EXCEPT !.duty = 321, !.party = "overseas"]}
Books == INSTANCE Ledger WITH
  Headings <- SomeHeadings, Lines <- SomeLines, MaxLines <- 2,
  doc <- lDoc, lines <- lLines, totals <- lTotals, status <- lStatus

\* Two months of two days; invoices that cannot be seen, of the first day, and of the second month.
Advance == INSTANCE AdvanceTax WITH
  Invoices <- {"unseen", "early", "mid", "late"}, DateOf <- [unseen |-> 0, early |-> 1, mid |-> 3, late |-> 4],
  Amounts <- {7, 13, 20, 27}, Rates <- {5, 18}, Fx <- {100, 250}, Days <- 1 .. 4, PerMonth <- 2, MaxUses <- 3,
  receipt <- aReceipt

settling == vars
documents == <<dDoc, dPosted, dCounted, dRowLock, dItemLock, dTask, dNoted, dAsked>>
books == <<lDoc, lLines, lTotals, lStatus>>

AllInit ==
  /\ focus \in {"settling", "documents", "books", "advance"}
  /\ Init /\ Chain!Init
  /\ Books!Init /\ (focus # "books" => lDoc = Bare)
  /\ Advance!Init /\ (focus # "advance" => aReceipt.date = 1 /\ aReceipt.amount = 7 /\ aReceipt.rate = 18 /\ aReceipt.fx = 100)
AllNext ==
  /\ UNCHANGED focus
  /\ \/ focus = "settling" /\ Next /\ UNCHANGED <<documents, books, aReceipt>>
     \/ focus = "documents" /\ Chain!Next /\ UNCHANGED <<settling, books, aReceipt>>
     \/ focus = "books" /\ Books!Next /\ UNCHANGED <<settling, documents, aReceipt>>
     \/ focus = "advance" /\ Advance!Next /\ UNCHANGED <<settling, documents, books>>
AllSpec == AllInit /\ [][AllNext]_<<focus, settling, documents, books, aReceipt>>

Symmetry == Permutations(Sessions) \cup Permutations(Payments)

\* All the models keep their types.
AllTypeOK ==
  CASE focus = "settling" -> TypeOK
    [] focus = "documents" -> Chain!TypeOK
    [] focus = "books" -> Books!TypeOK
    [] focus = "advance" -> Advance!TypeOK
\* Properties of the documents
GoodsAreRight == focus = "documents" => Chain!StockIsSound /\ Chain!GoodsMoveOnce
IssuedAndDecidedForGood == Chain!IssuedAndDecidedForGood
\* What is worked out from documents and receipts adds up: what they post, and the tax on advances.
AmountsAddUp == (focus = "books" => Books!BooksFollowDocument) /\ (focus = "advance" => Advance!AdvancesAddUp)
=============================================================================
