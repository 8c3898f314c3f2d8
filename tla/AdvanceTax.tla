------------------------------ MODULE AdvanceTax -------------------------------
(***************************************************************************)
(* GST on an advance received for services (packages/core/src/domain/      *)
(* advanceTax.ts): owed when the money arrives, taken back as invoices     *)
(* and refunds use it up, and reported month by month (advancesForPeriod). *)
(* Nothing of it is stored: it is worked out from the receipt as it is     *)
(* now.  One receipt, as payments/engine.ts keeps it; amounts in paise.    *)
(***************************************************************************)
EXTENDS Money

CONSTANTS
  Invoices, DateOf,  \* DateOf[i]: the date of invoice i, 0 if it cannot be seen
  Amounts,           \* what is received, allocated or refunded at once
  Rates,             \* rates of GST
  Fx,                \* exchange rates, in hundredths
  Days, PerMonth,    \* the days there are, and how many make a month
  MaxUses            \* bound: allocations and refunds of a receipt

VARIABLE receipt
vars == receipt

Use == [doc : Invoices, amount : Amounts]
Refund == [date : Days, amount : Amounts]
TypeOK ==
  /\ receipt.date \in Days /\ receipt.amount \in Nat /\ receipt.rate \in Rates /\ receipt.fx \in Fx
  /\ receipt.allocations \in Seq(Use) /\ receipt.refunds \in Seq(Refund)
  /\ Len(receipt.allocations) + Len(receipt.refunds) <= MaxUses

AmountOf(uses) == SumOf([i \in DOMAIN uses |-> uses[i].amount])
Unallocated == receipt.amount - AmountOf(receipt.allocations) - AmountOf(receipt.refunds)

(* -------------------------------- Events -------------------------------- *)

Base(n) == Nearest(n * receipt.fx, 100)
\* Money for an invoice of the receipt's day or before it, or out of sight, was no advance.
Later(a) == DateOf[a.doc] > receipt.date
Settled == AmountOf(SelectSeq(receipt.allocations, LAMBDA a : ~Later(a)))
Gross == Base(receipt.amount - Settled)
Tax == InclusiveTax(Gross, receipt.rate)
NotBefore(r) == r.date >= receipt.date

\* When, and how much of the advance, its tax comes back: for invoices, then for refunds.
Returns ==
  LET invoiced == SelectSeq(receipt.allocations, Later)
      refunded == SelectSeq(receipt.refunds, NotBefore)
  IN  [i \in DOMAIN invoiced |-> [date |-> DateOf[invoiced[i].doc], gross |-> Base(invoiced[i].amount)]]
      \o [i \in DOMAIN refunded |-> [date |-> refunded[i].date, gross |-> Base(refunded[i].amount)]]

Halves(tax) == LET h == Allocate(tax, <<1, 1>>) IN [cgst |-> h[1], sgst |-> h[2]]
Event(kind, date, gross, tax) == [kind |-> kind, date |-> date, taxable |-> gross - tax, tax |-> tax, in |-> Halves(tax)]
AdvanceTaxEvents ==
  LET grosses == [i \in DOMAIN Returns |-> Returns[i].gross]
      over == Gross - SumOf(grosses)
      parts == Allocate(Tax, Append(grosses, IF over > 0 THEN over ELSE 0))
  IN  IF Gross <= 0 THEN <<>>
      ELSE <<Event("received", receipt.date, Gross, Tax)>>
           \o [i \in DOMAIN grosses |-> Event("back", Returns[i].date, grosses[i], parts[i])]

\* Table 11 for the days from .. to: what arose and is still held (11A); what of earlier months came back (11B).
AdvancesForPeriod(events, from, to) ==
  LET In(day) == from <= day /\ day <= to
      total(Counts(_)) == SumOf([i \in DOMAIN events |-> IF Counts(events[i]) THEN events[i].tax ELSE 0])
  IN  [received |-> IF In(receipt.date) THEN total(LAMBDA e : e.kind = "received") - total(LAMBDA e : e.kind = "back" /\ In(e.date)) ELSE 0,
       adjusted |-> IF receipt.date < from THEN total(LAMBDA e : e.kind = "back" /\ In(e.date)) ELSE 0]

(* ------------------------------ The receipt ------------------------------ *)

Init == receipt \in [date : Days, amount : Amounts, rate : Rates, fx : Fx, allocations : {<<>>}, refunds : {<<>>}]

MayUse(n) == n <= Unallocated /\ Len(receipt.allocations) + Len(receipt.refunds) < MaxUses
Allot(i, n) ==
  /\ MayUse(n)
  /\ \A k \in DOMAIN receipt.allocations : receipt.allocations[k].doc # i
  /\ receipt' = [receipt EXCEPT !.allocations = Append(@, [doc |-> i, amount |-> n])]
Release(k) == receipt' = [receipt EXCEPT !.allocations = RemoveAt(@, k)]
PayBack(day, n) ==
  /\ MayUse(n) /\ day >= receipt.date
  /\ receipt' = [receipt EXCEPT !.refunds = Append(@, [date |-> day, amount |-> n])]
\* Saved with another date, for which the day's exchange rate and the rate of tax are looked up again.
Redate(day, rate, fx) ==
  /\ day # receipt.date
  /\ receipt' = [receipt EXCEPT !.date = day, !.rate = rate, !.fx = fx]

Next ==
  \/ \E i \in Invoices, n \in Amounts : Allot(i, n)
  \/ \E k \in DOMAIN receipt.allocations : Release(k)
  \/ \E day \in Days, n \in Amounts : PayBack(day, n)
  \/ \E day \in Days, rate \in Rates, fx \in Fx : Redate(day, rate, fx)
Spec == Init /\ [][Next]_vars

(* ------------------------------ Properties ------------------------------ *)

Back(events) == {i \in DOMAIN events : events[i].kind = "back"}
Whole == receipt.fx = 100

(* Each use of the advance brings back its share of the tax, to a paisa; and what has been   *)
(* used up whole has brought back all of it, unless the receipt was dated past a refund       *)
(* (advanceTaxEvents).                                                                        *)
SharesAddUp ==
  LET events == AdvanceTaxEvents
      back == MapThenSumSet(LAMBDA i : events[i].tax, Back(events))
      share(i) == (events[i].taxable + events[i].tax) * Tax
  IN  /\ back <= Tax
      /\ Whole => \A i \in Back(events) : Abs(events[i].tax * Gross - share(i)) <= Gross
      /\ events # <<>> /\ Unallocated = 0 /\ (\A i \in DOMAIN receipt.refunds : NotBefore(receipt.refunds[i])) /\ Whole => back = Tax
      /\ Abs(MapThenSumSet(LAMBDA i : events[i].in.cgst - events[i].in.sgst, Back(events))) <= Cardinality(Back(events))

(* The returns of all months together report what arose less what came back by then: no use  *)
(* of an advance is reported twice, or in no month (advancesForPeriod).                       *)
TablesCarryWhatIsHeld ==
  LET events == AdvanceTaxEvents
      last == CHOOSE d \in Days : \A e \in Days : e <= d
      to(k) == k * PerMonth
      Reported(k) == LET t == AdvancesForPeriod(events, to(k - 1) + 1, to(k)) IN t.received - t.adjusted
      held(day) == SumOf([i \in DOMAIN events |-> IF events[i].date > day THEN 0 ELSE IF events[i].kind = "back" THEN -events[i].tax ELSE events[i].tax])
  IN  \A k \in 1 .. last \div PerMonth : MapThenSumSet(Reported, 1 .. k) = held(to(k))

AdvancesAddUp == SharesAddUp /\ TablesCarryWhatIsHeld
=============================================================================
