----------------------------- MODULE OnlinePayments ----------------------------
(***************************************************************************)
(* What a customer pays online for one invoice: its payment links, the     *)
(* payments and refunds at the gateway, and what they become in the books  *)
(* (apps/api/src/modules/documents/outbound.ts: paymentLinkFor, and        *)
(* webhooks/handlers.ts).                                                  *)
(*                                                                         *)
(* Two links can be out for one debt, and a link taken out of use here can *)
(* still be paid at the gateway: what the invoice does not need becomes an *)
(* advance.  Webhooks arrive at least once and in any order.               *)
(***************************************************************************)
EXTENDS Integers, Sequences, Functions

CONSTANTS
  Total,       \* what the invoice is for
  Requests,    \* requests for a link that may be under way at once
  Deliveries,  \* webhooks that may be
  MaxLinks,    \* bound: links
  MaxRefunds,  \* bound: refunds at the gateway
  MaxEvents    \* bound: failures

VARIABLES
  doc,       \* the invoice: "open" or "cancelled"
  links,     \* payment_links: its amount, and whether it is "active", "paid" or "cancelled"
  payment,   \* payment[n]: what was paid through link n, as the books have it; alloc: the part the invoice got
  collected, \* the links the gateway has been paid through
  refunds,   \* the refunds it has made
  seen,      \* webhook_events: those handled
  task,      \* task[p]: what request or delivery p has read
  lost,      \* history: the refunds that found no payment
  events

vars == <<doc, links, payment, collected, refunds, seen, task, lost, events>>

NoPayment == [amount |-> 0, alloc |-> 0]
Payments == {pay \in [amount : 1 .. Total, alloc : 0 .. Total] : pay.alloc <= pay.amount}
Idle == [op |-> "none", event |-> <<"none", 0>>, amount |-> 0]
Paid(n) == <<"paid", n>>
Refunded(n) == <<"refunded", n>>
Sent == {Paid(n) : n \in collected} \cup {Refunded(n) : n \in DOMAIN refunds}
AmountPaid == SumFunctionOnSet([n \in DOMAIN payment |-> payment[n].alloc], DOMAIN payment)
Outstanding == IF doc = "open" THEN Total - AmountPaid ELSE 0

TypeOK ==
  /\ doc \in {"open", "cancelled"}
  /\ links \in Seq([amount : 1 .. Total, status : {"active", "paid", "cancelled"}])
  /\ payment \in [DOMAIN links -> {NoPayment} \cup Payments]
  /\ collected \subseteq DOMAIN links
  /\ refunds \in Seq([link : DOMAIN links, amount : 1 .. Total])
  /\ seen \subseteq Sent /\ lost \subseteq DOMAIN refunds
  /\ task \in [Requests \cup Deliveries -> [op : {"none", "mint", "webhook"}, event : Sent \cup {<<"none", 0>>}, amount : 0 .. Total]]
  /\ events \in 0 .. MaxEvents

Init ==
  /\ doc = "open" /\ links = <<>> /\ payment = <<>>
  /\ collected = {} /\ refunds = <<>> /\ seen = {} /\ lost = {}
  /\ task = [p \in Requests \cup Deliveries |-> Idle] /\ events = 0

Begins(p, t) == task[p] = Idle /\ task' = [task EXCEPT ![p] = t]
Ends(p) == task' = [task EXCEPT ![p] = Idle]

-----------------------------------------------------------------------------
(* Links, the invoice, and the gateway *)

\* For what is owed or a part of it; an active link for the same amount is handed out again.
AskForLink(p, amount) ==
  /\ amount <= Outstanding /\ Len(links) < MaxLinks
  /\ \A n \in DOMAIN links : links[n] # [amount |-> amount, status |-> "active"]
  /\ Begins(p, [Idle EXCEPT !.op = "mint", !.amount = amount])
  /\ UNCHANGED <<doc, links, payment, collected, refunds, seen, lost, events>>

StoreLink(p) ==
  /\ task[p].op = "mint" /\ Len(links) < MaxLinks
  /\ links' = Append(links, [amount |-> task[p].amount, status |-> "active"])
  /\ payment' = Append(payment, NoPayment)
  /\ Ends(p)
  /\ UNCHANGED <<doc, collected, refunds, seen, lost, events>>

\* changeStatus: not with payments; its links are out of use here, not at the gateway.
CancelInvoice ==
  /\ doc = "open" /\ AmountPaid = 0
  /\ doc' = "cancelled"
  /\ links' = [n \in DOMAIN links |-> [links[n] EXCEPT !.status = IF @ = "active" THEN "cancelled" ELSE @]]
  /\ UNCHANGED <<payment, collected, refunds, seen, task, lost, events>>

Pay(n) ==
  /\ n \notin collected /\ collected' = collected \cup {n}
  /\ UNCHANGED <<doc, links, payment, refunds, seen, task, lost, events>>

RefundedOf(n, which) ==
  SumFunctionOnSet([i \in DOMAIN refunds |-> refunds[i].amount], {i \in which : refunds[i].link = n})
Refund(n, amount) ==
  /\ n \in collected /\ Len(refunds) < MaxRefunds
  /\ amount <= links[n].amount - RefundedOf(n, DOMAIN refunds)
  /\ refunds' = Append(refunds, [link |-> n, amount |-> amount])
  /\ UNCHANGED <<doc, links, payment, collected, seen, task, lost, events>>

-----------------------------------------------------------------------------
(* razorpayWebhook *)

Handling(event) == \E p \in Deliveries : task[p].event = event
LinkOf(event) == IF event[1] = "paid" THEN event[2] ELSE refunds[event[2]].link
\* A refund locks the payment it has found until it is handled.
Locked(n) == \E p \in Deliveries : task[p].event[1] = "refunded" /\ LinkOf(task[p].event) = n /\ task[p].amount > 0
\* once: an event is on record with what it did, and one being handled makes its duplicate wait.
ToHandle(event) == event \notin seen /\ ~Handling(event)

Least(a, b) == IF a <= b THEN a ELSE b
\* A payment reads what the invoice needs before writePayment locks it; a refund looks for its payment.
Receive(p, event) ==
  LET n == LinkOf(event) IN
  /\ ToHandle(event)
  /\ event[1] = "refunded" => ~Locked(n)
  /\ Begins(p, [op |-> "webhook", event |-> event,
                amount |-> IF event[1] = "paid" THEN Least(links[n].amount, Outstanding) ELSE payment[n].amount])
  /\ UNCHANGED <<doc, links, payment, collected, refunds, seen, lost, events>>

Handles(p, kind) == task[p].op = "webhook" /\ task[p].event[1] = kind
Handled(p) == seen' = seen \cup {task[p].event} /\ Ends(p)

\* Mutant: the allocation is not checked again under the invoice's lock.
LinkPaidUnchecked(p) == Handles(p, "paid") /\
  LET n == LinkOf(task[p].event) IN
  /\ payment' = [payment EXCEPT ![n] = [amount |-> links[n].amount, alloc |-> task[p].amount]]
  /\ links' = [links EXCEPT ![n].status = "paid"]
  /\ Handled(p)
  /\ UNCHANGED <<doc, collected, refunds, lost, events>>
PaymentLinkPaid(p) == Handles(p, "paid") /\
  LET n == LinkOf(task[p].event) IN
  /\ task[p].amount <= Outstanding
  /\ payment' = [payment EXCEPT ![n] = [amount |-> links[n].amount, alloc |-> task[p].amount]]
  /\ links' = [links EXCEPT ![n].status = "paid"]
  /\ Handled(p)
  /\ UNCHANGED <<doc, collected, refunds, lost, events>>
\* The invoice needs less than was read: writePayment refuses, and the event is delivered again.
Refused(p) ==
  /\ Handles(p, "paid") /\ task[p].amount > Outstanding
  /\ Ends(p)
  /\ UNCHANGED <<doc, links, payment, collected, refunds, seen, lost, events>>

\* A full refund deletes the payment; a partial one makes it smaller, what the invoice did not need first.
Shrunk(pay, amount) ==
  IF amount >= pay.amount THEN NoPayment
  ELSE [amount |-> pay.amount - amount, alloc |-> Least(pay.alloc, pay.amount - amount)]
RefundProcessed(p) == Handles(p, "refunded") /\
  LET i == task[p].event[2]
      n == refunds[i].link
  IN
  /\ IF task[p].amount = 0 THEN lost' = lost \cup {i} /\ UNCHANGED payment
     ELSE payment' = [payment EXCEPT ![n] = Shrunk(@, refunds[i].amount)] /\ UNCHANGED lost
  /\ Handled(p)
  /\ UNCHANGED <<doc, links, collected, refunds, events>>

\* The delivery, or the request for a link, fails and is rolled back.
Fails(p) ==
  /\ task[p] # Idle /\ events < MaxEvents /\ events' = events + 1
  /\ Ends(p)
  /\ UNCHANGED <<doc, links, payment, collected, refunds, seen, lost>>

Finish(p) == PaymentLinkPaid(p) \/ Refused(p) \/ RefundProcessed(p)
Next ==
  \/ \E p \in Requests : StoreLink(p) \/ \E amount \in 1 .. Total : AskForLink(p, amount)
  \/ CancelInvoice
  \/ \E n \in DOMAIN links : Pay(n) \/ \E amount \in 1 .. Total : Refund(n, amount)
  \/ \E p \in Deliveries : Finish(p) \/ \E event \in Sent : Receive(p, event)
  \/ \E p \in Requests \cup Deliveries : Fails(p)

Spec == Init /\ [][Next]_vars

\* The gateway delivers an event again until it is answered (it tries for a day), and a delivery comes to its end.
Fairness ==
  /\ \A p \in Deliveries : WF_vars(Finish(p))
  /\ \A n \in 1 .. MaxLinks : WF_vars(\E p \in Deliveries : Paid(n) \in Sent /\ Receive(p, Paid(n)))

-----------------------------------------------------------------------------
(* Properties *)

\* Whatever links are paid at once, and cancelled meanwhile, an invoice never gets more than it is for, and a cancelled one nothing.
InvoiceNotOverpaid == AmountPaid <= (IF doc = "open" THEN Total ELSE 0)

\* handlers.ts "a duplicate delivery is acknowledged without running again": a payment is on the books for what was
\* paid less what was refunded since, each once; refunds that had overtaken their payment are missing.
BooksFollowGateway ==
  \A n \in DOMAIN links :
    Paid(n) \in seen =>
      payment[n].amount + RefundedOf(n, {i \in DOMAIN refunds : Refunded(i) \in seen} \ lost) = links[n].amount

\* handlers.ts "a failure rolls the whole thing back so the sender's retry is processed": what the gateway has
\* collected, and kept, is on the books in the end, whatever was paid or cancelled meanwhile.
CollectionIsBooked ==
  \A n \in 1 .. MaxLinks :
    n \in collected ~> n \in collected /\ (payment[n] # NoPayment \/ \E i \in DOMAIN refunds : refunds[i].link = n)

\* What was paid online is on the books once, and settles the invoice for no more than it needs.
BooksAgreeWithGateway == InvoiceNotOverpaid /\ BooksFollowGateway
=============================================================================
