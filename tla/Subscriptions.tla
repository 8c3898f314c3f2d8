----------------------------- MODULE Subscriptions -----------------------------
(***************************************************************************)
(* The plan of one company: its row of subscriptions, the gateway's        *)
(* subscriptions behind it, and the webhooks that carry one to the other   *)
(* (apps/api/src/modules/billing/handlers.ts, webhooks/handlers.ts).       *)
(*                                                                         *)
(* A row remembers one gateway subscription, but every checkout starts     *)
(* another, and the gateway's events arrive at least once and in any       *)
(* order.  A webhook reads the row before it locks the company, a checkout *)
(* and a cancellation before they call the gateway.                        *)
(***************************************************************************)
EXTENDS Naturals, Sequences

CONSTANTS
  Plans,       \* the paid plans
  Requests,    \* checkouts and cancellations that may be under way at once
  Deliveries,  \* webhooks that may be
  MaxSubs,     \* bound: subscriptions at the gateway
  MaxSent,     \* bound: events the gateway sends
  MaxEvents    \* bound: failures

VARIABLES
  row,     \* the company's row; sub: provider_subscription_id, atEnd: cancel_at_period_end
  plan,    \* companies.plan
  subs,    \* the gateway's subscriptions
  sent,    \* the events it has sent
  seen,    \* webhook_events: those handled
  task,    \* task[p]: what request or delivery p has read
  races,   \* history: which of the races described at the properties have happened
  events

vars == <<row, plan, subs, sent, seen, task, races, events>>

NoSub == 0
Subs == 1 .. MaxSubs
Statuses == {"none", "active", "pastDue", "cancelled"}
NoRow == [status |-> "none", plan |-> "free", sub |-> NoSub, atEnd |-> FALSE]
Idle == [op |-> "none", n |-> 0, known |-> NoRow]

Rows == [status : Statuses, plan : Plans \cup {"free"}, sub : {NoSub} \cup Subs, atEnd : BOOLEAN]
Ops == {"none", "checkout", "cancel", "cancelled", "webhook"}
SubsAt == [plan : Plans, status : {"created", "offered", "live", "ending", "ended"}]
Events == [is : {"charged", "halted", "ended"}, sub : Subs]

TypeOK ==
  /\ row \in Rows
  /\ plan \in Plans \cup {"free"}
  /\ subs \in Seq(SubsAt) /\ Len(subs) <= MaxSubs
  /\ sent \in Seq(Events) /\ (\A e \in DOMAIN sent : sent[e].sub \in DOMAIN subs) /\ seen \subseteq DOMAIN sent
  /\ row.sub \in {NoSub} \cup DOMAIN subs
  /\ task \in [Requests \cup Deliveries -> [op : Ops, n : Nat, known : Rows]]
  /\ \A p \in Requests \cup Deliveries :
       /\ task[p].n \in (CASE task[p].op = "none" -> {0} [] task[p].op = "webhook" -> DOMAIN sent [] OTHER -> DOMAIN subs)
  /\ races \subseteq {"overtaken", "late", "misplaced"} /\ events \in 0 .. MaxEvents

Init ==
  /\ row = NoRow /\ plan = "free" /\ subs = <<>> /\ sent = <<>> /\ seen = {}
  /\ task = [p \in Requests \cup Deliveries |-> Idle]
  /\ races = {} /\ events = 0

Happens == events < MaxEvents /\ events' = events + 1
Begins(p, t) == task[p] = Idle /\ task' = [task EXCEPT ![p] = t]
Ends(p) == task' = [task EXCEPT ![p] = Idle]
Noting(race, cond) == races' = IF cond THEN races \cup {race} ELSE races

-----------------------------------------------------------------------------
(* Checkout and cancellation *)

\* The row and the company are read, and the gateway makes a subscription nobody can pay yet.
StartCheckout(p, asked) ==
  /\ ~(row.status = "active" /\ row.plan = asked /\ ~row.atEnd)
  /\ Len(subs) < MaxSubs
  /\ subs' = Append(subs, [plan |-> asked, status |-> "created"])
  /\ Begins(p, [op |-> "checkout", n |-> Len(subs'), known |-> [row EXCEPT !.plan = plan]])
  /\ UNCHANGED <<row, plan, sent, seen, races, events>>

\* A company with no live subscription remembers the checkout, and what was read with it.
RememberCheckout(p) ==
  LET t == task[p] IN
  /\ t.op = "checkout"
  /\ IF t.known.status = "active" THEN UNCHANGED <<row, races>>
     ELSE /\ row' = [t.known EXCEPT !.sub = t.n, !.atEnd = row.atEnd]
          /\ Noting("overtaken", row.status = "active")
  /\ subs' = [subs EXCEPT ![t.n].status = "offered"]
  /\ Ends(p)
  /\ UNCHANGED <<plan, sent, seen, events>>

AskCancel(p) ==
  /\ row.status = "active" /\ row.sub # NoSub /\ ~row.atEnd
  /\ Begins(p, [op |-> "cancel", n |-> row.sub, known |-> row])
  /\ UNCHANGED <<row, plan, subs, sent, seen, races, events>>

\* The gateway ends the subscription with its period, refuses to, or does so without an answer.
CallCancel(p) ==
  LET n == task[p].n
      Scheduled == subs[n].status = "live" /\ subs' = [subs EXCEPT ![n].status = "ending"]
  IN
  /\ task[p].op = "cancel"
  /\ \/ Scheduled /\ task' = [task EXCEPT ![p].op = "cancelled"] /\ UNCHANGED events
     \/ Scheduled /\ Happens /\ Ends(p)
     \/ subs[n].status # "live" /\ Ends(p) /\ UNCHANGED <<subs, events>>
  /\ UNCHANGED <<row, plan, sent, seen, races>>

\* The row of the company, whichever subscription it is about by now
MarkAtEnd(p) ==
  /\ task[p].op = "cancelled"
  /\ row' = [row EXCEPT !.atEnd = TRUE]
  /\ Noting("misplaced", row.sub # task[p].n)
  /\ Ends(p)
  /\ UNCHANGED <<plan, subs, sent, seen, events>>

-----------------------------------------------------------------------------
(* The gateway *)

Sends(kind, n, status) ==
  /\ Len(sent) < MaxSent
  /\ sent' = Append(sent, [is |-> kind, sub |-> n])
  /\ subs' = [subs EXCEPT ![n].status = status]
  /\ UNCHANGED <<row, plan, seen, task, races, events>>

ChargeSub(n) == subs[n].status \in {"offered", "live"} /\ Sends("charged", n, "live")
HaltSub(n) == subs[n].status = "live" /\ Sends("halted", n, "live")
EndSub(n) == subs[n].status \in {"live", "ending"} /\ Sends("ended", n, "ended")

-----------------------------------------------------------------------------
(* razorpayWebhook *)

\* once: an event is on record with what it did, and one being handled makes its duplicate wait.
ToHandle(e) == e \notin seen /\ \A p \in Deliveries : task[p].n # e

\* The row is looked up by the subscription's id before the company is locked.
Receive(p, e) ==
  /\ ToHandle(e)
  /\ Begins(p, [op |-> "webhook", n |-> e, known |-> IF row.sub = sent[e].sub THEN row ELSE NoRow])
  /\ UNCHANGED <<row, plan, subs, sent, seen, races, events>>

Known(p) == task[p].known # NoRow
Handles(p, kind) == task[p].op = "webhook" /\ sent[task[p].n].is = kind
Handled(p) == seen' = seen \cup {task[p].n} /\ Ends(p) /\ UNCHANGED <<subs, sent, events>>
EndSeen(n) == \E e \in seen : sent[e] = [is |-> "ended", sub |-> n]

SubscriptionCharged(p) == Handles(p, "charged") /\
  LET n == sent[task[p].n].sub IN
  /\ IF task[p].known.status = "cancelled" THEN UNCHANGED <<row, plan, races>>
     ELSE /\ row' = [status |-> "active", plan |-> subs[n].plan, sub |-> n, atEnd |-> FALSE]
          /\ plan' = subs[n].plan
          /\ Noting("late", EndSeen(n))
  /\ Handled(p)

\* Mutant: the status is the event's.
EndedAsNamed(p) ==
  /\ Handles(p, "ended") \/ Handles(p, "halted")
  /\ row' = [row EXCEPT !.status = sent[task[p].n].is] /\ plan' = "free" /\ UNCHANGED races
  /\ Handled(p)
\* Back to Free, whichever subscription the company's row is about by now
SubscriptionEnded(p) ==
  /\ Handles(p, "ended") \/ Handles(p, "halted")
  /\ IF ~Known(p) THEN UNCHANGED <<row, plan>> /\ Noting("late", row.sub = sent[task[p].n].sub)
     ELSE /\ row' = [row EXCEPT !.status = IF Handles(p, "halted") THEN "pastDue" ELSE "cancelled", !.atEnd = FALSE]
          /\ plan' = "free"
          /\ Noting("misplaced", row.sub # sent[task[p].n].sub)
  /\ Handled(p)

\* Mutant: the event stays on record when handling it fails.
FailsForGood(p) ==
  /\ task[p] # Idle /\ Happens
  /\ seen' = IF task[p].op = "webhook" THEN seen \cup {task[p].n} ELSE seen
  /\ Ends(p)
  /\ UNCHANGED <<row, plan, subs, sent, races>>
\* Rolled back, the record of the event with it; a request that dies after its call leaves what the gateway did.
Fails(p) ==
  /\ task[p] # Idle /\ Happens
  /\ Ends(p)
  /\ UNCHANGED <<row, plan, subs, sent, seen, races>>

Next ==
  \/ \E p \in Requests :
       \/ \E asked \in Plans : StartCheckout(p, asked)
       \/ RememberCheckout(p) \/ AskCancel(p) \/ CallCancel(p) \/ MarkAtEnd(p)
  \/ \E n \in DOMAIN subs : ChargeSub(n) \/ HaltSub(n) \/ EndSub(n)
  \/ \E p \in Deliveries : SubscriptionCharged(p) \/ SubscriptionEnded(p) \/ \E e \in DOMAIN sent : Receive(p, e)
  \/ \E p \in Requests \cup Deliveries : Fails(p)

Spec == Init /\ [][Next]_vars

-----------------------------------------------------------------------------
(* Properties.  The races that can undo what they say:                     *)
(*   overtaken   a checkout wrote what it had read over a row that had     *)
(*               become active meanwhile;                                  *)
(*   late        a charge was handled after the end of its subscription,   *)
(*               or an end that had read the row before the charge: the    *)
(*               row had been read too early, or was about another         *)
(*               subscription;                                             *)
(*   misplaced   a cancellation or an end was written to a row that had    *)
(*               come to be about another subscription.                    *)

\* The row and the company agree, after any order of checkouts, charges, ends and failures: the modules a
\* company can open (companies.plan) are those of the active subscription it is shown (subscriptions.plan).
PlanAgreesWithRow ==
  "overtaken" \notin races => plan = IF row.status = "active" THEN row.plan ELSE "free"

AllHandled == seen = DOMAIN sent

\* docs/cookbook/part-a-user-guide/14-team-roles-plans.md:125 "If you cancel a subscription, the business
\* falls back to Free": once every event is handled, a company none of whose subscriptions is running is on Free.
EndedIsFree ==
  AllHandled /\ races = {} /\ (\A n \in DOMAIN subs : subs[n].status \notin {"live", "ending"}) => plan = "free"

\* A company whose only subscription that was ever charged is running has the plan it pays for, once every event
\* is handled, if the gateway never halted it.
PaidIsServed ==
  \A n \in DOMAIN subs :
    /\ AllHandled /\ races = {}
    /\ subs[n].status \in {"live", "ending"}
    /\ \A e \in DOMAIN sent : sent[e].sub = n /\ sent[e].is # "halted"
    => plan = subs[n].plan

\* A company that reads "ends with the period" is not charged for another one.
CancelledStopsBilling ==
  row.status = "active" /\ row.atEnd /\ "misplaced" \notin races => subs[row.sub].status \in {"ending", "ended"}

\* webhooks/handlers.ts:169 "Events can arrive out of order. Cancelling ends a subscription for good": a
\* subscription whose end has been handled is never active again.
EndedIsForGood == row.status = "active" => ~EndSeen(row.sub)

\* What a company reads of its subscription is true of its modules and of its bill; and once every event is
\* handled, it has the plan it pays for.
PlanIsWhatIsPaid == PlanAgreesWithRow /\ CancelledStopsBilling /\ EndedIsFree /\ PaidIsServed
=============================================================================
