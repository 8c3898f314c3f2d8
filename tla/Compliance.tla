------------------------------- MODULE Compliance -------------------------------
(***************************************************************************)
(* The e-invoice (IRN) and the e-way bill of one finalised document, and   *)
(* the two government portals that hold them                               *)
(* (apps/api/src/modules/compliance: einvoice.ts, eway.ts, recovery.ts).   *)
(*                                                                         *)
(* A portal call cannot be rolled back, so it is made between two          *)
(* transactions, on a note committed before it.  Its answer may be lost,   *)
(* with the request or after the portal has carried it out, and the server *)
(* may die anywhere.  Two jobs settle what is left.                        *)
(***************************************************************************)
EXTENDS Naturals, Sequences, FiniteSets

CONSTANTS
  Requests,     \* requests that may be under way at once
  Runners,      \* job runs that may be: of einvoice.reconcile and of compliance.recover
  MaxAttempts,  \* bound: rows of compliance_attempts
  MaxEvents     \* bound: answers lost, refusals, deaths, bills cancelled

VARIABLES
  doc,        \* the document: "final" or "cancelled"
  einvoice,   \* its row of e_invoices; overdue: the last attempt is five minutes ago
  rows,       \* rows[n]: the status of e-way bill n here
  current,    \* documents.current_eway_bill_id, or 0
  attempts,   \* compliance_attempts
  portalIrn, portalBills, \* what the portals hold; a bill knows the attempt it was raised for
  wire,       \* requests nobody waits for that may still arrive
  task,       \* task[p]: what request or job run p is at
  adopted,    \* history: a cancelled IRN was handed back as this document's
  unsure,     \* history: recovery was given up without an answer of the portal
  overlapped, \* history: a bill was asked for after checks that an earlier one had overtaken
  events

portal == <<portalIrn, portalBills, wire>>
bills == <<rows, current>>
vars == <<doc, einvoice, bills, attempts, portal, task, adopted, unsure, overlapped, events>>

Ops == {"irn.cancel", "ewb.generate"}
Bills == 1 .. MaxAttempts
NoAnswer == [is |-> "none", bill |-> 0]
Ok(n) == [is |-> "ok", bill |-> n]
Refused == [is |-> "refused", bill |-> 0]
Unanswered == [is |-> "unanswered", bill |-> 0]
Procs == Requests \cup Runners
Idle == [op |-> "none", st |-> "idle", attempt |-> 0, answer |-> NoAnswer, old |-> FALSE]

TypeOK ==
  /\ doc \in {"final", "cancelled"}
  /\ einvoice \in [status : {"none", "pending", "generated", "failed", "cancelled"}, overdue : BOOLEAN]
  /\ rows \in [Bills -> {"none", "active", "cancelled"}] /\ current \in {0} \cup Bills
  /\ attempts \in Seq([op : Ops, status : {"pending", "settled", "failed"}, age : {"fresh", "due", "old"}, checked : BOOLEAN])
  /\ portalIrn \in {"none", "active", "cancelled"}
  /\ portalBills \in Seq([status : {"active", "cancelled"}, attempt : Nat])
  /\ wire \subseteq [op : Ops \cup {"irn.generate"}, attempt : Nat]
  /\ task \in [Procs -> [op : Ops \cup {"irn.generate", "none"},
                          st : {"idle", "claimed", "asked", "checked", "ready", "answered", "looking", "found"},
                          attempt : Nat, answer : [is : {"none", "ok", "refused", "unanswered"}, bill : Nat], old : BOOLEAN]]
  /\ {adopted, unsure, overlapped} \subseteq BOOLEAN /\ events \in Nat

Init ==
  /\ doc = "final" /\ einvoice = [status |-> "none", overdue |-> FALSE]
  /\ rows = [n \in Bills |-> "none"] /\ current = 0
  /\ attempts = <<>> /\ portalIrn = "none" /\ portalBills = <<>> /\ wire = {}
  /\ task = [p \in Procs |-> Idle]
  /\ adopted = FALSE /\ unsure = FALSE /\ overlapped = FALSE /\ events = 0

Happens == events < MaxEvents /\ events' = events + 1
At(p, op, st) == task[p].op = op /\ task[p].st = st
Goes(p, st) == task' = [task EXCEPT ![p].st = st]
Ends(p) == task' = [task EXCEPT ![p] = Idle]
Begins(p, t) == task[p] = Idle /\ task' = [task EXCEPT ![p] = t]

Pending(op) == \E i \in DOMAIN attempts : attempts[i].op = op /\ attempts[i].status = "pending"
LiveBill == current # 0 /\ rows[current] = "active"
\* Nobody looks at the age of an attempt that is over.
Marked(p, status) ==
  attempts' = [attempts EXCEPT ![task[p].attempt] = [op |-> task[p].op, status |-> status, age |-> "fresh", checked |-> FALSE]]

-----------------------------------------------------------------------------
(* What a call comes to.  Done is what the portal does with it; without an *)
(* answer it may have done so, may still do so, or may never have had it.  *)

NotDone == UNCHANGED <<portalIrn, portalBills>>
Answered(p, a) == task' = [task EXCEPT ![p].st = "answered", ![p].answer = a]
Lost(p, Done) ==
  /\ Happens /\ Answered(p, Unanswered)
  /\ \/ Done /\ UNCHANGED wire
     \/ NotDone /\ UNCHANGED wire
     \/ NotDone /\ wire' = wire \cup {[op |-> task[p].op, attempt |-> task[p].attempt]}

\* The portal never registers a document twice; asked again it hands back what it has.
Register == portalIrn' = (IF portalIrn = "none" THEN "active" ELSE portalIrn) /\ UNCHANGED portalBills
Withdraw == portalIrn' = (IF portalIrn = "active" THEN "cancelled" ELSE portalIrn) /\ UNCHANGED portalBills
Raise(a) == portalBills' = Append(portalBills, [status |-> "active", attempt |-> a]) /\ UNCHANGED portalIrn
Done(op, a) == CASE op = "irn.generate" -> Register [] op = "irn.cancel" -> Withdraw [] op = "ewb.generate" -> Raise(a)

CallPortal(p) ==
  LET t == task[p] IN
  /\ t.st = "ready"
  /\ \/ /\ t.op = "irn.cancel" => portalIrn = "active"
        /\ Done(t.op, t.attempt) /\ Answered(p, Ok(IF t.op = "ewb.generate" THEN Len(portalBills') ELSE 0))
        /\ adopted' = (adopted \/ (t.op = "irn.generate" /\ portalIrn = "cancelled"))
        /\ UNCHANGED <<wire, events>>
     \/ /\ NotDone /\ Answered(p, Refused) /\ UNCHANGED <<wire, adopted>>
        /\ IF t.op = "irn.cancel" /\ portalIrn # "active" THEN UNCHANGED events ELSE Happens
     \/ Lost(p, Done(t.op, t.attempt)) /\ UNCHANGED adopted
  /\ UNCHANGED <<doc, einvoice, bills, attempts, unsure, overlapped>>

Arrive(m) ==
  /\ Done(m.op, m.attempt) /\ wire' = wire \ {m}
  /\ UNCHANGED <<doc, einvoice, bills, attempts, task, adopted, unsure, overlapped, events>>

-----------------------------------------------------------------------------
(* The e-invoice *)

\* While an answer is out nobody asks again, but the job that claimed it.
MayAsk(p) == einvoice.status = "pending" => einvoice.overdue \/ task[p].st = "claimed"
\* Checked under the document's lock; the attempt is noted and committed before the call.
Submit(p) ==
  /\ einvoice.status # "generated"
  /\ MayAsk(p)
  /\ einvoice' = [status |-> "pending", overdue |-> FALSE]
  /\ task' = [task EXCEPT ![p] = [Idle EXCEPT !.op = "irn.generate", !.st = "ready"]]
  /\ UNCHANGED <<doc, bills, attempts, portal, adopted, unsure, overlapped, events>>
GenerateIrn(p) == task[p] = Idle /\ Submit(p)

\* Core finds it invalid: nothing is sent.
Invalid(p) ==
  /\ (p \in Requests /\ task[p] = Idle) \/ At(p, "irn.generate", "claimed")
  /\ einvoice.status # "generated" /\ MayAsk(p)
  /\ Happens
  /\ einvoice' = [status |-> "failed", overdue |-> FALSE]
  /\ Ends(p)
  /\ UNCHANGED <<doc, bills, attempts, portal, adopted, unsure, overlapped>>

\* Whatever the row says by now, the answer is written to it.
FinishIrn(p) ==
  /\ At(p, "irn.generate", "answered")
  /\ einvoice' = CASE task[p].answer.is = "unanswered" -> einvoice
                   [] task[p].answer.is = "refused" -> [status |-> "failed", overdue |-> FALSE]
                   [] OTHER -> [status |-> "generated", overdue |-> FALSE]
  /\ Ends(p)
  /\ UNCHANGED <<doc, bills, attempts, portal, adopted, unsure, overlapped, events>>

\* reconcileEInvoices claims what is overdue by moving the time of its last attempt, and asks again.
Claim(p) ==
  /\ einvoice.status = "pending" /\ einvoice.overdue
  /\ Begins(p, [Idle EXCEPT !.op = "irn.generate", !.st = "claimed"])
  /\ einvoice' = [einvoice EXCEPT !.overdue = FALSE]
  /\ UNCHANGED <<doc, bills, attempts, portal, adopted, unsure, overlapped, events>>
Reconcile(p) == At(p, "irn.generate", "claimed") /\ Submit(p)
ReconcileInVain(p) ==
  /\ At(p, "irn.generate", "claimed") /\ einvoice.status = "generated"
  /\ Ends(p)
  /\ UNCHANGED <<doc, einvoice, bills, attempts, portal, adopted, unsure, overlapped, events>>

\* Five minutes: by then the call has timed out (GSP_WRITE_TIMEOUT_MS is 45 seconds).
GrowsOverdue ==
  /\ einvoice.status = "pending" /\ ~einvoice.overdue
  /\ \A p \in Procs : task[p].op # "irn.generate"
  /\ einvoice' = [einvoice EXCEPT !.overdue = TRUE]
  /\ UNCHANGED <<doc, bills, attempts, portal, task, adopted, unsure, overlapped, events>>

-----------------------------------------------------------------------------
(* Cancelling the IRN, raising a bill: an attempt is opened before the call *)

Ask(p, op) ==
  /\ ~Pending(op)
  /\ Begins(p, [Idle EXCEPT !.op = op, !.st = "asked"])
  /\ UNCHANGED <<doc, einvoice, bills, attempts, portal, adopted, unsure, overlapped, events>>

MayGoOn(op) == CASE op = "irn.cancel" -> einvoice.status = "generated" /\ ~LiveBill
                 [] op = "ewb.generate" -> doc = "final" /\ ~LiveBill
Check(p) ==
  /\ task[p].st = "asked"
  /\ IF MayGoOn(task[p].op) THEN Goes(p, "checked") ELSE Ends(p)
  /\ UNCHANGED <<doc, einvoice, bills, attempts, portal, adopted, unsure, overlapped, events>>

Opened(p) ==
  /\ attempts' = Append(attempts, [op |-> task[p].op, status |-> "pending", age |-> "fresh", checked |-> FALSE])
  /\ task' = [task EXCEPT ![p].st = "ready", ![p].attempt = Len(attempts')]
  /\ overlapped' = (overlapped \/ (task[p].op = "ewb.generate" /\ LiveBill))
\* One open attempt per document and operation (the unique index)
Open(p) ==
  /\ task[p].st = "checked"
  /\ IF Pending(task[p].op) \/ Len(attempts) = MaxAttempts THEN Ends(p) /\ UNCHANGED <<attempts, overlapped>> ELSE Opened(p)
  /\ UNCHANGED <<doc, einvoice, bills, portal, adopted, unsure, events>>

NotOk(p) ==
  /\ task[p].st = "answered" /\ task[p].op # "irn.generate" /\ task[p].answer.is # "ok"
  /\ IF task[p].answer.is = "refused" THEN Marked(p, "failed") ELSE UNCHANGED attempts
  /\ Ends(p)
  /\ UNCHANGED <<doc, einvoice, bills, portal, adopted, unsure, overlapped, events>>

\* recordIrnCancelled
IrnCancelled(p) ==
  /\ At(p, "irn.cancel", "answered") /\ task[p].answer.is = "ok"
  /\ einvoice' = [status |-> "cancelled", overdue |-> FALSE]
  /\ Marked(p, "settled") /\ Ends(p)
  /\ UNCHANGED <<doc, bills, portal, adopted, unsure, overlapped, events>>

\* What recovery does with an error: it asks again, and after a day a person is asked to look.
Throws(p) ==
  \/ UNCHANGED <<attempts, unsure>>
  \/ task[p].old /\ Marked(p, "failed") /\ unsure' = TRUE

\* The bill the portal raised, or was found to have, is recorded, unless its number is.
RecordBill(p) ==
  LET n == task[p].answer.bill IN
  /\ task[p].op = "ewb.generate" /\ task[p].st \in {"answered", "found"} /\ task[p].answer.is = "ok"
  /\ IF rows[n] = "none"
     THEN rows' = [rows EXCEPT ![n] = "active"] /\ current' = n /\ Marked(p, "settled") /\ UNCHANGED unsure
     ELSE UNCHANGED bills /\ IF task[p].st = "found" THEN Throws(p) ELSE UNCHANGED <<attempts, unsure>>
  /\ Ends(p)
  /\ UNCHANGED <<doc, einvoice, portal, adopted, overlapped, events>>

\* Cancelled at the portal inside the transaction: an answer that is lost undoes what is here only.
CancelBill(n) ==
  /\ rows[n] = "active" /\ portalBills[n].status = "active" /\ Happens
  /\ portalBills' = [portalBills EXCEPT ![n].status = "cancelled"]
  /\ rows' \in {rows, [rows EXCEPT ![n] = "cancelled"]}
  /\ UNCHANGED <<doc, einvoice, current, attempts, portalIrn, wire, task, adopted, unsure, overlapped>>

-----------------------------------------------------------------------------
(* recoverComplianceAttempts *)

GrowsDue(i) ==
  /\ attempts[i].status = "pending" /\ attempts[i].age = "fresh"
  /\ attempts' = [attempts EXCEPT ![i].age = "due"]
  /\ UNCHANGED <<doc, einvoice, bills, portal, task, adopted, unsure, overlapped, events>>
\* Half an hour: nothing of it is still on its way, and no request is still at it.
GrowsOld(i) ==
  /\ attempts[i].status = "pending" /\ attempts[i].age = "due"
  /\ \A m \in wire : m.attempt # i
  /\ \A p \in Procs : task[p].attempt # i
  /\ attempts' = [attempts EXCEPT ![i].age = "old"]
  /\ UNCHANGED <<doc, einvoice, bills, portal, task, adopted, unsure, overlapped, events>>
Recheck(i) ==
  /\ attempts[i].status = "pending" /\ attempts[i].checked
  /\ attempts' = [attempts EXCEPT ![i].checked = FALSE]
  /\ UNCHANGED <<doc, einvoice, bills, portal, task, adopted, unsure, overlapped, events>>

TakeUp(p, i) ==
  /\ attempts[i].status = "pending" /\ attempts[i].age # "fresh" /\ ~attempts[i].checked
  /\ attempts' = [attempts EXCEPT ![i].checked = TRUE]
  /\ Begins(p, [Idle EXCEPT !.op = attempts[i].op, !.st = "looking", !.attempt = i, !.old = attempts[i].age = "old"])
  /\ UNCHANGED <<doc, einvoice, bills, portal, adopted, unsure, overlapped, events>>

\* Mutant: what the portal does not have yet has failed.
GivesUpAtOnce(p) == TRUE
GivesUp(p) == task[p].old
\* The portal has nothing of it: after half an hour the attempt has failed, and the person may try again.
Absent(p) ==
  /\ task[p].st = "looking"
  /\ IF task[p].op = "irn.cancel" THEN portalIrn # "cancelled" ELSE portalBills = <<>>
  /\ IF GivesUp(p) THEN Marked(p, "failed") ELSE UNCHANGED attempts
  /\ Ends(p)
  /\ UNCHANGED <<doc, einvoice, bills, portal, adopted, unsure, overlapped, events>>

FoundCancelled(p) ==
  /\ At(p, "irn.cancel", "looking") /\ portalIrn = "cancelled"
  /\ einvoice' = [status |-> "cancelled", overdue |-> FALSE]
  /\ Marked(p, "settled") /\ Ends(p)
  /\ UNCHANGED <<doc, bills, portal, adopted, unsure, overlapped, events>>

\* Mutant: a bill that was found is not recorded.
FoundBillSettled(p) ==
  /\ At(p, "ewb.generate", "looking") /\ portalBills # <<>>
  /\ Marked(p, "settled") /\ Ends(p)
  /\ UNCHANGED <<doc, einvoice, bills, portal, adopted, unsure, overlapped, events>>
\* A bill of the document is found, a live one if there is one, and goes through the checks of a bill to be raised: one that is
\* live here settles the attempt, and a cancelled document leaves it for the next run.
FoundBill(p) ==
  /\ At(p, "ewb.generate", "looking")
  /\ \E n \in DOMAIN portalBills :
       /\ portalBills[n].status = "active" \/ \A k \in DOMAIN portalBills : portalBills[k].status # "active"
       /\ IF doc # "final" THEN Ends(p) /\ Throws(p)
          ELSE IF LiveBill THEN Marked(p, "settled") /\ Ends(p) /\ UNCHANGED unsure
          ELSE /\ task' = [task EXCEPT ![p].st = "found", ![p].answer = Ok(n)]
               /\ UNCHANGED <<attempts, unsure>>
  /\ UNCHANGED <<doc, einvoice, bills, portal, adopted, overlapped, events>>

LookupFails(p) ==
  /\ task[p].st = "looking" /\ Happens
  /\ Throws(p) /\ Ends(p)
  /\ UNCHANGED <<doc, einvoice, bills, portal, adopted, overlapped>>

-----------------------------------------------------------------------------
\* changeStatus: not while a bill or an e-invoice is live here
CancelDocument ==
  /\ doc = "final" /\ ~LiveBill /\ einvoice.status # "generated"
  /\ doc' = "cancelled"
  /\ UNCHANGED <<einvoice, bills, attempts, portal, task, adopted, unsure, overlapped, events>>

Die(p) ==
  /\ task[p] # Idle /\ Happens
  /\ Ends(p)
  /\ UNCHANGED <<doc, einvoice, bills, attempts, portal, adopted, unsure, overlapped>>

Answer(p) == FinishIrn(p) \/ NotOk(p) \/ IrnCancelled(p) \/ RecordBill(p)
LookedUp(p) == Absent(p) \/ FoundCancelled(p) \/ FoundBill(p)
Step(p) == CallPortal(p) \/ Answer(p) \/ Reconcile(p) \/ ReconcileInVain(p) \/ Check(p) \/ Open(p) \/ LookedUp(p)
Recover(p) == \E i \in DOMAIN attempts : TakeUp(p, i)
Time == GrowsOverdue \/ \E i \in DOMAIN attempts : GrowsDue(i) \/ GrowsOld(i) \/ Recheck(i)

Next ==
  \/ \E p \in Requests : GenerateIrn(p) \/ \E op \in Ops : Ask(p, op)
  \/ \E p \in Runners : Claim(p) \/ Recover(p) \/ LookupFails(p)
  \/ \E p \in Procs : Step(p) \/ Invalid(p) \/ Die(p)
  \/ \E m \in wire : Arrive(m)
  \/ \E n \in DOMAIN portalBills : CancelBill(n)
  \/ Time \/ CancelDocument

Spec == Init /\ [][Next]_vars

\* Time passes, requests and job runs go on, and the jobs are run again and again.
Fairness ==
  /\ \A p \in Procs : WF_vars(Step(p))
  /\ SF_vars(\E p \in Runners : Claim(p))
  /\ \A i \in 1 .. MaxAttempts : SF_vars(i \in DOMAIN attempts /\ \E p \in Runners : TakeUp(p, i))
  /\ WF_vars(GrowsOverdue) /\ WF_vars(\E m \in wire : Arrive(m))
  /\ \A i \in 1 .. MaxAttempts : WF_vars(i \in DOMAIN attempts /\ (GrowsDue(i) \/ GrowsOld(i) \/ Recheck(i)))

-----------------------------------------------------------------------------
(* Properties *)

\* recovery.ts "it never got the request, so the person can safely try again": when an attempt is
\* given up as absent, the portal has not carried it out, and never will.
FailedWasNotDone ==
  \A i \in DOMAIN attempts :
    attempts[i].op = "ewb.generate" /\ attempts[i].status = "failed" /\ ~unsure =>
      /\ \A n \in DOMAIN portalBills : portalBills[n].attempt # i
      /\ \A m \in wire : m.attempt # i

\* eway.ts "a second one now could raise a second bill": lost answers, deaths and retries never leave
\* two live bills on one document, if no request had passed its checks before an earlier bill was recorded.
OneLiveBill ==
  Cardinality({n \in DOMAIN portalBills : portalBills[n].status = "active"}) > 1 => overlapped \/ unsure

\* The books say that an IRN is live only while it is, or while a cancel of it is still being settled.
LiveHereIsLiveThere ==
  einvoice.status = "generated" /\ portalIrn # "active" =>
    Pending("irn.cancel") \/ adopted \/ unsure

\* einvoice.ts "the reconcile job settles it once the answer is overdue"
EInvoiceSettles == einvoice.status = "pending" ~> einvoice.status # "pending"

\* eway.ts "a lost answer leaves a record to settle by asking the portal": a bill the portal has
\* raised is on record in the end, whatever became of the answer.
BillIsRecorded ==
  \A n \in Bills : n \in DOMAIN portalBills ~> rows[n] # "none" \/ doc = "cancelled" \/ overlapped \/ unsure

\* docs/cookbook/part-a-user-guide/05-sales.md:223 "You can't cancel while an e-invoice or e-way bill
\* is still live"
CancelledHasNothingLive ==
  doc = "cancelled" => portalIrn # "active" /\ \A n \in DOMAIN portalBills : portalBills[n].status # "active"

\* What the books say of the portals is true of them: of bills that were not raised, of an IRN that is live, and
\* that one bill at most is.
RecordsAgreeWithPortals == FailedWasNotDone /\ LiveHereIsLiveThere /\ OneLiveBill
=============================================================================
