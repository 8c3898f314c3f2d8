------------------------------- MODULE Documents -------------------------------
(***************************************************************************)
(* Orders, deliveries, invoices and returns of one item at one branch, and *)
(* the purchase side alike: how one is made from another, edited, approved,*)
(* issued and cancelled, and the stock that moves with it (apps/api/src/   *)
(* modules/documents/handlers.ts, lifecycle.ts and approvals.ts,           *)
(* modules/inventory/handlers.ts).                                         *)
(*                                                                         *)
(* doc and posted are what is committed.  A transaction locks the row of   *)
(* its document and, to move goods, the item; it shows when it commits, or *)
(* never.  Conversions, edits, deletions and decisions read first, outside *)
(* the transaction that writes.                                            *)
(***************************************************************************)
EXTENDS Integers, FiniteSetsExt, Functions

CONSTANTS
  Given,       \* documents that are there at the start: a function from ids to documents
  New,         \* ids of those to be made
  Fresh,       \* the kinds made from nothing
  Requests,    \* requests that may be under way at once
  MaxDay,      \* documents are dated 1 .. MaxDay; today is MaxDay
  MaxQty,      \* a document is for 1 .. MaxQty of the item
  Opening,     \* Opening[t]: the stock that came in on day t before
  Ruled, Over, \* the approval rule: kinds, and what they may be for without one
  MaxAsked     \* bound: requests made

VARIABLES
  doc,         \* the documents; src: source_document_id
  posted,      \* posted[d]: what document d has moved on the stock ledger, less what it reversed
  counted,     \* counted[t]: opening stock and adjustments dated t
  rowLock,     \* rowLock[d]: the transaction that holds its row
  itemLock,    \* the one that holds the item's
  task,        \* task[r]: what request r does and has read
  noted,       \* history: documents carried forward while that was under way already, and ShortCount
  asked        \* requests made

vars == <<doc, posted, counted, rowLock, itemLock, task, noted, asked>>

Docs == DOMAIN Given \cup New
Days == 1 .. MaxDay
None == "none"
Free == "free"
ShortCount == "a count took out of a day what was not there"
Kinds == {"salesOrder", "delivery", "invoice", "salesReturn",
          "purchaseOrder", "goodsReceipt", "purchaseBill", "purchaseReturn"}

\* The final status of a kind (confirmed, delivered, issued, approved ...) is "final" here, the one after it "closed".
Absent == [kind |-> None, status |-> "absent", src |-> None, qty |-> 0, date |-> 0, version |-> 0, approval |-> None]
Idle == [op |-> "none", d |-> None, known |-> Absent, staff |-> FALSE, moved |-> FALSE, short |-> FALSE, to |-> None]

Steps == {"none", "issue", "issue stock", "issue write", "cancel stock", "cancel write", "edit", "remove", "decide", "approved", "convert"}
Documents ==
  [kind : Kinds \cup {None}, status : {"absent", "draft", "final", "closed", "cancelled", "gone"},
   src : Docs \cup {None}, qty : 0 .. MaxQty, date : {0} \cup Days, version : Nat,
   approval : {None, "pending", "approved", "rejected"}]

Tasks ==
  [op : Steps, d : Docs \cup {None}, known : Documents, staff : BOOLEAN, moved : BOOLEAN, short : BOOLEAN, to : Kinds \cup {None}]

TypeOK ==
  /\ doc \in [Docs -> Documents]
  /\ posted \in [Docs -> -MaxQty .. MaxQty] /\ counted \in [Days -> Int]
  /\ rowLock \in [Docs -> Requests \cup {Free}] /\ itemLock \in Requests \cup {Free}
  /\ task \in [Requests -> Tasks]
  /\ noted \subseteq Docs \cup {ShortCount} /\ asked \in 0 .. MaxAsked
  /\ \A d \in Docs : rowLock[d] # Free => task[rowLock[d]].op # "none"
  /\ itemLock # Free => task[itemLock].op \in {"issue write", "cancel write"}

-----------------------------------------------------------------------------
(* Kinds and statuses *)

\* MOVEMENT_SIGN of the movement a kind writes; orders write none.
Sign(kind) ==
  CASE kind \in {"invoice", "delivery", "purchaseReturn"} -> -1
    [] kind \in {"purchaseBill", "goodsReceipt", "salesReturn"} -> 1
    [] OTHER -> 0
Returns == {"salesReturn", "purchaseReturn"}
Conversions(kind) ==
  CASE kind = "salesOrder" -> {"delivery", "invoice"}         [] kind = "delivery" -> {"invoice"}
    [] kind = "purchaseOrder" -> {"goodsReceipt", "purchaseBill"} [] kind = "goodsReceipt" -> {"purchaseBill"}
    [] kind = "invoice" -> {"salesReturn"}                    [] kind = "purchaseBill" -> {"purchaseReturn"}
    [] OTHER -> {}
\* The document whose goods an invoice or bill does not move again.
Via(kind) == CASE kind = "invoice" -> "delivery" [] kind = "purchaseBill" -> "goodsReceipt" [] OTHER -> None

Finalized(x) == x.status \in {"final", "closed", "cancelled"}
Live(x) == x.status \in {"draft", "final", "closed"}
MayClose(x) == x.status = "final" /\ x.kind \in {"salesOrder", "purchaseOrder", "goodsReceipt"} \cup Returns
MayCancel(x) == x.status = "draft" \/ (x.status = "final" /\ x.kind \notin {"delivery", "goodsReceipt"})

From(d) == {c \in Docs : doc[c].src = d}
LiveReturns(d) == {c \in From(d) : doc[c].kind \in Returns /\ doc[c].status \in {"final", "closed"}}
\* Made from d and not cancelled, returns aside.
Onward(d) == {c \in From(d) : doc[c].kind \notin Returns /\ Live(doc[c])}

\* Mutant: only what has been issued counts as made from a document.
BlockIssued(d, to) == ~Finalized(doc[d]) \/ doc[d].status = "cancelled" \/ (to \notin Returns /\ \E c \in Onward(d) : Finalized(doc[c]))
Block(d, to) == ~Finalized(doc[d]) \/ doc[d].status = "cancelled" \/ (to \notin Returns /\ Onward(d) # {})

\* The documents d was made from: an invoice from its delivery and that from its order, or the like.
Sources(d) == LET s == doc[d].src IN IF s = None THEN {} ELSE {s, doc[s].src} \ {None}
Deliveries(d) ==
  LET via == Via(doc[d].kind)
      orders == {s \in Sources(d) : doc[s].kind \in {"salesOrder", "purchaseOrder"}}
  IN {v \in Docs : doc[v].kind = via /\ (v \in Sources(d) \/ doc[v].src \in orders)}
MovedUpstream(d) == \E v \in Deliveries(d) : posted[v] # 0

Init ==
  /\ doc = [d \in Docs |-> IF d \in DOMAIN Given THEN Given[d] ELSE Absent]
  /\ posted = [d \in Docs |-> Sign(doc[d].kind) * doc[d].qty] /\ counted = Opening
  /\ rowLock = [d \in Docs |-> Free] /\ itemLock = Free
  /\ task = [r \in Requests |-> Idle]
  /\ noted = {} /\ asked = 0

-----------------------------------------------------------------------------
(* Stock *)

\* The stock at the end of day t.
OnDay(t) == SumFunctionOnSet(counted, 1 .. t) + SumFunctionOnSet(posted, {d \in Docs : doc[d].date \in 1 .. t})
OnHand == OnDay(MaxDay)
\* stockMapOn: what was there at the end of the day, and never more than the lowest later.
Available(t) == Min({OnDay(u) : u \in t .. MaxDay})

-----------------------------------------------------------------------------
(* Requests *)

Begins(r, t) == task[r] = Idle /\ asked < MaxAsked /\ asked' = asked + 1 /\ task' = [task EXCEPT ![r] = t]
Ends(r) == task' = [task EXCEPT ![r] = Idle]
Lets(r) == rowLock' = [d \in Docs |-> IF rowLock[d] = r THEN Free ELSE rowLock[d]]
Unlocks(r) == Lets(r) /\ itemLock' = IF itemLock = r THEN Free ELSE itemLock
Keeps == UNCHANGED <<posted, counted, rowLock, itemLock, noted>>
Is(r, op) == task[r].op = op
D(r) == task[r].d
Seen(op, d, to) == [Idle EXCEPT !.op = op, !.d = d, !.known = doc[d], !.to = to]
\* Every write is a new version.
Writes(d, x) == doc' = [doc EXCEPT ![d] = [x EXCEPT !.version = doc[d].version + 1]]
Unread(r) == doc[D(r)].version # task[r].known.version

-----------------------------------------------------------------------------
(* Made and edited *)

\* A draft made from nothing.
Create(n, kind, q, t) ==
  /\ doc[n] = Absent /\ asked < MaxAsked /\ asked' = asked + 1
  /\ Writes(n, [Absent EXCEPT !.kind = kind, !.status = "draft", !.qty = q, !.date = t])
  /\ Keeps /\ UNCHANGED task

\* What was made from it is read, and its lines; both outside the transaction that inserts.
ReadToConvert(r, d, to) ==
  /\ to \in Conversions(doc[d].kind) /\ ~Block(d, to)
  /\ Begins(r, Seen("convert", d, to))
  /\ Keeps /\ UNCHANGED doc
InsertCopy(r, n) ==
  LET t == task[r] IN
  /\ Is(r, "convert") /\ doc[n] = Absent
  /\ Writes(n, [Absent EXCEPT !.kind = t.to, !.status = "draft", !.src = t.d, !.qty = t.known.qty, !.date = MaxDay])
  /\ noted' = IF Block(t.d, t.to) THEN noted \cup {t.d} ELSE noted
  /\ Ends(r) /\ UNCHANGED <<posted, counted, rowLock, itemLock, asked>>

ReadToEdit(r, d) ==
  /\ doc[d].status = "draft"
  /\ Begins(r, Seen("edit", d, None))
  /\ Keeps /\ UNCHANGED doc
\* Mutant: written to the row whatever became of it since.
WriteEditBlindly(r, q, t) ==
  /\ Is(r, "edit") /\ rowLock[D(r)] = Free /\ doc[D(r)].status # "gone"
  /\ Writes(D(r), [doc[D(r)] EXCEPT !.qty = q, !.date = t])
  /\ Ends(r) /\ Keeps /\ UNCHANGED asked
WriteEdit(r, q, t) ==
  /\ Is(r, "edit") /\ rowLock[D(r)] = Free /\ ~Unread(r)
  /\ Writes(D(r), [doc[D(r)] EXCEPT !.qty = q, !.date = t])
  /\ Ends(r) /\ Keeps /\ UNCHANGED asked

ReadToRemove(r, d) ==
  /\ doc[d].status = "draft" /\ From(d) = {}
  /\ Begins(r, Seen("remove", d, None))
  /\ Keeps /\ UNCHANGED doc
Delete(r) ==
  /\ Is(r, "remove") /\ rowLock[D(r)] = Free /\ ~Unread(r)
  /\ doc' = [doc EXCEPT ![D(r)] = [Absent EXCEPT !.status = "gone"]]
  /\ Ends(r) /\ Keeps /\ UNCHANGED asked

-----------------------------------------------------------------------------
(* Approved *)

ReadToDecide(r, d) ==
  /\ doc[d].approval = "pending"
  /\ Begins(r, Seen("decide", d, None))
  /\ Keeps /\ UNCHANGED doc
\* Whatever the document's status: one that was issued meanwhile, or before, is decided on too.
Decide(r, verdict) ==
  /\ Is(r, "decide") /\ rowLock[D(r)] = Free /\ ~Unread(r)
  /\ Writes(D(r), [doc[D(r)] EXCEPT !.approval = verdict])
  /\ IF verdict = "approved" THEN task' = [task EXCEPT ![r].op = "approved"] ELSE Ends(r)
  /\ Keeps /\ UNCHANGED asked

\* 412 and 409: written, issued, decided on or deleted by another since it was read.
Overtaken(r) ==
  /\ task[r].op \in {"edit", "remove", "decide"} /\ rowLock[D(r)] = Free /\ Unread(r)
  /\ Ends(r) /\ Keeps /\ UNCHANGED <<doc, asked>>

-----------------------------------------------------------------------------
(* Issued *)

NeedsApproval(x, staff) == staff /\ x.kind \in Ruled /\ x.qty > Over /\ x.approval # "approved"

\* finalizeDraft's transaction takes the row. It ends with the request for approval, or goes on to finalizeInTx.
TakeDraft(r, d, staff) ==
  /\ rowLock[d] = Free /\ doc[d].status = "draft"
  /\ IF NeedsApproval(doc[d], staff)
     THEN /\ Writes(d, [doc[d] EXCEPT !.approval = "pending"])
          /\ Ends(r) /\ UNCHANGED rowLock
     ELSE /\ task' = [task EXCEPT ![r] = [Idle EXCEPT !.op = IF doc[d].kind \in Returns THEN "issue" ELSE "issue stock",
                                                      !.d = d, !.staff = staff, !.moved = MovedUpstream(d)]]
          /\ rowLock' = [rowLock EXCEPT ![d] = r]
          /\ UNCHANGED doc
  /\ UNCHANGED <<posted, counted, itemLock, noted>>
FinalizeDocument(r, d, staff) == task[r] = Idle /\ asked < MaxAsked /\ asked' = asked + 1 /\ TakeDraft(r, d, staff)
\* In a transaction after the decision's, by an approver.
FinalizeApproved(r) == Is(r, "approved") /\ TakeDraft(r, D(r), FALSE) /\ UNCHANGED asked
NoDraftLeft(r) ==
  /\ Is(r, "approved") /\ rowLock[D(r)] = Free /\ doc[D(r)].status # "draft"
  /\ Ends(r) /\ Keeps /\ UNCHANGED <<doc, asked>>

\* A return: its source is locked, and has it left to return.
LeftToReturn(d) ==
  LET s == doc[d].src IN doc[s].qty - MapThenSumSet(LAMBDA c : doc[c].qty, LiveReturns(s))
Returnable(d) == LET s == doc[d].src IN s # None /\ doc[s].status \in {"final", "closed"} /\ doc[d].qty <= LeftToReturn(d)
LockSource(r) ==
  LET s == doc[D(r)].src IN
  /\ Is(r, "issue") /\ (s # None => rowLock[s] = Free)
  /\ IF Returnable(D(r))
     THEN /\ rowLock' = [rowLock EXCEPT ![s] = r] /\ task' = [task EXCEPT ![r].op = "issue stock"]
     ELSE Ends(r) /\ Lets(r)
  /\ UNCHANGED <<doc, posted, counted, itemLock, noted, asked>>

Short(d) == Sign(doc[d].kind) < 0 /\ doc[d].qty > Available(doc[d].date)
Moves(r) == Sign(doc[D(r)].kind) # 0 /\ ~task[r].moved
\* Mutant: the ledger is read without the item's lock.
LockItemNever(r) ==
  /\ Is(r, "issue stock") /\ Moves(r)
  /\ task' = [task EXCEPT ![r] = [@ EXCEPT !.op = "issue write", !.short = Short(D(r))]]
  /\ UNCHANGED <<doc, posted, counted, rowLock, itemLock, noted, asked>>
LockItem(r) ==
  /\ Is(r, "issue stock") /\ Moves(r) /\ itemLock = Free
  /\ itemLock' = r
  /\ task' = [task EXCEPT ![r] = [@ EXCEPT !.op = "issue write", !.short = Short(D(r))]]
  /\ UNCHANGED <<doc, posted, counted, rowLock, noted, asked>>

Issues(r) == Writes(D(r), [doc[D(r)] EXCEPT !.status = "final"]) /\ Ends(r) /\ Unlocks(r)
IssueUnmoved(r) == Is(r, "issue stock") /\ ~Moves(r) /\ Issues(r) /\ UNCHANGED <<posted, counted, noted, asked>>
Issue(r) ==
  /\ Is(r, "issue write") /\ ~task[r].short
  /\ posted' = [posted EXCEPT ![D(r)] = Sign(doc[D(r)].kind) * doc[D(r)].qty]
  /\ Issues(r) /\ UNCHANGED <<counted, noted, asked>>

-----------------------------------------------------------------------------
(* Closed and cancelled *)

\* fulfilled, processed, received, billed
Close(d) ==
  /\ rowLock[d] = Free /\ MayClose(doc[d]) /\ asked < MaxAsked /\ asked' = asked + 1
  /\ Writes(d, [doc[d] EXCEPT !.status = "closed"])
  /\ Keeps /\ UNCHANGED task

\* The row is locked and read again; goods it brought in may have been sold since.
Cancel(r, d) ==
  /\ rowLock[d] = Free /\ MayCancel(doc[d]) /\ LiveReturns(d) = {}
  /\ Begins(r, [Idle EXCEPT !.op = IF posted[d] > 0 THEN "cancel stock" ELSE "cancel write", !.d = d])
  /\ rowLock' = [rowLock EXCEPT ![d] = r]
  /\ UNCHANGED <<doc, posted, counted, itemLock, noted>>
LockItemBack(r) ==
  /\ Is(r, "cancel stock") /\ itemLock = Free
  /\ itemLock' = r
  /\ task' = [task EXCEPT ![r] = [@ EXCEPT !.op = "cancel write", !.short = posted[D(r)] > Available(doc[D(r)].date)]]
  /\ UNCHANGED <<doc, posted, counted, rowLock, noted, asked>>
\* A return's source is locked last, to settle less.
Reverse(r) ==
  LET d == D(r) IN
  /\ Is(r, "cancel write") /\ ~task[r].short
  /\ doc[d].kind \in Returns /\ doc[d].src # None => rowLock[doc[d].src] = Free
  /\ Writes(d, [doc[d] EXCEPT !.status = "cancelled"])
  /\ posted' = [posted EXCEPT ![d] = 0]
  /\ Ends(r) /\ Unlocks(r) /\ UNCHANGED <<counted, noted, asked>>

\* Too little in stock; or the statement fails, the process dies, PostgreSQL breaks a deadlock: nothing shows.
Rollback(r) ==
  /\ task[r].op \in {"issue", "issue stock", "issue write", "cancel stock", "cancel write", "approved"}
  /\ Ends(r) /\ Unlocks(r) /\ UNCHANGED <<doc, posted, counted, noted, asked>>

-----------------------------------------------------------------------------
(* Counted *)

\* Under the item's lock, and only what is there in all is asked.
AdjustStock(t, q) ==
  /\ asked < MaxAsked /\ itemLock = Free /\ OnHand + q >= 0
  /\ asked' = asked + 1
  /\ counted' = [counted EXCEPT ![t] = @ + q]
  /\ noted' = IF Available(t) + q < 0 THEN noted \cup {ShortCount} ELSE noted
  /\ UNCHANGED <<doc, posted, rowLock, itemLock, task>>

Next ==
  \/ \E n \in New, kind \in Fresh, q \in 1 .. MaxQty, t \in Days : Create(n, kind, q, t)
  \/ \E d \in Docs, t \in Days, q \in {-1, 1} : Close(d) \/ AdjustStock(t, q)
  \/ \E r \in Requests :
       \/ \E d \in Docs :
            \/ \E to \in Conversions(doc[d].kind) : ReadToConvert(r, d, to)
            \/ ReadToEdit(r, d) \/ ReadToRemove(r, d) \/ ReadToDecide(r, d) \/ Cancel(r, d)
            \/ \E staff \in BOOLEAN : FinalizeDocument(r, d, staff)
       \/ \E n \in New : InsertCopy(r, n)
       \/ \E q \in 1 .. MaxQty, t \in Days : WriteEdit(r, q, t)
       \/ \E verdict \in {"approved", "rejected"} : Decide(r, verdict)
       \/ Delete(r) \/ Overtaken(r) \/ FinalizeApproved(r) \/ NoDraftLeft(r)
       \/ LockSource(r) \/ LockItem(r) \/ IssueUnmoved(r) \/ Issue(r)
       \/ LockItemBack(r) \/ Reverse(r) \/ Rollback(r)

Spec == Init /\ [][Next]_vars

-----------------------------------------------------------------------------
(* Properties. *)

(* No sale, return or cancellation takes the item below zero, neither in all nor on a day    *)
(* (postStock, reverseStock under the item's lock); on a day, unless a count did, which asks *)
(* only for the total (adjustStock).                                                         *)
NothingSoldTwice ==
  /\ OnHand >= 0
  /\ ShortCount \notin noted => \A t \in Days : OnDay(t) >= 0

(* The ledger holds what the documents say: a draft or a cancelled one nothing, one that is  *)
(* final its goods, unless they moved with the delivery note or receipt of its chain.        *)
LedgerFollowsDocuments ==
  \A d \in Docs :
    IF doc[d].status \notin {"final", "closed"} THEN posted[d] = 0
    ELSE posted[d] = Sign(doc[d].kind) * doc[d].qty \/ (posted[d] = 0 /\ MovedUpstream(d))

StockIsSound == NothingSoldTwice /\ LedgerFollowsDocuments

(* The goods of an order move once, on its delivery or on its invoice, whatever is made from *)
(* it, cancelled, deleted and made again (conversionBlock, movedUpstream); unless two were   *)
(* made from one document at once.                                                           *)
Chain(o) == {d \in Docs : o \in Sources(d) /\ doc[d].kind \notin Returns}
GoodsMoveOnce ==
  \A o \in Docs : noted \cap ({o} \cup Chain(o)) = {} => Cardinality({d \in Chain(o) : posted[d] # 0}) <= 1

(* What is issued stays as it was issued, and there: no edit or deletion begun while it was  *)
(* a draft lands on it (updateDocument, removeDocument).                                     *)
FrozenOnceIssued ==
  [][\A d \in Docs : Finalized(doc[d]) =>
       Finalized(doc'[d]) /\ doc'[d].qty = doc[d].qty /\ doc'[d].date = doc[d].date]_vars

(* A decision falls on the document as the one who decides read it, and is the only one on   *)
(* that request (decide).                                                                    *)
DecidedAsRead ==
  [][\A d \in Docs : doc'[d].approval # doc[d].approval /\ doc'[d].approval \in {"approved", "rejected"} =>
       /\ doc[d].approval = "pending"
       /\ \E r \in Requests : Is(r, "decide") /\ D(r) = d /\ task[r].known.qty = doc[d].qty /\ task[r].known.date = doc[d].date]_vars

IssuedAndDecidedForGood == FrozenOnceIssued /\ DecidedAsRead
=============================================================================
