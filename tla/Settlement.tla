------------------------------ MODULE Settlement -------------------------------
(***************************************************************************)
(* What settles invoices (apps/api/src): payments, refunds of advances,    *)
(* credit and debit notes, and cancellation (modules/payments/engine.ts    *)
(* and handlers.ts, modules/documents/lifecycle.ts and handlers.ts).       *)
(*                                                                         *)
(* A request is one transaction.  It takes its row locks one by one, in    *)
(* the order of the code; then it reads and decides; then it writes,       *)
(* seeing by then what others committed (READ COMMITTED); its locks go     *)
(* with its end.  One party and one currency.                              *)
(***************************************************************************)
EXTENDS Integers, Sequences, FiniteSetsExt, Functions

CONSTANTS
  Sessions,     \* connections, each running one request at a time
  DocSeq,       \* the documents, in the order of their ids
  Invoices, CreditNotes, DebitNotes,
  Source,       \* Source[n]: the invoice note n is raised against
  Total,        \* Total[d]: grandTotalMinor
  Payments,     \* payment ids
  Inputs,       \* what requests say of a payment that refunds nothing
  RefundAmounts,
  Ops,          \* the kinds of requests made
  Accounts,     \* payment accounts: cash boxes, banks, wallets
  Opening,      \* what each account opened with
  MayTurn,      \* bound: FALSE if no save turns money received into money paid or back
  MaxRequests   \* bound: requests made

Docs == {DocSeq[i] : i \in DOMAIN DocSeq}
Notes == CreditNotes \cup DebitNotes
Payables == Invoices \cup DebitNotes
Nothing == "nothing"

ASSUME ConstantsAssumption ==
  /\ DocSeq \in Seq(Docs) /\ IsInjective(DocSeq)
  /\ Docs = Invoices \cup Notes /\ Invoices \cap Notes = {} /\ CreditNotes \cap DebitNotes = {}
  /\ Source \in [Notes -> Invoices]
  /\ Total \in [Docs -> Nat \ {0}]
  /\ Opening \in Int /\ MayTurn \in BOOLEAN /\ MaxRequests \in Nat
  /\ Ops \subseteq {"create", "save", "remove", "refund", "finalize", "cancel"}

Allocs == [Payables -> [cash : Nat, adj : Nat]]
NoAlloc == [d \in Payables |-> [cash |-> 0, adj |-> 0]]
Directions == {"received", "paid"}
Refunds == [dir : {"paid"}, amount : RefundAmounts, alloc : {NoAlloc}, of : Payments, acc : Accounts]

(* Ids are of one kind of row, and what is asked for is well-formed. *)
ASSUME RowsAssumption ==
  /\ IsFiniteSet(Payments) /\ Payments \cap Docs = {} /\ Accounts \cap (Docs \cup Payments) = {}
  /\ Nothing \notin Docs \cup Payments \cup Accounts \cup Sessions
  /\ RefundAmounts \subseteq Nat
  /\ Inputs \subseteq [dir : Directions, amount : Nat, alloc : Allocs, of : {Nothing}, acc : Accounts]

NoInput == [dir |-> "received", amount |-> 0, alloc |-> NoAlloc, of |-> Nothing, acc |-> Nothing]
Unborn == [state |-> "unborn", dir |-> "received", amount |-> 0, left |-> 0, alloc |-> NoAlloc, of |-> Nothing, acc |-> Nothing]

VARIABLES
  status,  \* status[d]: draft, issued or cancelled; the settlement statuses follow from paid
  paid,    \* paid[d]: amountPaidMinor
  pay,     \* pay[p]: the payments row; left is unallocatedMinor, alloc its allocations
  lock,    \* lock[r]: which session holds row r, or Nothing
  at,      \* at[s]: idle, locking, or writing
  req,     \* req[s]: what session s was asked
  seen,    \* seen[s]: the receipt's advance and the refunds that s read
  drained, \* history: the requests about to pay out of an account that a receipt was removed or moved
           \* from since they read its balance
  made     \* requests made

vars == <<status, paid, pay, lock, at, req, seen, drained, made>>

Rows == Docs \cup Payments \cup Accounts
Requests ==
  {r \in [op : {"create"}, p : Payments, in : Inputs, d : {Nothing}]
     \cup [op : {"refund"}, p : Payments, in : Refunds, d : {Nothing}]
     \cup [op : {"save"}, p : Payments, in : Inputs \cup Refunds, d : {Nothing}]
     \cup [op : {"remove"}, p : Payments, in : {NoInput}, d : {Nothing}]
     \cup [op : {"finalize", "cancel"}, p : {Nothing}, in : {NoInput}, d : Docs] : r.op \in Ops}
NoRequest == [op |-> Nothing, p |-> Nothing, in |-> NoInput, d |-> Nothing]

TypeOK ==
  /\ status \in [Docs -> {"draft", "issued", "cancelled"}]
  /\ paid \in [Payables -> Nat]
  /\ pay \in [Payments -> [state : {"unborn", "kept", "gone"}, dir : Directions, amount : Nat, left : Nat, alloc : Allocs,
                           of : Payments \cup {Nothing}, acc : Accounts \cup {Nothing}]]
  /\ lock \in [Rows -> Sessions \cup {Nothing}]
  /\ at \in [Sessions -> {"idle", "locking", "writing"}]
  /\ req \in [Sessions -> Requests \cup {NoRequest}]
  /\ seen \in [Sessions -> [left : Nat, refunded : Nat]]
  /\ drained \subseteq Sessions
  /\ made \in 0..MaxRequests

Init ==
  /\ status = [d \in Docs |-> IF d \in Invoices THEN "issued" ELSE "draft"]
  /\ paid = [d \in Payables |-> 0]
  /\ pay = [p \in Payments |-> Unborn]
  /\ lock = [r \in Rows |-> Nothing]
  /\ at = [s \in Sessions |-> "idle"]
  /\ req = [s \in Sessions |-> NoRequest]
  /\ seen = [s \in Sessions |-> [left |-> 0, refunded |-> 0]]
  /\ drained = {}
  /\ made = 0

-----------------------------------------------------------------------------
(* Sums over the rows. *)

Kept(ps) == {p \in Payments : ps[p].state = "kept"}
Settles(alloc, d) == alloc[d].cash + alloc[d].adj
DocsOf(alloc) == {d \in Payables : Settles(alloc, d) > 0}
Cash(alloc) == SumFunctionOnSet([d \in Payables |-> alloc[d].cash], Payables)
RefundedFrom(ps, p) == SumFunctionOnSet([r \in Payments |-> ps[r].amount], {r \in Kept(ps) : ps[r].of = p})
Balance(acc, except) ==
  Opening + SumFunctionOnSet([p \in Payments |-> IF pay[p].dir = "received" THEN pay[p].amount ELSE -pay[p].amount],
                             {p \in Kept(pay) \ {except} : pay[p].acc = acc})

Live(sts, n) == sts[n] = "issued"
Against(sts, ns, d) == SumFunctionOnSet(Total, {n \in ns : Source[n] = d /\ Live(sts, n)})
Allocated(ps, d) == SumFunctionOnSet([p \in Payments |-> Settles(ps[p].alloc, d)], Kept(ps))

(* Credits settle what they can of what the allocations leave. *)
AmountPaid(ps, sts, d) ==
  Max({Allocated(ps, d), Min({Allocated(ps, d) + Against(sts, CreditNotes, d), Total[d]})})

(* syncPaymentState, on the rows as this transaction leaves them. *)
SyncPaymentState(ds) == paid' = [d \in Payables |-> IF d \in ds THEN AmountPaid(pay', status', d) ELSE paid[d]]

-----------------------------------------------------------------------------
(* Requests and the rows they lock. *)

(* A new payment's id is its own from the start. *)
NewId(p) == pay[p] = Unborn /\ \A s \in Sessions : req[s].p # p

Known(p) == pay[p] # Unborn
Possible(r) ==
  /\ r.op \in {"create", "refund"} => NewId(r.p)
  /\ r.op \in {"save", "remove"} => Known(r.p)
  /\ r.op = "save" => MayTurn \/ r.in.dir = pay[r.p].dir
  /\ r.in.of # Nothing => Known(r.in.of)

Ask(s, r) ==
  /\ at[s] = "idle" /\ made < MaxRequests
  /\ Possible(r)
  /\ at' = [at EXCEPT ![s] = "locking"]
  /\ req' = [req EXCEPT ![s] = r]
  /\ made' = made + 1
  /\ UNCHANGED <<status, paid, pay, lock, seen, drained>>

Receipt(of) == {of} \ {Nothing}
Before(r) == IF r.op \in {"save", "remove"} THEN DocsOf(pay[r.p].alloc) ELSE {}

(* Mutant: the account is read without FOR UPDATE. *)
WritePathNoAccount(r) == <<Before(r) \cup DocsOf(r.in.alloc), Receipt(r.in.of)>>
(* Mutant: the receipt is read without FOR UPDATE. *)
WritePathNoReceipt(r) == <<{r.in.acc}, Before(r) \cup DocsOf(r.in.alloc)>>
WritePath(r) == <<{r.in.acc}, Before(r) \cup DocsOf(r.in.alloc), Receipt(r.in.of)>>

SourceOfNote(d, ns) == IF d \in ns THEN {Source[d]} ELSE {}
(* Mutant: savePayment locks the payment last. *)
PathSavesLast(r) ==
  CASE r.op \in {"create", "refund"} -> WritePath(r)
    [] r.op = "save" -> WritePath(r) \o <<{r.p}>>
    [] r.op = "remove" -> <<{r.p}, Receipt(pay[r.p].of), Before(r)>>
    [] r.op = "finalize" -> <<{r.d}, SourceOfNote(r.d, Notes)>>
    [] OTHER -> <<{r.d}, SourceOfNote(r.d, CreditNotes)>>

(* The rows a request locks, step by step; documents in the order of their ids. *)
Path(r) ==
  CASE r.op \in {"create", "refund"} -> WritePath(r)
    [] r.op = "save" -> <<{r.p}>> \o (IF pay[r.p].state = "kept" THEN WritePath(r) ELSE <<>>)
    [] r.op = "remove" -> <<{r.p}, Receipt(pay[r.p].of), Before(r)>>
    [] r.op = "finalize" -> <<{r.d}, SourceOfNote(r.d, Notes)>>
    [] OTHER -> <<{r.d}, SourceOfNote(r.d, CreditNotes)>>

Missing(s, rows) == {x \in rows : lock[x] # s}
HasLocked(s) == LET path == Path(req[s]) IN \A i \in DOMAIN path : Missing(s, path[i]) = {}
Earlier(d, e) == \E i, j \in DOMAIN DocSeq : i < j /\ DocSeq[i] = d /\ DocSeq[j] = e
Wants(s, x) ==
  LET path == Path(req[s]) IN
  /\ at[s] = "locking"
  /\ \E i \in DOMAIN path :
       /\ x \in Missing(s, path[i]) /\ \A y \in Missing(s, path[i]) \ {x} : Earlier(x, y)
       /\ \A j \in 1 .. i - 1 : Missing(s, path[j]) = {}

Lock(s, x) ==
  /\ lock[x] = Nothing /\ Wants(s, x)
  /\ lock' = [lock EXCEPT ![x] = s]
  /\ UNCHANGED <<status, paid, pay, at, req, seen, drained, made>>

End(s) ==
  /\ at' = [at EXCEPT ![s] = "idle"]
  /\ req' = [req EXCEPT ![s] = NoRequest]
  /\ seen' = [seen EXCEPT ![s] = [left |-> 0, refunded |-> 0]]
  /\ lock' = [r \in Rows |-> IF lock[r] = s THEN Nothing ELSE lock[r]]
  /\ UNCHANGED made

(* Sessions that wait for each other in a ring: the database ends one of them with an error. *)
WaitsFor(s, u) == s # u /\ \E x \in Rows : lock[x] = u /\ Wants(s, x)
Ring(C) ==
  /\ C # {}
  /\ \A s \in C : \E u \in C : WaitsFor(s, u)
  /\ \A s \in C : \E u \in C : WaitsFor(u, s)

BreakRing(s) ==
  /\ \E C \in SUBSET Sessions : s \in C /\ Ring(C)
  /\ End(s)
  /\ UNCHANGED <<status, paid, pay, drained>>

-----------------------------------------------------------------------------
(* What each request checks. *)

(* Mutant: what was paid before is not subtracted. *)
OwedInFull(r, d) == Total[d]
Owed(r, d) == Total[d] - paid[d] + (IF r.op = "save" THEN Settles(pay[r.p].alloc, d) ELSE 0)
OldAmount(r) == IF r.op = "save" THEN pay[r.p].amount ELSE 0
RefundedOf(r) == IF r.op = "save" /\ r.in.dir = "received" THEN RefundedFrom(pay, r.p) ELSE 0

(* Mutant: a refund is held against the receipt's amount. *)
RefundFitsAmount(r) ==
  r.in.of # Nothing =>
    /\ r.in.dir = "paid" /\ DocsOf(r.in.alloc) = {}
    /\ pay[r.in.of].state = "kept" /\ pay[r.in.of].dir = "received"
    /\ r.in.amount <= pay[r.in.of].amount

RefundFits(r) ==
  r.in.of # Nothing =>
    /\ r.in.dir = "paid" /\ DocsOf(r.in.alloc) = {}
    /\ pay[r.in.of].state = "kept" /\ pay[r.in.of].dir = "received"
    /\ r.in.amount <= pay[r.in.of].left + OldAmount(r)

(* writePayment, and savePayment before it. *)
WriteFits(r) ==
  /\ r.op = "save" => pay[r.p].state = "kept" /\ pay[r.p].of = r.in.of
  /\ r.in.amount > 0 \/ \E d \in Payables : r.in.alloc[d].adj > 0
  /\ \A d \in DocsOf(r.in.alloc) :
       status[d] = "issued" /\ r.in.dir = "received" /\ Settles(r.in.alloc, d) <= Owed(r, d)
  /\ Cash(r.in.alloc) + RefundedOf(r) <= r.in.amount
  /\ r.in.dir = "paid" => r.in.amount <= Balance(r.in.acc, r.p)
  /\ RefundFits(r)

(* deletePayment *)
RemoveFits(r) ==
  /\ pay[r.p].state = "kept"
  /\ pay[r.p].dir = "received" => RefundedFrom(pay, r.p) = 0

Room(d) == Total[d] + Against(status, DebitNotes, d) - Against(status, CreditNotes, d)

(* finalizeInTx and checkAgainstSource *)
FinalizeFits(d) ==
  /\ status[d] = "draft"
  /\ d \in Notes => status[Source[d]] = "issued"
  /\ d \in CreditNotes => Total[d] <= Room(Source[d])

(* changeStatus to cancelled: nothing allocated or credited, no live note. *)
CancelFits(d) ==
  /\ status[d] \in {"draft", "issued"}
  /\ d \in Payables => paid[d] = 0
  /\ \A n \in Notes : Source[n] = d => ~Live(status, n)

Fits(r) ==
  CASE r.op \in {"create", "save", "refund"} -> WriteFits(r)
    [] r.op = "remove" -> RemoveFits(r)
    [] r.op = "finalize" -> FinalizeFits(r.d)
    [] OTHER -> CancelFits(r.d)

Locked(s) == at[s] = "locking" /\ HasLocked(s)

(* The receipt whose advance the request moves, if it is still there. *)
ReceiptOf(r) == IF r.op = "remove" THEN pay[r.p].of ELSE r.in.of
LeftOf(p) == IF p # Nothing /\ pay[p].state = "kept" THEN pay[p].left ELSE 0

Decide(s) ==
  /\ Locked(s) /\ Fits(req[s])
  /\ at' = [at EXCEPT ![s] = "writing"]
  /\ seen' = [seen EXCEPT ![s] = [left |-> LeftOf(ReceiptOf(req[s])), refunded |-> RefundedOf(req[s])]]
  /\ UNCHANGED <<status, paid, pay, lock, req, drained, made>>

Refuse(s) ==
  /\ Locked(s) /\ ~Fits(req[s])
  /\ End(s)
  /\ UNCHANGED <<status, paid, pay, drained>>

-----------------------------------------------------------------------------
(* What each request writes. *)

Doing(s, ops) == at[s] = "writing" /\ req[s].op \in ops

(* moveRefund: from the advance that was read. *)
MoveRefund(ps, s, delta) ==
  LET of == ReceiptOf(req[s]) IN
  IF of = Nothing \/ ps[of].state # "kept" THEN ps ELSE [ps EXCEPT ![of].left = seen[s].left - delta]

PayingOut(s) == at[s] = "writing" /\ req[s].in.dir = "paid"

(* The accounts a receipt leaves with this request: removed, or moved to another.  Their rows *)
(* are not locked for it.                                                                     *)
Leaves(s) ==
  LET old == pay[req[s].p]
      new == pay'[req[s].p]
  IN IF old.state = "kept" /\ old.dir = "received" /\ (new.state = "gone" \/ new.acc # old.acc) THEN {old.acc} ELSE {}
Drain(s) == drained' = {u \in Sessions \ {s} : u \in drained \/ (PayingOut(u) /\ req[u].in.acc \in Leaves(s))}

WritePayment(s) ==
  LET r == req[s]
      row == [state |-> "kept", dir |-> r.in.dir, amount |-> r.in.amount, alloc |-> r.in.alloc, of |-> r.in.of, acc |-> r.in.acc,
              left |-> IF r.in.of # Nothing THEN 0 ELSE r.in.amount - Cash(r.in.alloc) - seen[s].refunded]
  IN /\ Doing(s, {"create", "save", "refund"})
     /\ pay' = MoveRefund([pay EXCEPT ![r.p] = row], s, r.in.amount - OldAmount(r))
     /\ UNCHANGED status
     /\ SyncPaymentState(Before(r) \cup DocsOf(r.in.alloc))
     /\ Drain(s)
     /\ End(s)

DeletePayment(s) ==
  LET r == req[s] IN
  /\ Doing(s, {"remove"})
  /\ pay' = MoveRefund([pay EXCEPT ![r.p].state = "gone"], s, -pay[r.p].amount)
  /\ UNCHANGED status
  /\ SyncPaymentState(Before(r))
  /\ Drain(s)
  /\ End(s)

FinalizeDocument(s) ==
  LET d == req[s].d IN
  /\ Doing(s, {"finalize"})
  /\ status' = [status EXCEPT ![d] = "issued"]
  /\ UNCHANGED <<pay, drained>>
  /\ SyncPaymentState(SourceOfNote(d, CreditNotes))
  /\ End(s)

CancelDocument(s) ==
  LET d == req[s].d IN
  /\ Doing(s, {"cancel"})
  /\ status' = [status EXCEPT ![d] = "cancelled"]
  /\ UNCHANGED <<pay, drained>>
  /\ SyncPaymentState(SourceOfNote(d, CreditNotes))
  /\ End(s)

Next ==
  \/ \E s \in Sessions : \E r \in Requests : Ask(s, r)
  \/ \E s \in Sessions : \E x \in Rows : Lock(s, x)
  \/ \E s \in Sessions : BreakRing(s)
  \/ \E s \in Sessions : Decide(s)
  \/ \E s \in Sessions : Refuse(s)
  \/ \E s \in Sessions : WritePayment(s)
  \/ \E s \in Sessions : DeletePayment(s)
  \/ \E s \in Sessions : FinalizeDocument(s)
  \/ \E s \in Sessions : CancelDocument(s)

Spec == Init /\ [][Next]_vars

-----------------------------------------------------------------------------
(* Properties. *)

(* What the payments settle of a document, cash and adjustments, is never more than its       *)
(* total, however payments, edits and credits race (writePayment).                            *)
NothingOverpaid == \A d \in Payables : Allocated(pay, d) <= Total[d]

(* amountPaidMinor is at all times what the allocations and the live credits come to: no path *)
(* that adds, changes or withdraws one forgets syncPaymentState.                              *)
PaidIsDerived == \A d \in Payables : paid[d] = AmountPaid(pay, status, d)

(* Nothing settles a cancelled document, and no live note stands against one (changeStatus,   *)
(* checkAgainstSource).                                                                       *)
CancelledStandsAlone ==
  \A d \in Docs : status[d] = "cancelled" =>
    /\ d \in Payables => Allocated(pay, d) = 0
    /\ \A n \in Notes : Source[n] = d => ~Live(status, n)

(* The advance on a receipt is what its allocations and refunds leave of it (writePayment,    *)
(* moveRefund).                                                                               *)
AdvanceIsWhatIsLeft ==
  \A p \in Kept(pay) : pay[p].of = Nothing =>
    pay[p].left = pay[p].amount - Cash(pay[p].alloc) - RefundedFrom(pay, p)

(* A refund is of a receipt that is still on the books (deletePayment, writePayment).         *)
RefundsHaveTheirReceipt ==
  \A r \in Kept(pay) : pay[r].of # Nothing => pay[pay[r].of].state = "kept"

PaidBeyondHoldings(s) ==
  /\ PayingOut(s) /\ at'[s] # "writing"
  /\ pay'[req[s].p].amount > Balance(pay'[req[s].p].acc, req[s].p)

(* engine.ts:222: "No account pays out more than it holds: cash, bank or wallet."  It may,     *)
(* when a receipt leaves the account meanwhile: see PaysOutWhatItHeld.                        *)
PaysOutWhatItHolds == [][\A s \in Sessions : ~PaidBeyondHoldings(s)]_vars

(* The balance a payment out relies on is still there when the payment is written, or a       *)
(* receipt was removed or moved from the account in between: those lock other rows than it    *)
(* (deletePayment, writePayment).  Nothing else done at once spends the same money twice.     *)
PaysOutWhatItHeld == [][\A s \in Sessions : PaidBeyondHoldings(s) => s \in drained]_vars

(* Live credits against a document are no more than it charges with the debit notes issued    *)
(* against it, those cancelled since included (checkAgainstSource).                           *)
CreditWithinSource ==
  \A d \in Invoices :
    Against(status, CreditNotes, d)
      <= Total[d] + SumFunctionOnSet(Total, {n \in DebitNotes : Source[n] = d /\ status[n] # "draft"})

(* Payments lock in one order: a ring of waiting requests always has a refund in it, or a     *)
(* note (writePayment's stable order).                                                        *)
PaymentsNeverDeadlock ==
  \A C \in SUBSET Sessions : Ring(C) =>
    \E s \in C : req[s].op \in {"refund", "finalize", "cancel"} \/ req[s].in.of # Nothing

(* Nothing is settled beyond what there is: neither a document nor the source of a credit.    *)
NothingOversettled == NothingOverpaid /\ CreditWithinSource

(* The two amounts that are kept beside what they are derived from agree with it, and nothing *)
(* on the books refers to what was taken off them.                                            *)
BooksAgree == PaidIsDerived /\ AdvanceIsWhatIsLeft /\ CancelledStandsAlone /\ RefundsHaveTheirReceipt
=============================================================================
