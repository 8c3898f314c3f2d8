-------------------------------- MODULE Issuing --------------------------------
(***************************************************************************)
(* Issuing records under a number (apps/api/src): finalizeInTx with its    *)
(* plan and credit checks, assignNumber, saveNumberingSeries, and what     *)
(* later becomes of a record.  One company, one customer, one series: its  *)
(* invoices', or its payments', which take numbers too but can be deleted. *)
(*                                                                         *)
(* A transaction's reads and its row lock are steps of their own; what it  *)
(* writes is seen by others when it commits (READ COMMITTED).              *)
(***************************************************************************)
EXTENDS Naturals, FiniteSets

CONSTANTS
  Txns,         \* transactions, each issuing one record
  Queued,       \* those replayed from an offline queue, waiting OFFLINE_GRACE_MS or more
  MaxPeriod,    \* bound: the periods a record can be dated in
  Guard,        \* how many taken numbers assignNumber skips before it gives up (10 001)
  PlanLimit,    \* INVOICE_LIMITS: invoices of a month
  CreditLimit,  \* the customer's credit limit, in invoices
  MaxSaves,     \* bound: settings saves
  MaxJump       \* bound: how far ahead a settings save puts the next number

Free == "free"

ASSUME ConstantsAssumption ==
  /\ Free \notin Txns
  /\ Queued \subseteq Txns
  /\ MaxPeriod \in Nat \ {0} /\ Guard \in Nat
  /\ PlanLimit \in Nat /\ CreditLimit \in Nat /\ MaxSaves \in Nat /\ MaxJump \in Nat

VARIABLES
  kind,     \* what the series numbers: "invoice" or "payment"
  series,   \* the numbering_series row
  lock,     \* who holds its row lock (SELECT ... FOR UPDATE), or Free
  pc,       \* pc[t]: where transaction t is
  date,     \* date[t]: the period t's record is dated in
  drawn,    \* drawn[t]: the number t drew
  record,   \* record[t]: what became of t's record
  editing,  \* the row as the settings save under way read it, or NoEdit
  saves,    \* settings saves begun
  issued    \* history: every number a record was ever committed with

given == <<kind, date>>
vars == <<series, lock, pc, given, drawn, record, editing, saves, issued>>

Periods == 1..MaxPeriod
\* last is lastResetAt's period, 0 when null; resets is a resetPolicy of 'yearly' or
\* 'monthly'; shown is a format that shows the period (includeFiscalYear).
Series == [next : Nat, last : 0..MaxPeriod, version : Nat, resets : BOOLEAN, shown : BOOLEAN]
NoEdit == [next |-> 0, last |-> 0, version |-> 0, resets |-> FALSE, shown |-> FALSE]
Numbers == (0..MaxPeriod) \X Nat
Format(p, n) == <<IF series.shown THEN p ELSE 0, n>>

TypeOK ==
  /\ kind \in {"invoice", "payment"}
  /\ series \in Series
  /\ lock \in Txns \cup {Free}
  /\ pc \in [Txns -> {"new", "plan", "credit", "series", "draw", "write", "done"}]
  /\ date \in [Txns -> Periods]
  /\ drawn \in [Txns -> Numbers]
  /\ record \in [Txns -> {"none", "open", "cancelled", "deleted"}]
  /\ editing \in Series
  /\ saves \in Nat
  /\ issued \subseteq Numbers

Init ==
  /\ kind \in {"invoice", "payment"}
  /\ series \in [next : {1}, last : {0}, version : {1}, resets : BOOLEAN, shown : BOOLEAN]
  /\ lock = Free
  /\ pc = [t \in Txns |-> "new"]
  /\ date \in [Txns -> Periods]
  /\ drawn = [t \in Txns |-> <<0, 0>>]
  /\ record = [t \in Txns |-> "none"]
  /\ editing = NoEdit /\ saves = 0
  /\ issued = {}

Goto(t, l) == pc' = [pc EXCEPT ![t] = l]
Kept == {t \in Txns : record[t] \in {"open", "cancelled"}}
Taken == {drawn[t] : t \in Kept}

-----------------------------------------------------------------------------
(* finalizeInTx's checks, each a read of what is committed by now. *)

Begin(t) ==
  /\ pc[t] = "new"
  /\ Goto(t, IF kind = "payment" THEN "series" ELSE "plan")
  /\ UNCHANGED <<series, lock, given, drawn, record, editing, saves, issued>>

(* checkInvoiceLimit: cancelled invoices count (finalizedAt); queued ones go through. *)
CheckInvoiceLimit(t) ==
  /\ pc[t] = "plan"
  /\ Goto(t, IF t \in Queued \/ Cardinality(Kept) < PlanLimit THEN "credit" ELSE "done")
  /\ UNCHANGED <<series, lock, given, drawn, record, editing, saves, issued>>

Owed == {t \in Txns : record[t] = "open"}

CheckCreditLimit(t) ==
  /\ pc[t] = "credit"
  /\ Goto(t, IF Cardinality(Owed) + 1 <= CreditLimit THEN "series" ELSE "done")
  /\ UNCHANGED <<series, lock, given, drawn, record, editing, saves, issued>>

-----------------------------------------------------------------------------
(* assignNumber. *)

(* Mutant: the series is read without FOR UPDATE. *)
ReadSeries(t) ==
  /\ pc[t] = "series"
  /\ Goto(t, "draw")
  /\ UNCHANGED <<series, lock, given, drawn, record, editing, saves, issued>>

LockSeries(t) ==
  /\ pc[t] = "series"
  /\ lock = Free
  /\ lock' = t
  /\ Goto(t, "draw")
  /\ UNCHANGED <<series, given, drawn, record, editing, saves, issued>>

Later(t) == series.resets /\ series.last # 0 /\ date[t] > series.last
Past(t) == series.resets /\ series.last # 0 /\ date[t] < series.last
(* Mutant: a document of an earlier period goes on from the current counter. *)
StartCurrent(t) == IF Later(t) THEN 1 ELSE series.next
Start(t) == IF Later(t) \/ Past(t) THEN 1 ELSE series.next

(* The first number from Start on that no record of the kind carries. *)
Draw(t) ==
  /\ pc[t] = "draw"
  /\ \E n \in Start(t)..(Start(t) + Guard) :
       /\ Format(date[t], n) \notin Taken
       /\ \A k \in Start(t)..(n - 1) : Format(date[t], k) \in Taken
       /\ drawn' = [drawn EXCEPT ![t] = Format(date[t], n)]
  /\ Goto(t, "write")
  /\ UNCHANGED <<series, lock, given, record, editing, saves, issued>>

Unlock(t) == lock' = IF lock = t THEN Free ELSE lock

Exhausted(t) ==
  /\ pc[t] = "draw"
  /\ \A n \in Start(t)..(Start(t) + Guard) : Format(date[t], n) \in Taken
  /\ Goto(t, "done")
  /\ Unlock(t)
  /\ UNCHANGED <<series, given, drawn, record, editing, saves, issued>>

(* Mutant: the start of the next period is written down as the last reset. *)
CountedAhead(t) ==
  [series EXCEPT !.next = drawn[t][2] + 1,
                 !.last = IF series.resets /\ (series.last = 0 \/ Later(t)) THEN date[t] + 1 ELSE series.last,
                 !.version = series.version + 1]

Counted(t) ==
  [series EXCEPT !.next = drawn[t][2] + 1,
                 !.last = IF series.resets /\ (series.last = 0 \/ Later(t)) THEN date[t] ELSE series.last,
                 !.version = series.version + 1]

CommitWith(t, row) ==
  /\ pc[t] = "write"
  /\ Goto(t, "done")
  /\ Unlock(t)
  /\ record' = [record EXCEPT ![t] = "open"]
  /\ series' = row
  /\ issued' = issued \cup {drawn[t]}
  /\ UNCHANGED <<given, drawn, editing, saves>>

(* Mutant: a document of an earlier period moves the counter too. *)
CommitPastToo(t) == CommitWith(t, Counted(t))

(* The record and the counter are committed; an earlier period's draw moves no counter. *)
Commit(t) == CommitWith(t, IF Past(t) THEN series ELSE Counted(t))

(* Anything after the draw may refuse the record (stock, a stale version): so goes the draw. *)
Rollback(t) ==
  /\ pc[t] = "write"
  /\ Goto(t, "done")
  /\ Unlock(t)
  /\ UNCHANGED <<series, given, drawn, record, editing, saves, issued>>

-----------------------------------------------------------------------------
(* What becomes of a record. *)

(* Mutant: a cancelled invoice is removed. *)
CancelRemoves(t) ==
  /\ kind = "invoice" /\ record[t] = "open"
  /\ record' = [record EXCEPT ![t] = "deleted"]
  /\ UNCHANGED <<series, lock, pc, given, drawn, editing, saves, issued>>

Cancel(t) ==
  /\ kind = "invoice" /\ record[t] = "open"
  /\ record' = [record EXCEPT ![t] = "cancelled"]
  /\ UNCHANGED <<series, lock, pc, given, drawn, editing, saves, issued>>

DeletePayment(t) ==
  /\ kind = "payment" /\ record[t] = "open"
  /\ record' = [record EXCEPT ![t] = "deleted"]
  /\ UNCHANGED <<series, lock, pc, given, drawn, editing, saves, issued>>

-----------------------------------------------------------------------------
(* saveNumberingSeries: read, then one conditional UPDATE, which waits for the row lock. *)

EditSeries ==
  /\ editing = NoEdit /\ saves < MaxSaves
  /\ editing' = series
  /\ saves' = saves + 1
  /\ UNCHANGED <<series, lock, pc, given, drawn, record, issued>>

Edited(n, resets, shown) ==
  [series EXCEPT !.next = n, !.version = editing.version + 1, !.resets = resets, !.shown = shown]

SaveSeries(n, resets, shown) ==
  /\ editing # NoEdit /\ lock = Free
  /\ n >= editing.next
  /\ series' = IF series.version = editing.version /\ series.next <= n
                 THEN Edited(n, resets, shown) ELSE series
  /\ editing' = NoEdit
  /\ UNCHANGED <<lock, pc, given, drawn, record, saves, issued>>

Next ==
  \/ \E t \in Txns : Begin(t)
  \/ \E t \in Txns : CheckInvoiceLimit(t)
  \/ \E t \in Txns : CheckCreditLimit(t)
  \/ \E t \in Txns : LockSeries(t)
  \/ \E t \in Txns : Draw(t)
  \/ \E t \in Txns : Exhausted(t)
  \/ \E t \in Txns : Commit(t)
  \/ \E t \in Txns : Rollback(t)
  \/ \E t \in Txns : Cancel(t)
  \/ \E t \in Txns : DeletePayment(t)
  \/ EditSeries
  \/ \E n \in editing.next..(editing.next + MaxJump), resets, shown \in BOOLEAN :
       SaveSeries(n, resets, shown)

Spec == Init /\ [][Next]_vars

-----------------------------------------------------------------------------
(* Properties. *)

(* No two records carry one number, whatever finalisations, replays into earlier periods    *)
(* and settings saves race (assignNumber).                                                  *)
NumbersUnique == \A t, u \in Kept : drawn[t] = drawn[u] => t = u

(* Consecutive: until someone changes the series by hand, its numbers (those of each period *)
(* when it restarts and shows it) are 1 to n, also after rollbacks, cancellations and       *)
(* documents replayed into a past period.                                                   *)
Runs == IF series.resets /\ series.shown THEN {{x \in issued : x[1] = p} : p \in Periods} ELSE {issued}
Gapless == saves = 0 => \A I \in Runs : LET ns == {x[2] : x \in I} IN ns = 1..Cardinality(ns)

(* A number given out once is never given out again, also when its record is gone. *)
NeverReused == [][\A t \in Txns : Kept' \ Kept = {t} => drawn[t] \notin issued]_vars

(* An invoice's number is never given out again, whatever is cancelled, reset or changed in *)
(* the series (assignNumber skips what a cancelled invoice carries).                        *)
InvoiceNumbersNeverReused ==
  [][kind = "invoice" => \A t \in Txns : Kept' \ Kept = {t} => drawn[t] \notin issued]_vars
=============================================================================
