---------------------------- MODULE Issuing_proofs -----------------------------
(***************************************************************************)
(* Numbers are unique for any transactions, periods, formats and limits:    *)
(* the row lock makes the draw and the commit one critical section, so      *)
(* what was free when drawn is still free when written.                    *)
(***************************************************************************)
EXTENDS Issuing, FiniteSetTheorems, TLAPS

(* Only the holder of the row lock is between its draw and its end. *)
LockHeld == \A t \in Txns : pc[t] \in {"draw", "write"} => lock = t

(* A number about to be written is on no record yet. *)
DrawnIsFree == \A t \in Txns : pc[t] = "write" => drawn[t] \notin Taken

(* A record exists once its transaction has ended. *)
RecordsAreOfTheDone == \A t \in Txns : record[t] # "none" => pc[t] = "done"

IInv == TypeOK /\ LockHeld /\ DrawnIsFree /\ RecordsAreOfTheDone /\ NumbersUnique

USE ConstantsAssumption DEF given

(* A number drawn for a transaction with no record yet changes no record's number. *)
LEMMA DrawKeepsTaken ==
  ASSUME TypeOK, NEW t \in Txns, record[t] = "none", record' = record,
         NEW x \in Numbers, drawn' = [drawn EXCEPT ![t] = x]
  PROVE  Kept' = Kept /\ Taken' = Taken /\ \A u \in Kept : drawn'[u] = drawn[u]
<1>1. Kept' = Kept
  BY DEF Kept
<1>2. t \notin Kept
  BY DEF Kept
<1>3. \A u \in Kept : drawn'[u] = drawn[u]
  BY <1>2 DEF TypeOK, Kept
<1>4. Taken' = {drawn'[u] : u \in Kept'}
  BY DEF Taken
<1> QED BY <1>1, <1>3, <1>4 DEF Taken

LEMMA CountedType ==
  ASSUME TypeOK, NEW t \in Txns
  PROVE  Counted(t) \in Series
<1>1. drawn[t] \in Numbers /\ date[t] \in Periods /\ series \in Series
  BY DEF TypeOK
<1>2. ASSUME NEW l \in 0..MaxPeriod, NEW n \in Nat, NEW v \in Nat
      PROVE  [series EXCEPT !.next = n, !.last = l, !.version = v] \in Series
  BY <1>1 DEF Series
<1>3. drawn[t][2] + 1 \in Nat /\ date[t] \in 0..MaxPeriod /\ series.last \in 0..MaxPeriod /\ series.version + 1 \in Nat
  BY <1>1 DEF Numbers, Periods, Series
<1> QED BY <1>2, <1>3 DEF Counted

LEMMA InitIInv == Init => IInv
<1> SUFFICES ASSUME Init PROVE IInv
  OBVIOUS
<1>1. <<0, 0>> \in Numbers
  BY DEF Numbers
<1>2. TypeOK
  BY <1>1 DEF Init, TypeOK, Series, NoEdit, Free
<1>3. Kept = {}
  BY DEF Init, Kept
<1> QED BY <1>2, <1>3 DEF Init, IInv, LockHeld, DrawnIsFree, RecordsAreOfTheDone, NumbersUnique

(* Steps that touch neither a record nor a number, and enter no critical section. *)
LEMMA QuietStep ==
  ASSUME IInv, TypeOK', record' = record, drawn' = drawn,
         \A t \in Txns : pc'[t] \in {"draw", "write"} => lock' = t,
         \A t \in Txns : pc'[t] = "write" => pc[t] = "write",
         \A t \in Txns : pc[t] = "done" => pc'[t] = "done"
  PROVE  IInv'
<1>1. Kept' = Kept /\ Taken' = Taken
  BY DEF Kept, Taken
<1>2. LockHeld'
  BY DEF LockHeld
<1>3. DrawnIsFree'
  BY <1>1 DEF IInv, DrawnIsFree
<1>4. RecordsAreOfTheDone'
  BY DEF IInv, RecordsAreOfTheDone
<1>5. NumbersUnique'
  BY <1>1 DEF IInv, NumbersUnique
<1> QED BY <1>2, <1>3, <1>4, <1>5 DEF IInv

LEMMA StepIInv == IInv /\ [Next]_vars => IInv'
<1> SUFFICES ASSUME IInv, [Next]_vars PROVE IInv'
  OBVIOUS
<1> TypeOK /\ LockHeld /\ DrawnIsFree /\ RecordsAreOfTheDone /\ NumbersUnique
  BY DEF IInv
<1>1. ASSUME NEW t \in Txns, Begin(t) PROVE IInv'
  <2>1. TypeOK'
    BY <1>1 DEF Begin, TypeOK, Goto
  <2> QED BY <1>1, <2>1, QuietStep DEF Begin, Goto, LockHeld, TypeOK
<1>2. ASSUME NEW t \in Txns, CheckInvoiceLimit(t) PROVE IInv'
  <2>1. TypeOK'
    BY <1>2 DEF CheckInvoiceLimit, TypeOK, Goto
  <2> QED BY <1>2, <2>1, QuietStep DEF CheckInvoiceLimit, Goto, LockHeld, TypeOK
<1>3. ASSUME NEW t \in Txns, CheckCreditLimit(t) PROVE IInv'
  <2>1. TypeOK'
    BY <1>3 DEF CheckCreditLimit, TypeOK, Goto
  <2> QED BY <1>3, <2>1, QuietStep DEF CheckCreditLimit, Goto, LockHeld, TypeOK
<1>4. ASSUME NEW t \in Txns, LockSeries(t) PROVE IInv'
  <2>1. TypeOK'
    BY <1>4 DEF LockSeries, TypeOK, Goto
  <2>2. \A u \in Txns : pc[u] \notin {"draw", "write"}
    BY <1>4 DEF LockSeries, LockHeld
  <2> QED BY <1>4, <2>1, <2>2, QuietStep DEF LockSeries, Goto, TypeOK
<1>5. ASSUME NEW t \in Txns, Draw(t) PROVE IInv'
  <2>1. PICK n \in Start(t)..(Start(t) + Guard) :
          Format(date[t], n) \notin Taken /\ drawn' = [drawn EXCEPT ![t] = Format(date[t], n)]
    BY <1>5 DEF Draw
  <2>2. Start(t) \in Nat
    BY DEF Start, TypeOK, Series
  <2>3. Format(date[t], n) \in Numbers
    BY <2>2 DEF Format, Numbers, TypeOK, Periods
  <2>4. TypeOK'
    BY <1>5, <2>1, <2>3 DEF Draw, TypeOK, Goto
  <2>5. pc[t] = "draw" /\ record[t] = "none" /\ record' = record
    BY <1>5 DEF Draw, RecordsAreOfTheDone, TypeOK
  <2>6. Kept' = Kept /\ Taken' = Taken /\ \A u \in Kept : drawn'[u] = drawn[u]
    BY <2>1, <2>3, <2>5, DrawKeepsTaken
  <2>7. LockHeld'
    BY <1>5 DEF Draw, Goto, LockHeld, TypeOK
  <2>8. drawn'[t] \notin Taken'
    BY <2>1, <2>6 DEF TypeOK
  <2>9. \A u \in Txns : pc'[u] = "write" => u = t
    BY <1>5 DEF Draw, Goto, LockHeld, TypeOK
  <2>10. DrawnIsFree'
    BY <2>8, <2>9 DEF DrawnIsFree
  <2>11. RecordsAreOfTheDone'
    BY <1>5, <2>5 DEF Draw, Goto, RecordsAreOfTheDone, TypeOK
  <2>12. NumbersUnique'
    BY <2>6 DEF NumbersUnique
  <2> QED BY <2>4, <2>7, <2>10, <2>11, <2>12 DEF IInv
<1>6. ASSUME NEW t \in Txns, Exhausted(t) PROVE IInv'
  <2>1. TypeOK'
    BY <1>6 DEF Exhausted, TypeOK, Goto, Unlock
  <2> QED BY <1>6, <2>1, QuietStep DEF Exhausted, Goto, Unlock, LockHeld, TypeOK
<1>7. ASSUME NEW t \in Txns, Commit(t) PROVE IInv'
  <2>1. pc[t] = "write" /\ lock = t /\ record' = [record EXCEPT ![t] = "open"] /\ drawn' = drawn
        /\ pc' = [pc EXCEPT ![t] = "done"]
    BY <1>7 DEF Commit, CommitWith, Goto, LockHeld
  <2>2. series' \in Series
    BY <1>7, CountedType DEF Commit, CommitWith, TypeOK
  <2>3. drawn[t] \in Numbers
    BY DEF TypeOK
  <2>4. TypeOK'
    BY <1>7, <2>1, <2>2, <2>3 DEF Commit, CommitWith, Unlock, TypeOK
  <2>5. Kept' = Kept \cup {t}
    BY <2>1 DEF Kept, TypeOK
  <2>6. \A u \in Txns : pc'[u] \notin {"draw", "write"}
    BY <2>1 DEF LockHeld, TypeOK
  <2>7. drawn[t] \notin Taken
    BY <2>1 DEF DrawnIsFree
  <2>8. NumbersUnique'
    BY <2>1, <2>5, <2>7 DEF NumbersUnique, Taken
  <2>9. RecordsAreOfTheDone'
    BY <2>1 DEF RecordsAreOfTheDone, TypeOK
  <2> QED BY <2>4, <2>6, <2>8, <2>9 DEF IInv, LockHeld, DrawnIsFree
<1>8. ASSUME NEW t \in Txns, Rollback(t) PROVE IInv'
  <2>1. TypeOK'
    BY <1>8 DEF Rollback, TypeOK, Goto, Unlock
  <2> QED BY <1>8, <2>1, QuietStep DEF Rollback, Goto, Unlock, LockHeld, TypeOK
<1>9. ASSUME NEW t \in Txns, Cancel(t) PROVE IInv'
  <2>1. TypeOK'
    BY <1>9 DEF Cancel, TypeOK
  <2>2. Kept' = Kept
    BY <1>9 DEF Cancel, Kept, TypeOK
  <2>3. Taken' = Taken
    BY <1>9, <2>2 DEF Cancel, Taken
  <2>4. RecordsAreOfTheDone'
    BY <1>9 DEF Cancel, RecordsAreOfTheDone, TypeOK
  <2> QED BY <1>9, <2>1, <2>2, <2>3, <2>4 DEF Cancel, IInv, LockHeld, DrawnIsFree, NumbersUnique
<1>10. ASSUME NEW t \in Txns, DeletePayment(t) PROVE IInv'
  <2>1. TypeOK'
    BY <1>10 DEF DeletePayment, TypeOK
  <2>2. Kept' \subseteq Kept
    BY <1>10 DEF DeletePayment, Kept, TypeOK
  <2>3. Taken' \subseteq Taken
    BY <1>10, <2>2 DEF DeletePayment, Taken
  <2>4. RecordsAreOfTheDone'
    BY <1>10 DEF DeletePayment, RecordsAreOfTheDone, TypeOK
  <2> QED BY <1>10, <2>1, <2>2, <2>3, <2>4 DEF DeletePayment, IInv, LockHeld, DrawnIsFree, NumbersUnique
<1>11. ASSUME EditSeries PROVE IInv'
  <2>1. TypeOK'
    BY <1>11 DEF EditSeries, TypeOK
  <2> QED BY <1>11, <2>1, QuietStep DEF EditSeries, LockHeld
<1>12. ASSUME NEW n \in editing.next..(editing.next + MaxJump),
             NEW resets \in BOOLEAN, NEW shown \in BOOLEAN, SaveSeries(n, resets, shown) PROVE IInv'
  <2>1. editing.next \in Nat /\ editing.version \in Nat /\ series.last \in 0..MaxPeriod
    BY DEF TypeOK, Series
  <2>2. n \in Nat
    BY <2>1
  <2>3. Edited(n, resets, shown) \in Series
    <3>1. series \in Series /\ editing.version + 1 \in Nat
      BY <2>1 DEF TypeOK
    <3>2. ASSUME NEW v \in Nat
          PROVE  [series EXCEPT !.next = n, !.version = v, !.resets = resets, !.shown = shown] \in Series
      BY <2>2, <3>1 DEF Series
    <3> QED BY <3>1, <3>2 DEF Edited
  <2>4. NoEdit \in Series /\ series \in Series
    BY DEF TypeOK, NoEdit, Series
  <2>5. series' \in Series /\ editing' \in Series
    BY <1>12, <2>3, <2>4 DEF SaveSeries
  <2>6. TypeOK'
    BY <1>12, <2>5 DEF SaveSeries, TypeOK
  <2> QED BY <1>12, <2>6, QuietStep DEF SaveSeries, LockHeld
<1>13. ASSUME UNCHANGED vars PROVE IInv'
  <2>1. TypeOK'
    BY <1>13 DEF vars, TypeOK
  <2> QED BY <1>13, <2>1, QuietStep DEF vars, LockHeld
<1> QED
  BY <1>1, <1>2, <1>3, <1>4, <1>5, <1>6, <1>7, <1>8, <1>9, <1>10, <1>11, <1>12, <1>13 DEF Next

LEMMA Invariance == Spec => []IInv
<1>1. Init => IInv
  BY InitIInv
<1>2. IInv /\ [Next]_vars => IInv'
  BY StepIInv
<1> QED BY <1>1, <1>2, PTL DEF Spec

(* For any transactions, periods, formats, resets, limits and settings saves, no two records *)
(* kept at a time carry the same number (assignNumber under its row lock).                   *)
THEOREM UniqueNumbers == Spec => []NumbersUnique
<1>1. IInv => NumbersUnique
  BY DEF IInv
<1> QED BY Invariance, <1>1, PTL

(* Every variable of the model keeps its type, for any constants. *)
THEOREM TypeCorrect == Spec => []TypeOK
<1>1. IInv => TypeOK
  BY DEF IInv
<1> QED BY Invariance, <1>1, PTL

-----------------------------------------------------------------------------
(* An invoice is never removed: every number ever given out is still on a record. *)
IssuedIsTaken == kind = "invoice" => issued \subseteq Taken

(* Steps that commit no record and remove none. *)
LEMMA IssuedKept ==
  ASSUME IssuedIsTaken, kind' = kind, issued' = issued, Taken' = Taken
  PROVE  IssuedIsTaken'
BY DEF IssuedIsTaken

LEMMA StepIssuedIsTaken == IInv /\ IssuedIsTaken /\ [Next]_vars => IssuedIsTaken'
<1> SUFFICES ASSUME IInv, IssuedIsTaken, [Next]_vars PROVE IssuedIsTaken'
  OBVIOUS
<1> TypeOK /\ RecordsAreOfTheDone
  BY DEF IInv
<1>1. ASSUME record' = record, drawn' = drawn, kind' = kind, issued' = issued PROVE IssuedIsTaken'
  <2>1. Taken' = Taken
    BY <1>1 DEF Taken, Kept
  <2> QED BY <1>1, <2>1, IssuedKept
<1>2. ASSUME NEW t \in Txns, Draw(t) PROVE IssuedIsTaken'
  <2>1. PICK n \in Start(t)..(Start(t) + Guard) : drawn' = [drawn EXCEPT ![t] = Format(date[t], n)]
    BY <1>2 DEF Draw
  <2>2. Format(date[t], n) \in Numbers
    <3>1. Start(t) \in Nat
      BY DEF Start, TypeOK, Series
    <3> QED BY <3>1 DEF Format, Numbers, TypeOK, Periods
  <2>3. record[t] = "none" /\ record' = record /\ kind' = kind /\ issued' = issued
    BY <1>2 DEF Draw, RecordsAreOfTheDone, TypeOK
  <2>4. Taken' = Taken
    BY <2>1, <2>2, <2>3, DrawKeepsTaken
  <2> QED BY <2>3, <2>4, IssuedKept
<1>3. ASSUME NEW t \in Txns, Commit(t) PROVE IssuedIsTaken'
  <2>1. /\ record' = [record EXCEPT ![t] = "open"] /\ drawn' = drawn /\ kind' = kind
        /\ issued' = issued \cup {drawn[t]}
    BY <1>3 DEF Commit, CommitWith
  <2>2. Kept' = Kept \cup {t}
    BY <2>1 DEF Kept, TypeOK
  <2>3. Taken' = Taken \cup {drawn[t]}
    BY <2>1, <2>2 DEF Taken
  <2> QED BY <2>1, <2>3 DEF IssuedIsTaken
<1>4. ASSUME NEW t \in Txns, Cancel(t) PROVE IssuedIsTaken'
  <2>1. Kept' = Kept
    BY <1>4 DEF Cancel, Kept, TypeOK
  <2>2. Taken' = Taken
    BY <1>4, <2>1 DEF Cancel, Taken
  <2> QED BY <1>4, <2>2, IssuedKept DEF Cancel
<1>5. ASSUME NEW t \in Txns, DeletePayment(t) PROVE IssuedIsTaken'
  BY <1>5 DEF DeletePayment, IssuedIsTaken
<1> QED
  BY <1>1, <1>2, <1>3, <1>4, <1>5 DEF Next, vars, Begin, CheckInvoiceLimit, CheckCreditLimit, LockSeries,
     Exhausted, Rollback, EditSeries, SaveSeries

(* An invoice's number is never given out again, for any transactions, periods, resets and  *)
(* changes of the series (assignNumber skips what any invoice, cancelled or not, carries).   *)
THEOREM InvoiceNumberOnce == Spec => InvoiceNumbersNeverReused
<1>1. Init => IssuedIsTaken
  BY DEF Init, IssuedIsTaken
<1>2. IInv /\ IssuedIsTaken /\ [Next]_vars
      => [kind = "invoice" => \A t \in Txns : Kept' \ Kept = {t} => drawn[t] \notin issued]_vars
  <2> SUFFICES ASSUME IInv, IssuedIsTaken, Next, kind = "invoice",
                      NEW t \in Txns, Kept' \ Kept = {t}
               PROVE drawn[t] \notin issued
    OBVIOUS
  <2>1. PICK u \in Txns : Commit(u)
    <3>1. record' # record
      BY DEF Kept
    <3>2. ASSUME NEW u \in Txns, Cancel(u) \/ DeletePayment(u) PROVE Kept' \subseteq Kept
      BY <3>2 DEF Cancel, DeletePayment, Kept, IInv, TypeOK
    <3> QED
      BY <3>1, <3>2 DEF Next, Begin, CheckInvoiceLimit, CheckCreditLimit, LockSeries, Draw, Exhausted,
         Rollback, EditSeries, SaveSeries
  <2>2. u = t /\ pc[u] = "write"
    BY <2>1 DEF Commit, CommitWith, Kept, IInv, TypeOK
  <2>3. drawn[t] \notin Taken
    BY <2>2 DEF IInv, DrawnIsFree
  <2> QED BY <2>3 DEF IssuedIsTaken
<1> QED BY <1>1, <1>2, StepIssuedIsTaken, Invariance, PTL DEF Spec, InvoiceNumbersNeverReused

-----------------------------------------------------------------------------
(* Numbers follow each other while nobody changes the series by hand. *)

(* The numbers given out in period p; in any period, when the counter runs through. *)
Own(p) == {x[2] : x \in {y \in issued : y[1] = p \/ ~(series.resets /\ series.shown)}}

(* What carries a number was given it. *)
TakenIsIssued == Taken \subseteq issued

(* Every number before the next one has been given out, in the period the counter stands in. *)
CounterIsReached ==
  /\ series.next >= 1
  /\ series.resets /\ series.last = 0 => series.next = 1
  /\ \A p \in Periods : (~series.resets \/ series.last = p) => \A k \in 1..(series.next - 1) : k \in Own(p)

(* So has every number before one about to be written, which the row lock keeps true. *)
DrawnFollows ==
  \A t \in Txns : pc[t] = "write" =>
    /\ drawn[t][1] = IF series.shown THEN date[t] ELSE 0
    /\ drawn[t][2] >= 1
    /\ \A k \in 1..(drawn[t][2] - 1) : k \in Own(date[t])

Consecutive == \A p \in Periods : \E m \in Nat : Own(p) = 1..m

Unedited == editing = NoEdit /\ CounterIsReached /\ DrawnFollows /\ Consecutive
GapIInv == TakenIsIssued /\ (saves = 0 => Unedited)

LEMMA OwnNumbers == ASSUME TypeOK, NEW p \in Periods PROVE Own(p) \subseteq Nat
BY DEF TypeOK, Own, Numbers

(* Where the counter runs through, every period has the same numbers. *)
LEMMA OwnIsShared ==
  ASSUME ~(series.resets /\ series.shown), NEW p, NEW q
  PROVE  Own(p) = Own(q)
BY DEF Own

LEMMA TakenStays ==
  ASSUME IInv, TakenIsIssued, [Next]_vars
  PROVE  TakenIsIssued'
<1> TypeOK /\ RecordsAreOfTheDone
  BY DEF IInv
<1>1. ASSUME record' = record, drawn' = drawn, issued' = issued PROVE TakenIsIssued'
  BY <1>1 DEF TakenIsIssued, Taken, Kept
<1>2. ASSUME NEW t \in Txns, Draw(t) PROVE TakenIsIssued'
  <2>1. PICK n \in Start(t)..(Start(t) + Guard) : drawn' = [drawn EXCEPT ![t] = Format(date[t], n)]
    BY <1>2 DEF Draw
  <2>2. Start(t) \in Nat
    BY DEF Start, TypeOK, Series
  <2>3. Format(date[t], n) \in Numbers
    BY <2>2 DEF Format, Numbers, TypeOK, Periods
  <2>4. record[t] = "none" /\ record' = record /\ issued' = issued
    BY <1>2 DEF Draw, RecordsAreOfTheDone, TypeOK
  <2>5. Taken' = Taken
    BY <2>1, <2>3, <2>4, DrawKeepsTaken
  <2> QED BY <2>4, <2>5 DEF TakenIsIssued
<1>3. ASSUME NEW t \in Txns, Commit(t) PROVE TakenIsIssued'
  <2>1. /\ record' = [record EXCEPT ![t] = "open"] /\ drawn' = drawn
        /\ issued' = issued \cup {drawn[t]}
    BY <1>3 DEF Commit, CommitWith
  <2>2. Kept' = Kept \cup {t}
    BY <2>1 DEF Kept, TypeOK
  <2>3. Taken' = Taken \cup {drawn[t]}
    BY <2>1, <2>2 DEF Taken
  <2> QED BY <2>1, <2>3 DEF TakenIsIssued
<1>4. ASSUME NEW t \in Txns, Cancel(t) \/ DeletePayment(t) PROVE TakenIsIssued'
  <2>1. Kept' \subseteq Kept /\ drawn' = drawn /\ issued' = issued
    BY <1>4 DEF Cancel, DeletePayment, Kept, TypeOK
  <2> QED BY <2>1 DEF TakenIsIssued, Taken
<1> QED
  BY <1>1, <1>2, <1>3, <1>4 DEF Next, vars, Begin, CheckInvoiceLimit, CheckCreditLimit, LockSeries,
     Exhausted, Rollback, EditSeries, SaveSeries

(* Steps that neither draw nor commit. *)
LEMMA UneditedKept ==
  ASSUME Unedited, series' = series, issued' = issued, date' = date, drawn' = drawn, editing' = editing,
         \A t \in Txns : pc'[t] = "write" => pc[t] = "write"
  PROVE  Unedited'
<1>1. \A p : Own(p)' = Own(p)
  BY DEF Own
<1>2. CounterIsReached'
  BY <1>1 DEF Unedited, CounterIsReached
<1>3. DrawnFollows'
  BY <1>1 DEF Unedited, DrawnFollows
<1>4. Consecutive'
  BY <1>1 DEF Unedited, Consecutive
<1> QED BY <1>2, <1>3, <1>4 DEF Unedited

(* A draw takes the first number free from a start all before which were given out. *)
LEMMA DrawFollows ==
  ASSUME IInv, TakenIsIssued, Unedited, NEW t \in Txns, Draw(t)
  PROVE  Unedited'
<1> TypeOK /\ LockHeld
  BY DEF IInv
<1>1. PICK n \in Start(t)..(Start(t) + Guard) :
        /\ \A k \in Start(t)..(n - 1) : Format(date[t], k) \in Taken
        /\ drawn' = [drawn EXCEPT ![t] = Format(date[t], n)]
  BY DEF Draw
<1>2. series.next \in Nat /\ series.last \in 0..MaxPeriod /\ date[t] \in Periods
  BY DEF TypeOK, Series
<1>3. Start(t) \in Nat /\ Start(t) >= 1 /\ n \in Nat /\ n >= 1
  BY <1>2 DEF Start, Unedited, CounterIsReached
<1>4. ASSUME NEW k \in 1..(Start(t) - 1) PROVE k \in Own(date[t])
  <2>1. ~Later(t) /\ ~Past(t) /\ Start(t) = series.next
    BY <1>2, <1>4 DEF Start
  <2>2. ~series.resets \/ series.last = 0 \/ series.last = date[t]
    BY <1>2, <2>1 DEF Later, Past, Periods
  <2>3. series.resets /\ series.last = 0 => series.next = 1
    BY DEF Unedited, CounterIsReached
  <2> QED BY <1>2, <1>4, <2>1, <2>2, <2>3 DEF Unedited, CounterIsReached
<1>5. ASSUME NEW k \in Start(t)..(n - 1) PROVE k \in Own(date[t])
  <2>1. Format(date[t], k) \in issued
    BY <1>1, <1>5 DEF TakenIsIssued
  <2>2. Format(date[t], k)[2] = k
    BY DEF Format
  <2>3. series.shown => Format(date[t], k)[1] = date[t]
    BY DEF Format
  <2> QED BY <2>1, <2>2, <2>3 DEF Own
<1>6. \A k \in 1..(n - 1) : k \in Own(date[t])
  BY <1>3, <1>4, <1>5
<1>7. series' = series /\ issued' = issued /\ date' = date /\ editing' = editing
  BY DEF Draw
<1>8. \A p : Own(p)' = Own(p)
  BY <1>7 DEF Own
<1>9. \A u \in Txns : pc'[u] = "write" => u = t
  BY DEF Draw, Goto, LockHeld, TypeOK
<1>10. drawn'[t] = Format(date[t], n)
  BY <1>1 DEF TypeOK
<1>11. DrawnFollows'
  BY <1>3, <1>6, <1>7, <1>8, <1>9, <1>10 DEF DrawnFollows, Format
<1>12. CounterIsReached' /\ Consecutive'
  BY <1>7, <1>8 DEF Unedited, CounterIsReached, Consecutive
<1> QED BY <1>7, <1>11, <1>12 DEF Unedited

(* A number all before which were given out lengthens their run by one at most. *)
LEMMA RunGrows ==
  ASSUME NEW m \in Nat, NEW n \in Nat, n >= 1, \A k \in 1..(n - 1) : k \in 1..m
  PROVE  \E l \in Nat : (1..m) \cup {n} = 1..l
<1>1. n <= m + 1
  <2>1. CASE n = 1
    BY <2>1
  <2>2. CASE n # 1
    <3>1. n - 1 \in 1..(n - 1)
      BY <2>2
    <3> QED BY <3>1
  <2> QED BY <2>1, <2>2
<1>2. CASE n <= m
  BY <1>2
<1>3. CASE n = m + 1
  <2>1. (1..m) \cup {n} = 1..(m + 1)
    BY <1>3
  <2> QED BY <2>1
<1> QED BY <1>1, <1>2, <1>3

LEMMA CommitFollows ==
  ASSUME IInv, Unedited, NEW t \in Txns, Commit(t)
  PROVE  Unedited'
<1> TypeOK /\ LockHeld
  BY DEF IInv
<1> DEFINE n == drawn[t][2]
<1> DEFINE Apart == series.resets /\ series.shown
<1>1. /\ pc[t] = "write" /\ pc' = [pc EXCEPT ![t] = "done"] /\ issued' = issued \cup {drawn[t]}
      /\ date' = date /\ drawn' = drawn /\ editing' = editing
      /\ series' = IF Past(t) THEN series ELSE Counted(t)
  BY DEF Commit, CommitWith, Goto
<1>2. /\ series \in Series /\ series.next \in Nat /\ series.last \in 0..MaxPeriod /\ date[t] \in Periods
      /\ drawn[t] \in Numbers /\ n \in Nat
  BY DEF TypeOK, Series, Numbers
<1>3. /\ drawn[t][1] = (IF series.shown THEN date[t] ELSE 0) /\ n >= 1
      /\ \A k \in 1..(n - 1) : k \in Own(date[t])
  BY <1>1 DEF Unedited, DrawnFollows
<1>4. series'.resets = series.resets /\ series'.shown = series.shown
  BY <1>1, <1>2 DEF Counted, Series
<1>5. ASSUME NEW p \in Periods PROVE Own(p)' = IF p = date[t] \/ ~Apart THEN Own(p) \cup {n} ELSE Own(p)
  <2>1. Own(p)' = {x[2] : x \in {y \in issued \cup {drawn[t]} : y[1] = p \/ ~Apart}}
    BY <1>1, <1>4 DEF Own
  <2>2. CASE p = date[t] \/ ~Apart
    BY <1>3, <2>1, <2>2 DEF Own
  <2>3. CASE ~(p = date[t] \/ ~Apart)
    BY <1>3, <2>1, <2>3 DEF Own
  <2> QED BY <2>2, <2>3
<1>6. \A p \in Periods : p = date[t] \/ ~Apart => Own(p) = Own(date[t])
  BY OwnIsShared
<1>7. Consecutive'
  <2> SUFFICES ASSUME NEW p \in Periods PROVE \E l \in Nat : Own(p)' = 1..l
    BY DEF Consecutive
  <2>1. PICK m \in Nat : Own(p) = 1..m
    BY DEF Unedited, Consecutive
  <2>2. CASE p = date[t] \/ ~Apart
    <3>1. \A k \in 1..(n - 1) : k \in 1..m
      BY <1>3, <1>6, <2>1, <2>2
    <3>2. PICK l \in Nat : (1..m) \cup {n} = 1..l
      BY <1>2, <1>3, <3>1, RunGrows
    <3> QED BY <1>5, <2>1, <2>2, <3>2
  <2>3. CASE ~(p = date[t] \/ ~Apart)
    BY <1>5, <2>1, <2>3
  <2> QED BY <2>2, <2>3
<1>8. \A p \in Periods : p = date[t] \/ ~Apart => \A k \in 1..n : k \in Own(p)'
  <2> SUFFICES ASSUME NEW p \in Periods, p = date[t] \/ ~Apart, NEW k \in 1..n PROVE k \in Own(p)'
    OBVIOUS
  <2>1. Own(p)' = Own(date[t]) \cup {n}
    BY <1>5, <1>6
  <2> QED BY <1>2, <1>3, <2>1
<1>9. CounterIsReached'
  <2>1. CASE Past(t)
    <3>1. series' = series
      BY <1>1, <2>1
    <3>2. \A p \in Periods : Own(p) \subseteq Own(p)'
      BY <1>5
    <3> QED BY <3>1, <3>2 DEF Unedited, CounterIsReached
  <2>2. CASE ~Past(t)
    <3>1. series'.next = n + 1
      BY <1>1, <1>2, <2>2 DEF Counted, Series
    <3>2. series'.last = IF series.resets /\ (series.last = 0 \/ Later(t)) THEN date[t] ELSE series.last
      BY <1>1, <1>2, <2>2 DEF Counted, Series
    <3>3. series.resets => series'.last = date[t]
      BY <1>2, <2>2, <3>2 DEF Past, Later, Periods
    <3>4. series.resets => series'.last # 0
      BY <1>2, <3>3 DEF Periods
    <3>5. ASSUME NEW p \in Periods, ~series.resets \/ series'.last = p, NEW k \in 1..n PROVE k \in Own(p)'
      BY <1>8, <3>3, <3>5
    <3>6. series'.next - 1 = n /\ series'.next >= 1
      BY <1>2, <3>1
    <3> QED BY <1>4, <3>4, <3>5, <3>6 DEF CounterIsReached
  <2> QED BY <2>1, <2>2
<1>10. DrawnFollows'
  BY <1>1 DEF LockHeld, DrawnFollows, TypeOK
<1> QED BY <1>1, <1>7, <1>9, <1>10 DEF Unedited

LEMMA StepGapIInv == IInv /\ GapIInv /\ [Next]_vars => GapIInv'
<1> SUFFICES ASSUME IInv, GapIInv, [Next]_vars PROVE GapIInv'
  OBVIOUS
<1> TypeOK
  BY DEF IInv
<1>1. TakenIsIssued'
  BY TakenStays DEF GapIInv
<1> SUFFICES ASSUME saves' = 0 PROVE Unedited'
  BY <1>1 DEF GapIInv
<1>2. saves = 0
  BY DEF Next, vars, Begin, CheckInvoiceLimit, CheckCreditLimit, LockSeries, Draw, Exhausted, Commit, CommitWith,
     Rollback, Cancel, DeletePayment, EditSeries, SaveSeries, TypeOK
<1>3. Unedited /\ TakenIsIssued
  BY <1>2 DEF GapIInv
<1>4. ASSUME NEW t \in Txns, Draw(t) PROVE Unedited'
  BY <1>3, <1>4, DrawFollows
<1>5. ASSUME NEW t \in Txns, Commit(t) PROVE Unedited'
  BY <1>3, <1>5, CommitFollows
<1>6. ASSUME NEW t \in Txns, \/ Begin(t) \/ CheckInvoiceLimit(t) \/ CheckCreditLimit(t) \/ LockSeries(t)
                             \/ Exhausted(t) \/ Rollback(t) \/ Cancel(t) \/ DeletePayment(t)
      PROVE Unedited'
  <2>1. series' = series /\ issued' = issued /\ date' = date /\ drawn' = drawn /\ editing' = editing
    BY <1>6 DEF Begin, CheckInvoiceLimit, CheckCreditLimit, LockSeries, Exhausted, Rollback, Cancel, DeletePayment
  <2>2. \A u \in Txns : pc'[u] = "write" => pc[u] = "write"
    BY <1>6 DEF Begin, CheckInvoiceLimit, CheckCreditLimit, LockSeries, Exhausted, Rollback, Cancel, DeletePayment,
       Goto, TypeOK
  <2> QED BY <1>3, <2>1, <2>2, UneditedKept
<1>7. ~EditSeries
  BY <1>2 DEF EditSeries
<1>8. \A n, resets, shown : ~SaveSeries(n, resets, shown)
  BY <1>3 DEF SaveSeries, Unedited
<1>9. ASSUME UNCHANGED vars PROVE Unedited'
  BY <1>3, <1>9, UneditedKept DEF vars
<1> QED BY <1>4, <1>5, <1>6, <1>7, <1>8, <1>9 DEF Next

LEMMA InitGapIInv == Init => GapIInv
<1> SUFFICES ASSUME Init PROVE GapIInv
  OBVIOUS
<1>1. Kept = {} /\ issued = {}
  BY DEF Init, Kept
<1>2. \A p : Own(p) = {}
  BY <1>1 DEF Own
<1>3. \A p \in Periods : Own(p) = 1..0
  BY <1>2
<1>4. series.next = 1
  BY DEF Init
<1>5. CounterIsReached
  BY <1>4 DEF CounterIsReached
<1>6. DrawnFollows
  BY DEF Init, DrawnFollows
<1>7. Consecutive
  BY <1>3 DEF Consecutive
<1> QED BY <1>1, <1>5, <1>6, <1>7 DEF GapIInv, Unedited, TakenIsIssued, Taken, Init

(* Until somebody changes the series by hand its numbers are 1 to n, those of each period    *)
(* where it restarts and shows it, for any number of transactions and periods, also after    *)
(* rollbacks, cancellations and records of a past period (assignNumber under the row lock,   *)
(* in the transaction that writes the record).                                               *)
THEOREM NumbersHaveNoGap == Spec => []Gapless
<1>1. IInv /\ GapIInv => Gapless
  <2> SUFFICES ASSUME IInv, GapIInv, saves = 0, NEW I \in Runs
               PROVE  {x[2] : x \in I} = 1..Cardinality({x[2] : x \in I})
    BY DEF Gapless
  <2>1. PICK p \in Periods : {x[2] : x \in I} = Own(p)
    <3>1. CASE series.resets /\ series.shown
      <4>1. PICK p \in Periods : I = {x \in issued : x[1] = p}
        BY <3>1 DEF Runs
      <4> QED BY <3>1, <4>1 DEF Own
    <3>2. CASE ~(series.resets /\ series.shown)
      <4>1. I = issued /\ 1 \in Periods
        BY <3>2 DEF Runs, Periods
      <4>2. issued = {y \in issued : y[1] = 1 \/ ~(series.resets /\ series.shown)}
        BY <3>2
      <4> QED BY <4>1, <4>2 DEF Own
    <3> QED BY <3>1, <3>2
  <2>2. PICK m \in Nat : Own(p) = 1..m
    BY DEF GapIInv, Unedited, Consecutive
  <2>3. Cardinality(1..m) = m
    BY FS_Interval
  <2> QED BY <2>1, <2>2, <2>3
<1> QED BY <1>1, InitGapIInv, StepGapIInv, Invariance, PTL DEF Spec
=============================================================================
