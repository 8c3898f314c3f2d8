---------------------------- MODULE Documents_proofs ----------------------------
(***************************************************************************)
(* What is issued stays as it was issued, a decision falls on what was     *)
(* read, and the stock is what the documents moved, once each and never    *)
(* below zero, for any documents, requests and bounds.                     *)
(*                                                                         *)
(* An edit, a deletion and a decision write what they decided on a read    *)
(* made before their transaction began.  What protects them is the version:*)
(* every write raises it, so a row at the version read is the row that was *)
(* read.                                                                   *)
(***************************************************************************)
EXTENDS Documents, SumTheorems

(* A version counts the writes of a row that is there. *)
Numbered(x) ==
  IF x.status \in {"absent", "gone"} THEN x.version = 0 /\ x.approval = None ELSE x.version >= 1

Bounded ==
  /\ {MaxDay, MaxQty, MaxAsked} \subseteq Nat /\ MaxDay >= 1 /\ MaxQty >= 1
  /\ Given \in [DOMAIN Given -> Documents]
  /\ \A d \in DOMAIN Given : Given[d].status \notin {"absent", "gone"} /\ Numbered(Given[d])
  /\ Fresh \subseteq Kinds /\ Opening \in [Days -> Int]
  /\ Free \notin Requests /\ ShortCount \notin Docs

AllNumbered == \A d \in Docs : Numbered(doc[d])

(* Who decides or writes from what it read, and which row it read. *)
Reading == {"edit", "remove", "decide"}
Read(db, t) ==
  /\ t.d \in Docs /\ t.known.version >= 1
  /\ IF t.op = "decide" THEN t.known.approval = "pending" ELSE t.known.status = "draft"
  /\ db[t.d].version = t.known.version => db[t.d] = t.known
  /\ db[t.d].status = "gone" \/ db[t.d].version >= t.known.version
AsRead == \A r \in Requests : task[r].op \in Reading => Read(doc, task[r])

\* A transaction under way holds its row, which nobody deletes then.
Locking == {"issue", "issue stock", "issue write", "cancel stock", "cancel write"}
LockersAtWork ==
  /\ \A d \in Docs : rowLock[d] # Free => task[rowLock[d]].op \in Locking
  /\ itemLock # Free => task[itemLock].op \in {"issue write", "cancel write"}
  /\ \A r \in Requests :
       /\ task[r].op \in Locking \cup {"convert", "approved"} => D(r) \in Docs
       /\ task[r].op \in Locking => rowLock[D(r)] = r /\ doc[D(r)].status # "gone"

Typed ==
  /\ doc \in [Docs -> Documents] /\ task \in [Requests -> Tasks]
  /\ posted \in [Docs -> -MaxQty .. MaxQty] /\ counted \in [Days -> Int]
  /\ rowLock \in [Docs -> Requests \cup {Free}] /\ itemLock \in Requests \cup {Free}
  /\ noted \subseteq Docs \cup {ShortCount} /\ asked \in 0 .. MaxAsked

IInv == Typed /\ AllNumbered /\ AsRead /\ LockersAtWork

LEMMA AbsentTyped == ASSUME Bounded PROVE Absent \in Documents /\ Numbered(Absent) /\ Absent.version = 0
  BY DEF Bounded, Absent, Documents, Numbered, None, Docs, Days

LEMMA IdleTyped == ASSUME Bounded PROVE Idle \in Tasks /\ Idle.op = "none"
  BY AbsentTyped DEF Idle, Tasks, Steps

LEMMA InitIInv == ASSUME Bounded, Init PROVE IInv
<1>1. doc \in [Docs -> Documents] /\ AllNumbered
  BY AbsentTyped DEF Init, Bounded, AllNumbered
<1>2. posted \in [Docs -> -MaxQty .. MaxQty]
  <2>1. ASSUME NEW d \in Docs PROVE Sign(doc[d].kind) * doc[d].qty \in -MaxQty .. MaxQty
    <3>1. doc[d].qty \in 0 .. MaxQty /\ MaxQty \in Nat
      BY <1>1 DEF Documents, Bounded
    <3>2. Sign(doc[d].kind) \in {-1, 0, 1}
      BY DEF Sign
    <3> QED BY <3>1, <3>2
  <2> QED BY <2>1 DEF Init
<1>3. task \in [Requests -> Tasks] /\ \A r \in Requests : task[r].op = "none"
  BY IdleTyped DEF Init
<1>4. counted \in [Days -> Int] /\ rowLock \in [Docs -> Requests \cup {Free}] /\ itemLock \in Requests \cup {Free}
      /\ noted \subseteq Docs \cup {ShortCount} /\ asked \in 0 .. MaxAsked
  BY DEF Init, Bounded
<1>5. AsRead /\ LockersAtWork
  BY <1>3 DEF AsRead, LockersAtWork, Reading, Locking, Init
<1> QED BY <1>1, <1>2, <1>3, <1>4, <1>5 DEF IInv, Typed

-----------------------------------------------------------------------------
(* What a step must show of the rows, of its task, of its locks and of the rest *)

RowsFit ==
  /\ doc' \in [Docs -> Documents] /\ \A d \in Docs : Numbered(doc'[d])
  /\ \A r \in Requests : task[r].op \in Reading => Read(doc', task[r])
  /\ \A d \in Docs : rowLock[d] # Free /\ doc[d].status # "gone" => doc'[d].status # "gone"
TaskFits(t) ==
  /\ t \in Tasks
  /\ t.op \in Reading => Read(doc', t)
  /\ t.op \in Locking \cup {"convert", "approved"} => t.d \in Docs
LocksFit(r, t) ==
  /\ rowLock' \in [Docs -> Requests \cup {Free}] /\ itemLock' \in Requests \cup {Free}
  /\ \A d \in Docs : rowLock'[d] # Free =>
       IF rowLock'[d] = r THEN t.op \in Locking ELSE rowLock'[d] = rowLock[d]
  /\ \A d \in Docs : rowLock[d] \notin {Free, r} => rowLock'[d] = rowLock[d]
  /\ t.op \in Locking => rowLock'[t.d] = r /\ doc'[t.d].status # "gone"
  /\ itemLock' # Free => IF itemLock' = r THEN t.op \in {"issue write", "cancel write"} ELSE itemLock' = itemLock
RestFits ==
  /\ posted' \in [Docs -> -MaxQty .. MaxQty] /\ counted' \in [Days -> Int]
  /\ noted' \subseteq Docs \cup {ShortCount} /\ asked' \in 0 .. MaxAsked

LEMMA StepFits ==
  ASSUME Bounded, IInv, NEW r \in Requests, NEW t \in Tasks, task' = [task EXCEPT ![r] = t],
         RowsFit, TaskFits(t), LocksFit(r, t), RestFits
  PROVE  IInv'
<1>1. task \in [Requests -> Tasks]
  BY DEF IInv, Typed
<1>2. task' \in [Requests -> Tasks] /\ task'[r] = t /\ \A q \in Requests : q # r => task'[q] = task[q]
  BY <1>1
<1>3. Typed'
  BY <1>2 DEF Typed, Tasks, RowsFit, LocksFit, RestFits
<1>4. AllNumbered'
  BY DEF RowsFit, AllNumbered
<1>5. AsRead'
  BY <1>2 DEF AsRead, RowsFit, TaskFits
<1>6. LockersAtWork'
  <2>1. \A d \in Docs : rowLock'[d] \in Requests \cup {Free}
    BY DEF LocksFit
  <2>2. \A d \in Docs : rowLock[d] # Free => task[rowLock[d]].op \in Locking
    BY DEF IInv, LockersAtWork
  <2>3. ASSUME NEW d \in Docs, rowLock'[d] # Free PROVE task'[rowLock'[d]].op \in Locking
    <3>1. CASE rowLock'[d] = r
      BY <1>2, <2>3, <3>1 DEF LocksFit
    <3>2. CASE rowLock'[d] # r
      <4>1. rowLock'[d] = rowLock[d] /\ rowLock'[d] \in Requests
        BY <2>1, <2>3, <3>2 DEF LocksFit
      <4> QED BY <1>2, <2>2, <2>3, <3>2, <4>1
    <3> QED BY <3>1, <3>2
  <2>4. ASSUME itemLock' # Free PROVE task'[itemLock'].op \in {"issue write", "cancel write"}
    <3>1. CASE itemLock' = r
      BY <1>2, <2>4, <3>1 DEF LocksFit
    <3>2. CASE itemLock' # r
      <4>1. itemLock' = itemLock /\ itemLock' \in Requests
        BY <2>4, <3>2 DEF LocksFit
      <4>2. task[itemLock].op \in {"issue write", "cancel write"}
        BY <2>4, <4>1 DEF IInv, LockersAtWork
      <4> QED BY <1>2, <3>2, <4>1, <4>2
    <3> QED BY <3>1, <3>2
  <2>5. \A q \in Requests : task'[q].op \in Locking \cup {"convert", "approved"} => task'[q].d \in Docs
    BY <1>2 DEF IInv, LockersAtWork, TaskFits, D
  <2>6. ASSUME NEW q \in Requests, task'[q].op \in Locking PROVE rowLock'[task'[q].d] = q /\ doc'[task'[q].d].status # "gone"
    <3>1. CASE q = r
      BY <1>2, <2>6, <3>1 DEF LocksFit
    <3>2. CASE q # r
      <4>1. task'[q] = task[q] /\ task[q].d \in Docs /\ rowLock[task[q].d] = q /\ doc[task[q].d].status # "gone"
        BY <1>2, <2>6, <3>2 DEF IInv, LockersAtWork, D
      <4>2. q # Free
        BY DEF Bounded
      <4> QED BY <3>2, <4>1, <4>2 DEF LocksFit, RowsFit
    <3> QED BY <3>1, <3>2
  <2> QED BY <2>3, <2>4, <2>5, <2>6 DEF LockersAtWork, D
<1> QED BY <1>3, <1>4, <1>5, <1>6 DEF IInv

(* A request that holds nothing, before and after. *)
LEMMA NothingHeld ==
  ASSUME IInv, NEW r \in Requests, NEW t, {task[r].op, t.op} \cap Locking = {}, UNCHANGED <<rowLock, itemLock>>
  PROVE  LocksFit(r, t)
  BY DEF IInv, Typed, LockersAtWork, LocksFit, Locking

(* One that goes on from holding the row to holding the row, and one that lets everything go. *)
LEMMA Holding ==
  ASSUME IInv, NEW r \in Requests, NEW t, {task[r].op, t.op} \subseteq Locking, t.d = D(r), doc' = doc, rowLock' = rowLock,
         itemLock' = r /\ t.op \in {"issue write", "cancel write"}
  PROVE  LocksFit(r, t)
  BY DEF IInv, Typed, LockersAtWork, LocksFit

LEMMA LettingGo ==
  ASSUME Bounded, IInv, NEW r \in Requests, NEW t, t.op \notin Locking, Unlocks(r)
  PROVE  LocksFit(r, t)
<1>1. rowLock' = [d \in Docs |-> IF rowLock[d] = r THEN Free ELSE rowLock[d]] /\ itemLock' = IF itemLock = r THEN Free ELSE itemLock
  BY DEF Unlocks, Lets
<1>2. rowLock \in [Docs -> Requests \cup {Free}] /\ itemLock \in Requests \cup {Free} /\ r # Free
  BY DEF IInv, Typed, Bounded
<1> QED BY <1>1, <1>2 DEF LocksFit

LEMMA RowsStay ==
  ASSUME IInv, doc' = doc
  PROVE  RowsFit
  BY DEF IInv, Typed, AllNumbered, AsRead, RowsFit

(* A write raises the version, or leaves nothing: who read before it will find it has. *)
LEMMA RowWritten ==
  ASSUME IInv, NEW d \in Docs, NEW x \in Documents, Numbered(x), doc[d].status # "gone",
         IF x.status = "gone" THEN rowLock[d] = Free ELSE x.version = doc[d].version + 1, doc' = [doc EXCEPT ![d] = x]
  PROVE  RowsFit
<1>1. doc \in [Docs -> Documents] /\ task \in [Requests -> Tasks]
  BY DEF IInv, Typed
<1>2. doc' \in [Docs -> Documents] /\ doc'[d] = x /\ \A e \in Docs : e # d => doc'[e] = doc[e]
  BY <1>1
<1>3. \A e \in Docs : Numbered(doc'[e])
  BY <1>2 DEF IInv, AllNumbered
<1>4. ASSUME NEW r \in Requests, task[r].op \in Reading PROVE Read(doc', task[r])
  <2> DEFINE k == task[r].known
             e == task[r].d
  <2>1. Read(doc, task[r])
    BY <1>4 DEF IInv, AsRead
  <2>2. CASE e # d
    <3>1. doc'[e] = doc[e]
      BY <1>2, <2>1, <2>2 DEF Read
    <3> QED BY <2>1, <3>1 DEF Read
  <2>3. CASE e = d
    <3>1. k.version \in Nat /\ doc[d].version \in Nat /\ x.version \in Nat
      BY <1>1 DEF Tasks, Documents
    <3>2. k.version >= 1 /\ doc[d].version >= k.version
      BY <2>1, <2>3 DEF Read
    <3>3. x.version # k.version /\ (x.status = "gone" \/ x.version >= k.version)
      BY <3>1, <3>2 DEF Numbered
    <3> QED BY <1>2, <2>1, <2>3, <3>3 DEF Read
  <2> QED BY <2>2, <2>3
<1>5. \A e \in Docs : rowLock[e] # Free /\ doc[e].status # "gone" => doc'[e].status # "gone"
  BY <1>2
<1> QED BY <1>2, <1>3, <1>4, <1>5 DEF RowsFit

LEMMA WritesRow ==
  ASSUME IInv, NEW d \in Docs, NEW x \in Documents, x.status \notin {"absent", "gone"}, doc[d].status # "gone", Writes(d, x)
  PROVE  RowsFit
<1> DEFINE y == [x EXCEPT !.version = doc[d].version + 1]
<1>1. doc[d] \in Documents
  BY DEF IInv, Typed
<1>2. y \in Documents /\ y.version = doc[d].version + 1 /\ y.version >= 1 /\ y.status = x.status
  BY <1>1 DEF Documents
<1>3. Numbered(y)
  BY <1>2 DEF Numbered
<1>4. doc' = [doc EXCEPT ![d] = y]
  BY DEF Writes
<1> HIDE DEF y
<1> QED BY <1>2, <1>3, <1>4, RowWritten

LEMMA RestStays == ASSUME IInv, UNCHANGED <<posted, counted, noted>>, asked' \in 0 .. MaxAsked PROVE RestFits
  BY DEF IInv, Typed, RestFits

LEMMA AskedOnce == ASSUME Bounded, IInv, asked < MaxAsked, asked' = asked + 1 PROVE asked' \in 0 .. MaxAsked
  BY DEF IInv, Typed, Bounded

LEMMA IdleFits == ASSUME Bounded PROVE TaskFits(Idle)
  BY IdleTyped DEF TaskFits, Reading, Locking

-----------------------------------------------------------------------------
(* The steps *)

LEMMA NobodyActs ==
  ASSUME Bounded, IInv, RowsFit, RestFits, UNCHANGED <<task, rowLock, itemLock>>
  PROVE  IInv'
<1>1. Typed'
  BY DEF IInv, Typed, RowsFit, RestFits, Tasks
<1>2. AllNumbered' /\ AsRead'
  BY DEF RowsFit, AllNumbered, AsRead
<1>3. LockersAtWork'
  <2>1. ASSUME NEW r \in Requests, task[r].op \in Locking PROVE rowLock[D(r)] = r /\ doc'[D(r)].status # "gone"
    <3>1. D(r) \in Docs /\ rowLock[D(r)] = r /\ doc[D(r)].status # "gone" /\ r # Free
      BY <2>1 DEF IInv, LockersAtWork, Bounded
    <3> QED BY <3>1 DEF RowsFit
  <2> QED BY <2>1 DEF IInv, LockersAtWork, D
<1> QED BY <1>1, <1>2, <1>3 DEF IInv

LEMMA Makes ==
  ASSUME Bounded, IInv, NEW n \in New, NEW kind \in Fresh, NEW q \in 1 .. MaxQty, NEW t \in Days, Create(n, kind, q, t)
  PROVE  IInv'
<1> DEFINE x == [Absent EXCEPT !.kind = kind, !.status = "draft", !.qty = q, !.date = t]
<1>1. n \in Docs /\ kind \in Kinds /\ q \in 0 .. MaxQty
  BY DEF Docs, Bounded
<1>2. x \in Documents /\ x.status = "draft"
  BY <1>1, AbsentTyped DEF Documents
<1>3. doc[n].status # "gone"
  BY DEF Create, Absent
<1>4. RowsFit
  BY <1>1, <1>2, <1>3, WritesRow DEF Create
<1>5. RestFits
  BY RestStays, AskedOnce DEF Create, Keeps
<1> QED BY <1>4, <1>5, NobodyActs DEF Create, Keeps

LEMMA Closes ==
  ASSUME Bounded, IInv, NEW d \in Docs, Close(d)
  PROVE  IInv'
<1> DEFINE x == [doc[d] EXCEPT !.status = "closed"]
<1>1. doc[d] \in Documents /\ doc[d].status = "final"
  BY DEF IInv, Typed, Close, MayClose
<1>2. x \in Documents /\ x.status = "closed"
  BY <1>1 DEF Documents
<1>3. RowsFit
  BY <1>1, <1>2, WritesRow DEF Close
<1>4. RestFits
  BY RestStays, AskedOnce DEF Close, Keeps
<1> QED BY <1>3, <1>4, NobodyActs DEF Close, Keeps

LEMMA Adjusts ==
  ASSUME Bounded, IInv, NEW t \in Days, NEW q \in {-1, 1}, AdjustStock(t, q)
  PROVE  IInv'
<1>1. RowsFit
  BY RowsStay DEF AdjustStock
<1>2. counted' \in [Days -> Int]
  BY DEF IInv, Typed, AdjustStock
<1>3. noted' \subseteq Docs \cup {ShortCount}
  BY DEF IInv, Typed, AdjustStock
<1>4. RestFits
  BY <1>2, <1>3, AskedOnce DEF IInv, Typed, AdjustStock, RestFits
<1> QED BY <1>1, <1>4, NobodyActs DEF AdjustStock

(* A document is read, to be written or copied later. *)
LEMMA Looked ==
  ASSUME Bounded, IInv, NEW r \in Requests, NEW d \in Docs,
         NEW op \in {"convert", "edit", "remove", "decide"}, NEW to \in Kinds \cup {None},
         Begins(r, Seen(op, d, to)),
         op \in {"edit", "remove"} => doc[d].status = "draft", op = "decide" => doc[d].approval = "pending",
         Keeps, doc' = doc
  PROVE  IInv'
<1> DEFINE t == Seen(op, d, to)
<1>1. doc[d] \in Documents /\ Numbered(doc[d])
  BY DEF IInv, Typed, AllNumbered
<1>2. t \in Tasks /\ t.op = op /\ t.d = d /\ t.known = doc[d]
  BY <1>1, IdleTyped DEF Tasks, Steps, Seen
<1>3. op \in Reading => Read(doc, t)
  <2>1. op \in Reading => doc[d].status \notin {"absent", "gone"}
    BY <1>1 DEF Numbered, Reading, None
  <2>2. op \in Reading => doc[d].version >= 1
    BY <1>1, <2>1 DEF Numbered
  <2>3. doc[d].version >= doc[d].version
    BY <1>1 DEF Documents
  <2> QED BY <1>2, <2>2, <2>3 DEF Read, Reading
<1>4. TaskFits(t)
  BY <1>2, <1>3 DEF TaskFits
<1>5. task' = [task EXCEPT ![r] = t] /\ {task[r].op, t.op} \cap Locking = {}
  BY <1>2, IdleTyped DEF Begins, Locking
<1>6. RestFits
  BY RestStays, AskedOnce DEF Begins, Keeps
<1> HIDE DEF t
<1>7. LocksFit(r, t)
  BY <1>5, NothingHeld DEF Keeps
<1> QED BY <1>2, <1>4, <1>5, <1>6, <1>7, RowsStay, StepFits

LEMMA Looks ==
  ASSUME Bounded, IInv, NEW r \in Requests, NEW d \in Docs,
         \/ \E to \in Conversions(doc[d].kind) : ReadToConvert(r, d, to)
         \/ ReadToEdit(r, d) \/ ReadToRemove(r, d) \/ ReadToDecide(r, d)
  PROVE  IInv'
<1>1. ASSUME NEW to \in Conversions(doc[d].kind), ReadToConvert(r, d, to) PROVE IInv'
  <2>1. to \in Kinds
    BY <1>1 DEF Conversions, Kinds
  <2> QED BY <1>1, <2>1, Looked DEF ReadToConvert
<1>2. CASE ReadToEdit(r, d)
  BY <1>2, Looked DEF ReadToEdit
<1>3. CASE ReadToRemove(r, d)
  BY <1>3, Looked DEF ReadToRemove
<1>4. CASE ReadToDecide(r, d)
  BY <1>4, Looked DEF ReadToDecide
<1> QED BY <1>1, <1>2, <1>3, <1>4

(* A request that holds no lock ends, having written a row or none. *)
LEMMA EndsFree ==
  ASSUME Bounded, IInv, NEW r \in Requests, task[r].op \notin Locking, Ends(r), RowsFit, RestFits,
         UNCHANGED <<rowLock, itemLock>>
  PROVE  IInv'
<1>1. {task[r].op, Idle.op} \cap Locking = {}
  BY IdleTyped DEF Locking
<1> QED BY <1>1, IdleTyped, IdleFits, NothingHeld, StepFits DEF Ends

LEMMA RestKept == ASSUME IInv, Keeps, UNCHANGED asked PROVE RestFits
  BY DEF IInv, Typed, Keeps, RestFits

LEMMA Copies ==
  ASSUME Bounded, IInv, NEW r \in Requests, NEW n \in New, InsertCopy(r, n)
  PROVE  IInv'
<1> DEFINE t == task[r]
           x == [Absent EXCEPT !.kind = t.to, !.status = "draft", !.src = t.d, !.qty = t.known.qty, !.date = MaxDay]
<1>1. n \in Docs /\ t \in Tasks /\ t.op = "convert" /\ t.d \in Docs
  BY DEF Docs, IInv, Typed, InsertCopy, Is, LockersAtWork, D
<1>2. MaxDay \in Days
  BY DEF Bounded, Days
<1>3. t.to \in Kinds \cup {None} /\ t.known.qty \in 0 .. MaxQty
  BY <1>1 DEF Tasks, Documents
<1>4. x \in Documents /\ x.status = "draft"
  BY <1>1, <1>2, <1>3, AbsentTyped DEF Documents
<1>5. doc[n].status # "gone"
  BY DEF InsertCopy, Absent
<1>6. Writes(n, x)
  BY DEF InsertCopy
<1>7. RowsFit
  BY <1>1, <1>4, <1>5, <1>6, WritesRow
<1>8. noted' \subseteq Docs \cup {ShortCount}
  BY <1>1 DEF InsertCopy, IInv, Typed
<1>9. RestFits
  BY <1>8 DEF IInv, Typed, InsertCopy, RestFits
<1> QED BY <1>1, <1>7, <1>9, EndsFree DEF InsertCopy, Locking

(* A row at the version that was read is the row that was read. *)
LEMMA Unchanged ==
  ASSUME IInv, NEW r \in Requests, task[r].op \in Reading, ~Unread(r)
  PROVE  /\ D(r) \in Docs /\ doc[D(r)] = task[r].known /\ doc[D(r)] \in Documents
         /\ doc[D(r)].status \notin {"absent", "gone"}
         /\ IF task[r].op = "decide" THEN doc[D(r)].approval = "pending" ELSE doc[D(r)].status = "draft"
<1>1. Read(doc, task[r])
  BY DEF IInv, AsRead
<1>2. D(r) \in Docs /\ doc[D(r)] = task[r].known /\ doc[D(r)].version >= 1
  BY <1>1 DEF Read, Unread, D
<1>3. doc[D(r)] \in Documents /\ Numbered(doc[D(r)])
  BY <1>2 DEF IInv, Typed, AllNumbered
<1>4. doc[D(r)].status \notin {"absent", "gone"}
  BY <1>2, <1>3 DEF Numbered
<1> QED BY <1>1, <1>2, <1>3, <1>4 DEF Read

LEMMA Edits ==
  ASSUME Bounded, IInv, NEW r \in Requests, NEW q \in 1 .. MaxQty, NEW t \in Days, WriteEdit(r, q, t)
  PROVE  IInv'
<1> DEFINE x == [doc[D(r)] EXCEPT !.qty = q, !.date = t]
<1>1. task[r].op = "edit" /\ ~Unread(r) /\ Writes(D(r), x) /\ Ends(r) /\ Keeps /\ asked' = asked
  BY DEF WriteEdit, Is
<1>2. D(r) \in Docs /\ doc[D(r)] \in Documents /\ doc[D(r)].status = "draft"
  BY <1>1, Unchanged DEF Reading
<1>3. x \in Documents /\ x.status = "draft"
  <2>1. q \in 0 .. MaxQty
    BY DEF Bounded
  <2> QED BY <1>2, <2>1 DEF Documents
<1>4. RowsFit
  BY <1>1, <1>2, <1>3, WritesRow
<1> QED BY <1>1, <1>4, RestKept, EndsFree DEF Keeps, Locking

LEMMA Deletes ==
  ASSUME Bounded, IInv, NEW r \in Requests, Delete(r)
  PROVE  IInv'
<1> DEFINE x == [Absent EXCEPT !.status = "gone"]
<1>1. task[r].op = "remove" /\ rowLock[D(r)] = Free /\ ~Unread(r) /\ Ends(r) /\ Keeps /\ asked' = asked /\ doc' = [doc EXCEPT ![D(r)] = x]
  BY DEF Delete, Is
<1>2. D(r) \in Docs /\ doc[D(r)].status = "draft"
  BY <1>1, Unchanged DEF Reading
<1>3. x \in Documents /\ x.status = "gone" /\ Numbered(x)
  BY AbsentTyped DEF Documents, Numbered, Absent
<1> HIDE DEF x
<1>4. RowsFit
  BY <1>1, <1>2, <1>3, RowWritten
<1> QED BY <1>1, <1>4, RestKept, EndsFree DEF Keeps, Locking

(* A request goes on from a step that locks nothing to another. *)
LEMMA GoesOn ==
  ASSUME Bounded, IInv, NEW r \in Requests, NEW t \in Tasks, task' = [task EXCEPT ![r] = t],
         {task[r].op, t.op} \cap Locking = {}, RowsFit, TaskFits(t), Keeps, asked' = asked
  PROVE  IInv'
  BY RestKept, NothingHeld, StepFits DEF Keeps

LEMMA Decides ==
  ASSUME Bounded, IInv, NEW r \in Requests, NEW verdict \in {"approved", "rejected"}, Decide(r, verdict)
  PROVE  IInv'
<1> DEFINE x == [doc[D(r)] EXCEPT !.approval = verdict]
           t == [task[r] EXCEPT !.op = "approved"]
<1>1. task[r].op = "decide" /\ ~Unread(r) /\ Writes(D(r), x) /\ Keeps /\ asked' = asked
  BY DEF Decide, Is
<1>2. D(r) \in Docs /\ doc[D(r)] \in Documents /\ doc[D(r)].status \notin {"absent", "gone"}
  BY <1>1, Unchanged DEF Reading
<1>3. x \in Documents /\ x.status = doc[D(r)].status
  BY <1>2 DEF Documents
<1>4. RowsFit
  BY <1>1, <1>2, <1>3, WritesRow
<1>5. CASE verdict = "approved"
  <2>1. task[r] \in Tasks
    BY DEF IInv, Typed
  <2>2. t \in Tasks /\ t.op = "approved" /\ t.d \in Docs
    BY <1>2, <2>1 DEF Tasks, Steps, D
  <2>3. TaskFits(t)
    BY <2>2 DEF TaskFits, Reading
  <2>4. task' = [task EXCEPT ![r] = t]
    BY <1>5 DEF Decide
  <2> QED BY <1>1, <1>4, <2>2, <2>3, <2>4, GoesOn DEF Locking
<1>6. CASE verdict # "approved"
  BY <1>1, <1>4, <1>6, RestKept, EndsFree DEF Decide, Keeps, Locking
<1> QED BY <1>5, <1>6

(* A request finds it was overtaken, or that there is no draft left to issue. *)
LEMMA GivesUp ==
  ASSUME Bounded, IInv, NEW r \in Requests, Overtaken(r) \/ NoDraftLeft(r)
  PROVE  IInv'
<1>1. task[r].op \notin Locking /\ Ends(r) /\ Keeps /\ doc' = doc /\ asked' = asked
  BY DEF Overtaken, NoDraftLeft, Is, Locking
<1> QED BY <1>1, RowsStay, RestKept, EndsFree DEF Keeps

LEMMA AtWork ==
  ASSUME NEW t \in Tasks, t.op \in Locking, t.d \in Docs
  PROVE  TaskFits(t)
  BY DEF TaskFits, Locking, Reading

(* The row is taken: finalizeDraft, or a cancellation. *)
LEMMA Takes ==
  ASSUME Bounded, IInv, NEW r \in Requests, NEW d \in Docs, NEW t \in Tasks, t.op \in Locking, t.d = d,
         task' = [task EXCEPT ![r] = t], rowLock' = [rowLock EXCEPT ![d] = r],
         task[r].op \notin Locking, rowLock[d] = Free, doc[d].status # "gone", UNCHANGED <<doc, itemLock>>, RestFits
  PROVE  IInv'
<1>1. rowLock \in [Docs -> Requests \cup {Free}] /\ itemLock \in Requests \cup {Free}
  BY DEF IInv, Typed
<1>2. rowLock' \in [Docs -> Requests \cup {Free}]
  BY <1>1
<1>3. \A e \in Docs : rowLock'[e] # Free => IF rowLock'[e] = r THEN t.op \in Locking ELSE rowLock'[e] = rowLock[e]
  BY <1>1
<1>4. itemLock # Free => itemLock # r
  BY DEF IInv, LockersAtWork, Locking
<1>5. rowLock'[t.d] = r /\ \A e \in Docs : rowLock[e] \notin {Free, r} => rowLock'[e] = rowLock[e]
  BY <1>1
<1>6. LocksFit(r, t)
  BY <1>1, <1>2, <1>3, <1>4, <1>5 DEF LocksFit
<1> QED BY <1>6, AtWork, RowsStay, StepFits

LEMMA TakesDraft ==
  ASSUME Bounded, IInv, NEW r \in Requests, NEW d \in Docs, NEW staff \in BOOLEAN, TakeDraft(r, d, staff),
         task[r].op \notin Locking, RestFits
  PROVE  IInv'
<1>1. doc[d] \in Documents /\ doc[d].status = "draft"
  BY DEF IInv, Typed, TakeDraft
<1>2. CASE NeedsApproval(doc[d], staff)
  <2> DEFINE x == [doc[d] EXCEPT !.approval = "pending"]
  <2>1. x \in Documents /\ x.status = "draft"
    BY <1>1 DEF Documents
  <2>2. Writes(d, x) /\ Ends(r) /\ UNCHANGED <<rowLock, itemLock>>
    BY <1>2 DEF TakeDraft
  <2>3. RowsFit
    BY <1>1, <2>1, <2>2, WritesRow
  <2> QED BY <2>2, <2>3, EndsFree
<1>3. CASE ~NeedsApproval(doc[d], staff)
  <2> DEFINE op == IF doc[d].kind \in Returns THEN "issue" ELSE "issue stock"
             t == [Idle EXCEPT !.op = op, !.d = d, !.staff = staff, !.moved = MovedUpstream(d)]
  <2>1. MovedUpstream(d) \in BOOLEAN
    BY Zenon DEF MovedUpstream
  <2>2. op \in Steps /\ op \in Locking
    BY DEF Steps, Locking
  <2> HIDE DEF op
  <2>3. t \in Tasks /\ t.op = op /\ t.d = d
    BY <2>1, <2>2, IdleTyped DEF Tasks
  <2>4. task' = [task EXCEPT ![r] = t] /\ rowLock' = [rowLock EXCEPT ![d] = r] /\ UNCHANGED <<doc, itemLock>>
    BY <1>3 DEF TakeDraft, op
  <2>5. rowLock[d] = Free
    BY DEF TakeDraft
  <2> HIDE DEF t
  <2> QED BY <1>1, <2>2, <2>3, <2>4, <2>5, Takes
<1> QED BY <1>2, <1>3

LEMMA Finalizes ==
  ASSUME Bounded, IInv, NEW r \in Requests
  PROVE  /\ \A d \in Docs, staff \in BOOLEAN : FinalizeDocument(r, d, staff) => IInv'
         /\ FinalizeApproved(r) => IInv'
<1>1. ASSUME NEW d \in Docs, NEW staff \in BOOLEAN, FinalizeDocument(r, d, staff) PROVE IInv'
  <2>1. task[r].op \notin Locking
    BY <1>1, IdleTyped DEF FinalizeDocument, Locking
  <2>2. RestFits
    BY <1>1, RestStays, AskedOnce DEF FinalizeDocument, TakeDraft
  <2> QED BY <1>1, <2>1, <2>2, TakesDraft DEF FinalizeDocument
<1>2. ASSUME FinalizeApproved(r) PROVE IInv'
  <2>1. task[r].op = "approved" /\ D(r) \in Docs
    BY <1>2 DEF FinalizeApproved, Is, IInv, LockersAtWork
  <2>2. asked' \in 0 .. MaxAsked
    BY <1>2 DEF IInv, Typed, FinalizeApproved
  <2>3. RestFits
    BY <1>2, <2>2, RestStays DEF FinalizeApproved, TakeDraft
  <2> QED BY <1>2, <2>1, <2>3, TakesDraft DEF FinalizeApproved, Locking
<1> QED BY <1>1, <1>2

LEMMA Cancels ==
  ASSUME Bounded, IInv, NEW r \in Requests, NEW d \in Docs, Cancel(r, d)
  PROVE  IInv'
<1> DEFINE op == IF posted[d] > 0 THEN "cancel stock" ELSE "cancel write"
           t == [Idle EXCEPT !.op = op, !.d = d]
<1>1. op \in Steps /\ op \in Locking
  BY DEF Steps, Locking
<1> HIDE DEF op
<1>2. t \in Tasks /\ t.op = op /\ t.d = d
  BY <1>1, IdleTyped DEF Tasks
<1>3. task[r].op \notin Locking /\ task' = [task EXCEPT ![r] = t]
  BY IdleTyped DEF Cancel, Begins, Locking, op
<1>4. RestFits
  BY RestStays, AskedOnce DEF Cancel, Begins
<1>5. doc[d].status # "gone" /\ rowLock[d] = Free
  BY DEF Cancel, MayCancel
<1> HIDE DEF t
<1> QED BY <1>1, <1>2, <1>3, <1>4, <1>5, Takes DEF Cancel

(* A request lets go of what it locked, its document final, cancelled or as it was. *)
LEMMA LetsGo ==
  ASSUME Bounded, IInv, NEW r \in Requests, Ends(r), Unlocks(r), RowsFit, RestFits
  PROVE  IInv'
<1>1. Idle.op \notin Locking
  BY IdleTyped DEF Locking
<1> QED BY <1>1, IdleTyped, IdleFits, LettingGo, StepFits DEF Ends

LEMMA RollsBack ==
  ASSUME Bounded, IInv, NEW r \in Requests, Rollback(r)
  PROVE  IInv'
<1>1. asked' \in 0 .. MaxAsked
  BY DEF Rollback, IInv, Typed
<1> QED BY <1>1, RowsStay, RestStays, LetsGo DEF Rollback

LEMMA LocksSource ==
  ASSUME Bounded, IInv, NEW r \in Requests, LockSource(r)
  PROVE  IInv'
<1>1. task[r] \in Tasks /\ task[r].op = "issue" /\ D(r) \in Docs
  BY DEF LockSource, Is, IInv, Typed, LockersAtWork, Locking
<1>2. RowsFit /\ RestFits
  <2>1. asked' \in 0 .. MaxAsked
    BY DEF LockSource, IInv, Typed
  <2> QED BY <2>1, RowsStay, RestStays DEF LockSource
<1>3. itemLock' = itemLock /\ itemLock # r
  <2>1. itemLock # Free => itemLock # r
    BY <1>1 DEF IInv, LockersAtWork
  <2> QED BY <2>1 DEF LockSource, Bounded
<1>4. CASE Returnable(D(r))
  <2> DEFINE t == [task[r] EXCEPT !.op = "issue stock"]
             s == doc[D(r)].src
  <2>1. t \in Tasks /\ t.op \in Locking /\ t.d \in Docs
    BY <1>1 DEF Tasks, Steps, Locking, D
  <2>2. rowLock' = [rowLock EXCEPT ![s] = r] /\ task' = [task EXCEPT ![r] = t]
    BY <1>4 DEF LockSource
  <2>3. LocksFit(r, t)
    <3>1. rowLock \in [Docs -> Requests \cup {Free}] /\ itemLock \in Requests \cup {Free}
      BY DEF IInv, Typed
    <3>2. rowLock' \in [Docs -> Requests \cup {Free}]
      BY <2>2, <3>1
    <3>3. \A e \in Docs : rowLock'[e] = r \/ rowLock'[e] = rowLock[e]
      BY <2>2, <3>1
    <3>4. rowLock[s] = Free
      BY <1>4 DEF LockSource, Returnable
    <3>5. \A e \in Docs : rowLock[e] \notin {Free, r} => rowLock'[e] = rowLock[e]
      BY <2>2, <3>1, <3>4
    <3>6. rowLock[D(r)] = r /\ doc'[D(r)].status # "gone"
      BY <1>1 DEF IInv, LockersAtWork, Locking, LockSource
    <3>7. t.d = D(r)
      BY <1>1 DEF Tasks, D
    <3>8. rowLock'[t.d] = r /\ doc'[t.d].status # "gone"
      BY <1>1, <3>3, <3>6, <3>7
    <3> HIDE DEF t
    <3> QED BY <1>3, <2>1, <3>1, <3>2, <3>3, <3>5, <3>8 DEF LocksFit
  <2> HIDE DEF t
  <2> QED BY <1>2, <2>1, <2>2, <2>3, AtWork, StepFits
<1>5. CASE ~Returnable(D(r))
  <2>1. Ends(r) /\ Unlocks(r)
    BY <1>3, <1>5 DEF LockSource, Unlocks
  <2> QED BY <1>2, <2>1, LetsGo
<1> QED BY <1>4, <1>5

LEMMA HasItem ==
  ASSUME Bounded, IInv, NEW r \in Requests, task[r].op \in Locking, D(r) \in Docs,
         NEW op \in {"issue write", "cancel write"}, NEW short \in BOOLEAN,
         task' = [task EXCEPT ![r] = [@ EXCEPT !.op = op, !.short = short]],
         itemLock' = r, UNCHANGED <<doc, posted, counted, rowLock, noted, asked>>
  PROVE  IInv'
<1> DEFINE t == [task[r] EXCEPT !.op = op, !.short = short]
<1>1. task[r] \in Tasks
  BY DEF IInv, Typed
<1>2. t \in Tasks /\ t.op = op /\ t.d = D(r)
  BY <1>1 DEF Tasks, Steps, D
<1>3. task' = [task EXCEPT ![r] = t]
  OBVIOUS
<1> HIDE DEF t
<1>4. RowsFit /\ RestFits
  <2>1. asked' \in 0 .. MaxAsked
    BY DEF IInv, Typed
  <2> QED BY <2>1, RowsStay, RestStays
<1>5. LocksFit(r, t)
  BY <1>2, Holding DEF Locking
<1> QED BY <1>2, <1>3, <1>4, <1>5, AtWork, StepFits DEF Locking

LEMMA LocksItem ==
  ASSUME Bounded, IInv, NEW r \in Requests, LockItem(r) \/ LockItemBack(r)
  PROVE  IInv'
<1>1. task[r].op \in Locking /\ D(r) \in Docs
  BY DEF LockItem, LockItemBack, Is, IInv, Typed, LockersAtWork, Locking
<1>2. CASE LockItem(r)
  <2>1. Short(D(r)) \in BOOLEAN
    BY Zenon DEF Short
  <2> QED BY <1>1, <1>2, <2>1, HasItem DEF LockItem
<1>3. CASE LockItemBack(r)
  <2> DEFINE short == posted[D(r)] > Available(doc[D(r)].date)
  <2>1. short \in BOOLEAN
    OBVIOUS
  <2>2. /\ task' = [task EXCEPT ![r] = [@ EXCEPT !.op = "cancel write", !.short = short]]
        /\ itemLock' = r /\ UNCHANGED <<doc, posted, counted, rowLock, noted, asked>>
    BY <1>3 DEF LockItemBack
  <2> HIDE DEF short
  <2> QED BY <1>1, <2>1, <2>2, HasItem
<1> QED BY <1>2, <1>3

(* A row that is issued or cancelled is one that is there. *)
LEMMA MovesOn ==
  ASSUME Bounded, IInv, NEW r \in Requests, D(r) \in Docs, doc[D(r)].status # "gone", NEW st \in {"final", "cancelled"},
         Writes(D(r), [doc[D(r)] EXCEPT !.status = st])
  PROVE  RowsFit
<1> DEFINE x == [doc[D(r)] EXCEPT !.status = st]
<1>1. doc[D(r)] \in Documents
  BY DEF IInv, Typed
<1>2. x \in Documents /\ x.status = st
  BY <1>1 DEF Documents
<1> HIDE DEF x
<1>3. Writes(D(r), x)
  BY DEF x
<1> QED BY <1>2, <1>3, WritesRow

LEMMA IssuesIt ==
  ASSUME Bounded, IInv, NEW r \in Requests, IssueUnmoved(r) \/ Issue(r)
  PROVE  IInv'
<1>1. D(r) \in Docs /\ doc[D(r)].status # "gone"
  BY DEF IssueUnmoved, Issue, Is, IInv, LockersAtWork, Locking
<1>2. Writes(D(r), [doc[D(r)] EXCEPT !.status = "final"]) /\ Ends(r) /\ Unlocks(r)
  BY DEF IssueUnmoved, Issue, Issues
<1>3. RowsFit
  BY <1>1, <1>2, MovesOn
<1>4. posted' \in [Docs -> -MaxQty .. MaxQty]
  <2>1. CASE IssueUnmoved(r)
    BY <2>1 DEF IssueUnmoved, IInv, Typed
  <2>2. CASE Issue(r)
    <3>1. doc[D(r)].qty \in 0 .. MaxQty /\ MaxQty \in Nat
      BY <1>1 DEF IInv, Typed, Documents, Bounded
    <3>2. Sign(doc[D(r)].kind) \in {-1, 0, 1}
      BY DEF Sign
    <3>3. Sign(doc[D(r)].kind) * doc[D(r)].qty \in -MaxQty .. MaxQty
      BY <3>1, <3>2
    <3> QED BY <2>2, <3>3 DEF Issue, IInv, Typed
  <2> QED BY <2>1, <2>2
<1>5. counted' = counted /\ noted' = noted /\ asked' = asked
  BY DEF IssueUnmoved, Issue
<1>6. RestFits
  BY <1>4, <1>5 DEF IInv, Typed, RestFits
<1> QED BY <1>2, <1>3, <1>6, LetsGo

LEMMA Reverses ==
  ASSUME Bounded, IInv, NEW r \in Requests, Reverse(r)
  PROVE  IInv'
<1>1. D(r) \in Docs /\ doc[D(r)].status # "gone"
  BY DEF Reverse, Is, IInv, LockersAtWork, Locking
<1>2. Writes(D(r), [doc[D(r)] EXCEPT !.status = "cancelled"]) /\ Ends(r) /\ Unlocks(r)
  BY DEF Reverse
<1>3. RowsFit
  BY <1>1, <1>2, MovesOn
<1>4. posted' \in [Docs -> -MaxQty .. MaxQty]
  <2>1. posted' = [posted EXCEPT ![D(r)] = 0]
    BY DEF Reverse
  <2>2. 0 \in -MaxQty .. MaxQty
    BY DEF Bounded
  <2> QED BY <2>1, <2>2 DEF IInv, Typed
<1>5. counted' = counted /\ noted' = noted /\ asked' = asked
  BY DEF Reverse
<1>6. RestFits
  BY <1>4, <1>5 DEF IInv, Typed, RestFits
<1> QED BY <1>2, <1>3, <1>6, LetsGo

LEMMA NextIInv == ASSUME Bounded, IInv, [Next]_vars PROVE IInv'
<1>1. CASE \E n \in New, kind \in Fresh, q \in 1 .. MaxQty, t \in Days : Create(n, kind, q, t)
  BY <1>1, Makes
<1>2. CASE \E d \in Docs, t \in Days, q \in {-1, 1} : Close(d) \/ AdjustStock(t, q)
  BY <1>2, Closes, Adjusts
<1>3. ASSUME NEW r \in Requests, NEW d \in Docs,
             \/ \E to \in Conversions(doc[d].kind) : ReadToConvert(r, d, to)
             \/ ReadToEdit(r, d) \/ ReadToRemove(r, d) \/ ReadToDecide(r, d)
      PROVE  IInv'
  BY <1>3, Looks
<1>4. ASSUME NEW r \in Requests, NEW d \in Docs,
             Cancel(r, d) \/ \E staff \in BOOLEAN : FinalizeDocument(r, d, staff)
      PROVE  IInv'
  BY <1>4, Cancels, Finalizes
<1>5. ASSUME NEW r \in Requests, \E n \in New : InsertCopy(r, n) PROVE IInv'
  BY <1>5, Copies
<1>6. ASSUME NEW r \in Requests, \E q \in 1 .. MaxQty, t \in Days : WriteEdit(r, q, t) PROVE IInv'
  BY <1>6, Edits
<1>7. ASSUME NEW r \in Requests, \E verdict \in {"approved", "rejected"} : Decide(r, verdict) PROVE IInv'
  BY <1>7, Decides
<1>8. ASSUME NEW r \in Requests,
             \/ Delete(r) \/ Overtaken(r) \/ FinalizeApproved(r) \/ NoDraftLeft(r)
             \/ LockSource(r) \/ LockItem(r) \/ IssueUnmoved(r) \/ Issue(r)
             \/ LockItemBack(r) \/ Reverse(r) \/ Rollback(r)
      PROVE  IInv'
  BY <1>8, Deletes, GivesUp, Finalizes, LocksSource, LocksItem, IssuesIt, Reverses, RollsBack
<1>9. CASE UNCHANGED vars
  <2>1. RowsFit /\ RestFits
    <3>1. asked' \in 0 .. MaxAsked
      BY <1>9 DEF vars, IInv, Typed
    <3> QED BY <1>9, <3>1, RowsStay, RestStays DEF vars
  <2> QED BY <1>9, <2>1, NobodyActs DEF vars
<1> QED BY <1>1, <1>2, <1>3, <1>4, <1>5, <1>6, <1>7, <1>8, <1>9 DEF Next

(* Every variable keeps its type and every lock has a request at work for it, for any        *)
(* documents, requests and bounds (modules/documents/handlers.ts, lifecycle.ts).             *)
THEOREM TypeCorrect == ASSUME Bounded PROVE Spec => []TypeOK
<1>1. Init => IInv
  BY InitIInv
<1>2. IInv /\ [Next]_vars => IInv'
  BY NextIInv
<1>3. IInv => TypeOK
  BY DEF IInv, Typed, LockersAtWork, TypeOK, Locking
<1> QED BY <1>1, <1>2, <1>3, PTL DEF Spec

-----------------------------------------------------------------------------
(* What a step may do to what is issued, and how it may decide *)

Freezes ==
  \A d \in Docs : Finalized(doc[d]) =>
    Finalized(doc'[d]) /\ doc'[d].qty = doc[d].qty /\ doc'[d].date = doc[d].date
DecidesAsRead ==
  \A d \in Docs : doc'[d].approval # doc[d].approval /\ doc'[d].approval \in {"approved", "rejected"} =>
    /\ doc[d].approval = "pending"
    /\ \E r \in Requests : Is(r, "decide") /\ D(r) = d /\ task[r].known.qty = doc[d].qty /\ task[r].known.date = doc[d].date

LEMMA NoRowTouched == ASSUME doc' = doc PROVE Freezes /\ DecidesAsRead
  BY DEF Freezes, DecidesAsRead

LEMMA OneRowTouched ==
  ASSUME IInv, NEW d \in Docs, NEW x, doc' = [doc EXCEPT ![d] = x],
         Finalized(doc[d]) => Finalized(x) /\ x.qty = doc[d].qty /\ x.date = doc[d].date,
         \/ x.approval = doc[d].approval \/ x.approval \notin {"approved", "rejected"}
         \/ /\ doc[d].approval = "pending"
            /\ \E r \in Requests : Is(r, "decide") /\ D(r) = d /\ task[r].known = doc[d]
  PROVE  Freezes /\ DecidesAsRead
<1>1. doc'[d] = x /\ \A e \in Docs : e # d => doc'[e] = doc[e]
  BY DEF IInv, Typed
<1>2. Freezes
  BY <1>1 DEF Freezes
<1>3. DecidesAsRead
  BY <1>1 DEF DecidesAsRead
<1> QED BY <1>2, <1>3

(* A row that is not there yet, or that is moved on with what it says left as it is. *)
LEMMA NewRow ==
  ASSUME IInv, NEW n \in New, NEW x \in Documents, doc[n] = Absent, x.approval = None, Writes(n, x)
  PROVE  Freezes /\ DecidesAsRead
<1> DEFINE y == [x EXCEPT !.version = doc[n].version + 1]
<1>1. y.approval = None /\ n \in Docs /\ doc' = [doc EXCEPT ![n] = y]
  BY DEF Documents, Docs, Writes
<1>2. ~Finalized(doc[n])
  BY DEF Finalized, Absent
<1> HIDE DEF y
<1> QED BY <1>1, <1>2, OneRowTouched DEF None

LEMMA RowMoved ==
  ASSUME IInv, NEW d \in Docs, NEW st \in {"final", "closed", "cancelled"}, Writes(d, [doc[d] EXCEPT !.status = st])
  PROVE  Freezes /\ DecidesAsRead
<1> DEFINE y == [[doc[d] EXCEPT !.status = st] EXCEPT !.version = doc[d].version + 1]
<1>1. doc[d] \in Documents
  BY DEF IInv, Typed
<1>2. y.status = st /\ y.qty = doc[d].qty /\ y.date = doc[d].date /\ y.approval = doc[d].approval
  BY <1>1 DEF Documents
<1>3. doc' = [doc EXCEPT ![d] = y]
  BY DEF Writes
<1>4. Finalized(y)
  BY <1>2 DEF Finalized
<1> HIDE DEF y
<1> QED BY <1>2, <1>3, <1>4, OneRowTouched

LEMMA DraftWritten ==
  ASSUME Bounded, IInv, NEW r \in Requests,
         \/ \E q \in 1 .. MaxQty, t \in Days : WriteEdit(r, q, t)
         \/ Delete(r)
         \/ \E n \in New : InsertCopy(r, n)
  PROVE  Freezes /\ DecidesAsRead
<1>1. ASSUME NEW q \in 1 .. MaxQty, NEW t \in Days, WriteEdit(r, q, t) PROVE Freezes /\ DecidesAsRead
  <2> DEFINE y == [[doc[D(r)] EXCEPT !.qty = q, !.date = t] EXCEPT !.version = doc[D(r)].version + 1]
  <2>1. D(r) \in Docs /\ doc[D(r)] \in Documents /\ doc[D(r)].status = "draft"
    BY <1>1, Unchanged DEF WriteEdit, Is, Reading
  <2>2. y.approval = doc[D(r)].approval
    BY <2>1 DEF Documents
  <2>3. doc' = [doc EXCEPT ![D(r)] = y]
    BY <1>1 DEF WriteEdit, Writes
  <2>4. ~Finalized(doc[D(r)])
    BY <2>1 DEF Finalized
  <2> HIDE DEF y
  <2> QED BY <2>1, <2>2, <2>3, <2>4, OneRowTouched
<1>2. CASE Delete(r)
  <2> DEFINE y == [Absent EXCEPT !.status = "gone"]
  <2>1. D(r) \in Docs /\ doc[D(r)].status = "draft"
    BY <1>2, Unchanged DEF Delete, Is, Reading
  <2>2. y.approval = None
    BY DEF Absent
  <2>3. doc' = [doc EXCEPT ![D(r)] = y]
    BY <1>2 DEF Delete
  <2>4. ~Finalized(doc[D(r)])
    BY <2>1 DEF Finalized
  <2> HIDE DEF y
  <2> QED BY <2>1, <2>2, <2>3, <2>4, OneRowTouched DEF None
<1>3. ASSUME NEW n \in New, InsertCopy(r, n) PROVE Freezes /\ DecidesAsRead
  <2> DEFINE t == task[r]
             x == [Absent EXCEPT !.kind = t.to, !.status = "draft", !.src = t.d, !.qty = t.known.qty, !.date = MaxDay]
  <2>1. t \in Tasks /\ t.d \in Docs
    BY <1>3 DEF IInv, Typed, InsertCopy, Is, LockersAtWork, D
  <2>2. t.to \in Kinds \cup {None} /\ t.known.qty \in 0 .. MaxQty /\ MaxDay \in Days
    BY <2>1 DEF Tasks, Documents, Bounded, Days
  <2>3. x \in Documents /\ x.approval = None
    BY <2>1, <2>2, AbsentTyped DEF Documents, Absent
  <2>4. Writes(n, x) /\ doc[n] = Absent
    BY <1>3 DEF InsertCopy
  <2> HIDE DEF x
  <2> QED BY <2>3, <2>4, NewRow
<1> QED BY <1>1, <1>2, <1>3

LEMMA Decision ==
  ASSUME IInv, NEW r \in Requests, NEW verdict \in {"approved", "rejected"}, Decide(r, verdict)
  PROVE  Freezes /\ DecidesAsRead
<1> DEFINE y == [[doc[D(r)] EXCEPT !.approval = verdict] EXCEPT !.version = doc[D(r)].version + 1]
<1>1. /\ D(r) \in Docs /\ doc[D(r)] = task[r].known /\ doc[D(r)] \in Documents
      /\ doc[D(r)].approval = "pending"
  BY Unchanged DEF Decide, Is, Reading
<1>2. y.status = doc[D(r)].status /\ y.qty = doc[D(r)].qty /\ y.date = doc[D(r)].date
  BY <1>1 DEF Documents
<1>3. doc' = [doc EXCEPT ![D(r)] = y]
  BY DEF Decide, Writes
<1>4. Finalized(doc[D(r)]) => Finalized(y)
  BY <1>2 DEF Finalized
<1>5. Is(r, "decide")
  BY DEF Decide
<1> HIDE DEF y
<1> QED BY <1>1, <1>2, <1>3, <1>4, <1>5, OneRowTouched

LEMMA AskedFor ==
  ASSUME IInv, NEW r \in Requests, NEW d \in Docs, NEW staff, TakeDraft(r, d, staff)
  PROVE  Freezes /\ DecidesAsRead
<1>1. doc[d] \in Documents /\ ~Finalized(doc[d])
  BY DEF IInv, Typed, TakeDraft, Finalized
<1>2. CASE NeedsApproval(doc[d], staff)
  <2> DEFINE y == [[doc[d] EXCEPT !.approval = "pending"] EXCEPT !.version = doc[d].version + 1]
  <2>1. y.approval = "pending"
    BY <1>1 DEF Documents
  <2>2. doc' = [doc EXCEPT ![d] = y]
    BY <1>2 DEF TakeDraft, Writes
  <2> HIDE DEF y
  <2> QED BY <1>1, <2>1, <2>2, OneRowTouched
<1>3. CASE ~NeedsApproval(doc[d], staff)
  BY <1>3, NoRowTouched DEF TakeDraft
<1> QED BY <1>2, <1>3

LEMMA StepIsSound == ASSUME Bounded, IInv, [Next]_vars PROVE Freezes /\ DecidesAsRead
<1>1. ASSUME NEW n \in New, NEW kind \in Fresh, NEW q \in 1 .. MaxQty, NEW t \in Days, Create(n, kind, q, t)
      PROVE  Freezes /\ DecidesAsRead
  <2> DEFINE x == [Absent EXCEPT !.kind = kind, !.status = "draft", !.qty = q, !.date = t]
  <2>1. kind \in Kinds /\ q \in 0 .. MaxQty
    BY DEF Bounded
  <2>2. x \in Documents /\ x.approval = None
    BY <2>1, AbsentTyped DEF Documents, Absent
  <2>3. Writes(n, x) /\ doc[n] = Absent
    BY <1>1 DEF Create
  <2> HIDE DEF x
  <2> QED BY <2>2, <2>3, NewRow
<1>2. ASSUME NEW d \in Docs, Close(d) PROVE Freezes /\ DecidesAsRead
  BY <1>2, RowMoved DEF Close
<1>3. CASE \E t \in Days, q \in {-1, 1} : AdjustStock(t, q)
  BY <1>3, NoRowTouched DEF AdjustStock
<1>4. ASSUME NEW r \in Requests, NEW d \in Docs,
             \/ \E to \in Conversions(doc[d].kind) : ReadToConvert(r, d, to)
             \/ ReadToEdit(r, d) \/ ReadToRemove(r, d) \/ ReadToDecide(r, d) \/ Cancel(r, d)
      PROVE  Freezes /\ DecidesAsRead
  BY <1>4, NoRowTouched DEF ReadToConvert, ReadToEdit, ReadToRemove, ReadToDecide, Cancel
<1>5. ASSUME NEW r \in Requests, NEW d \in Docs, NEW staff \in BOOLEAN, FinalizeDocument(r, d, staff)
      PROVE  Freezes /\ DecidesAsRead
  BY <1>5, AskedFor DEF FinalizeDocument
<1>6. ASSUME NEW r \in Requests, FinalizeApproved(r) PROVE Freezes /\ DecidesAsRead
  <2>1. D(r) \in Docs
    BY <1>6 DEF FinalizeApproved, Is, IInv, LockersAtWork
  <2> QED BY <1>6, <2>1, AskedFor DEF FinalizeApproved
<1>7. ASSUME NEW r \in Requests,
             \/ \E q \in 1 .. MaxQty, t \in Days : WriteEdit(r, q, t)
             \/ Delete(r)
             \/ \E n \in New : InsertCopy(r, n)
      PROVE  Freezes /\ DecidesAsRead
  BY <1>7, DraftWritten
<1>8. ASSUME NEW r \in Requests, \E verdict \in {"approved", "rejected"} : Decide(r, verdict)
      PROVE  Freezes /\ DecidesAsRead
  BY <1>8, Decision
<1>9. ASSUME NEW r \in Requests, IssueUnmoved(r) \/ Issue(r) \/ Reverse(r) PROVE Freezes /\ DecidesAsRead
  <2>1. D(r) \in Docs
    BY <1>9 DEF IssueUnmoved, Issue, Reverse, Is, IInv, LockersAtWork, Locking
  <2> QED BY <1>9, <2>1, RowMoved DEF IssueUnmoved, Issue, Issues, Reverse
<1>10. ASSUME NEW r \in Requests,
              \/ Overtaken(r) \/ NoDraftLeft(r) \/ LockSource(r) \/ LockItem(r) \/ LockItemBack(r) \/ Rollback(r)
       PROVE  Freezes /\ DecidesAsRead
  BY <1>10, NoRowTouched DEF Overtaken, NoDraftLeft, LockSource, LockItem, LockItemBack, Rollback
<1>11. CASE UNCHANGED vars
  BY <1>11, NoRowTouched DEF vars
<1> QED BY <1>1, <1>2, <1>3, <1>4, <1>5, <1>6, <1>7, <1>8, <1>9, <1>10, <1>11 DEF Next

(* Whatever is edited, deleted, approved, issued and cancelled at once, in any order: what is*)
(* issued stays as it was issued, and there (updateDocument, removeDocument).                *)
THEOREM IssuedForGood == ASSUME Bounded PROVE Spec => FrozenOnceIssued
<1>1. Init => IInv
  BY InitIInv
<1>2. IInv /\ [Next]_vars => IInv'
  BY NextIInv
<1>3. IInv /\ [Next]_vars => [Freezes]_vars
  BY StepIsSound
<1>4. [Freezes]_vars => [\A d \in Docs : Finalized(doc[d]) =>
        Finalized(doc'[d]) /\ doc'[d].qty = doc[d].qty /\ doc'[d].date = doc[d].date]_vars
  BY DEF Freezes
<1> QED BY <1>1, <1>2, <1>3, <1>4, PTL DEF Spec, FrozenOnceIssued

(* A decision falls on the document as the one who decides read it, and is the only one on   *)
(* that request (decide).                                                                    *)
THEOREM DecisionsAreInformed == ASSUME Bounded PROVE Spec => DecidedAsRead
<1>1. Init => IInv
  BY InitIInv
<1>2. IInv /\ [Next]_vars => IInv'
  BY NextIInv
<1>3. IInv /\ [Next]_vars => [DecidesAsRead]_vars
  BY StepIsSound
<1>4. [DecidesAsRead]_vars =>
        [\A d \in Docs : doc'[d].approval # doc[d].approval /\ doc'[d].approval \in {"approved", "rejected"} =>
           /\ doc[d].approval = "pending"
           /\ \E r \in Requests : Is(r, "decide") /\ D(r) = d /\ task[r].known.qty = doc[d].qty /\ task[r].known.date = doc[d].date]_vars
  BY DEF DecidesAsRead
<1> QED BY <1>1, <1>2, <1>3, <1>4, PTL DEF Spec, DecidedAsRead

-----------------------------------------------------------------------------
(* Goods *)

Issued(x) == x.status \in {"final", "closed"}
Carriers == {"delivery", "goodsReceipt"}
Issuing == {"issue", "issue stock", "issue write"}
Cancelling == {"cancel stock", "cancel write"}

(* What stock has to start with: only confirmed documents made from nothing, and no day below zero. *)
OpeningPosted == [d \in Docs |-> IF d \in DOMAIN Given THEN Sign(Given[d].kind) * Given[d].qty ELSE 0]
StartsSound ==
  /\ IsFiniteSet(Docs) /\ None \notin Docs
  /\ \A d \in DOMAIN Given : Issued(Given[d]) /\ Given[d].kind # None /\ Given[d].src = None /\ Given[d].qty >= 1 /\ Given[d].date \in Days
  /\ \A t \in Days : SumFunctionOnSet(Opening, 1 .. t)
                       + SumFunctionOnSet(OpeningPosted, {d \in Docs : d \in DOMAIN Given /\ Given[d].date \in 1 .. t}) >= 0

(* A row that is there is of a kind, for some of the item, on a day. *)
RowIs(x) ==
  IF x.status \in {"absent", "gone"} THEN x.kind = None /\ x.src = None /\ x.qty = 0
  ELSE x.kind # None /\ x.qty >= 1 /\ x.date \in Days

(* What something was made from is issued, for good if its goods moved with it. *)
Stands(x) == Finalized(x) /\ (x.kind \in Carriers => Issued(x))
SourceIs(d) == LET s == doc[d].src IN s # None => Stands(doc[s]) /\ doc[d].kind \in Conversions(doc[s].kind)

MovedBefore(d) == doc[d].src # None /\ doc[doc[d].src].kind \in Carriers
PostedIs(d) ==
  /\ IF Issued(doc[d]) THEN posted[d] = Sign(doc[d].kind) * doc[d].qty \/ (posted[d] = 0 /\ MovedUpstream(d)) ELSE posted[d] = 0
  /\ MovedBefore(d) => posted[d] = 0

OneOnward(s) == s \notin noted => \A c, e \in Onward(s) : c = e

RowsAreSound == \A d \in Docs : RowIs(doc[d]) /\ SourceIs(d) /\ PostedIs(d) /\ OneOnward(d)

(* A request at work on an item has it locked, and what it read of the stock is there still. *)
Lasts(r, n) == task[r].short \/ \A u \in Days : u >= doc[D(r)].date => n <= OnDay(u)
TaskIs(r) ==
  /\ Is(r, "convert") => Stands(doc[D(r)]) /\ task[r].to \in Conversions(doc[D(r)].kind) /\ task[r].known.qty >= 1
  /\ task[r].op \in Issuing =>
       /\ doc[D(r)].status = "draft"
       /\ task[r].moved => MovedUpstream(D(r))
       /\ MovedBefore(D(r)) => task[r].moved
  /\ Is(r, "issue write") =>
       itemLock = r /\ ~task[r].moved /\ (Sign(doc[D(r)].kind) < 0 => Lasts(r, doc[D(r)].qty))
  /\ task[r].op \in Cancelling => MayCancel(doc[D(r)])
  /\ Is(r, "cancel write") /\ posted[D(r)] > 0 => itemLock = r /\ Lasts(r, posted[D(r)])
TasksAreSound == \A r \in Requests : TaskIs(r)

GoodsInv == RowsAreSound /\ TasksAreSound /\ NothingSoldTwice

LEMMA KindFacts ==
  /\ \A k : Sign(k) \in {-1, 0, 1} /\ (k \in Carriers => Sign(k) # 0) /\ Via(k) \in Carriers \cup {None}
  /\ \A k \in Carriers : Via(k) = None
  /\ \A k : \A to \in Conversions(k) :
       /\ to \in Kinds /\ k \in Kinds
       /\ k \in Carriers => Via(to) = k /\ to \notin Returns
       /\ to \notin Returns => k \in Carriers \cup {"salesOrder", "purchaseOrder"}
       /\ k \in {"salesOrder", "purchaseOrder"} => to \notin Returns
       /\ to \in Carriers => k \in {"salesOrder", "purchaseOrder"}
  /\ None \notin Kinds /\ Carriers \subseteq Kinds /\ Returns \subseteq Kinds /\ Carriers \cap Returns = {}
  BY DEF Sign, Carriers, Via, Conversions, Returns, Kinds, None

(* What goods moved with is posted: nothing moved before it. *)
LEMMA CarriersPosted ==
  ASSUME IInv, RowsAreSound, NEW v \in Docs, doc[v].kind \in Carriers, Issued(doc[v])
  PROVE  posted[v] # 0
<1>1. \A w \in Deliveries(v) : w \in Docs /\ doc[w].kind = None
  BY KindFacts DEF Deliveries
<1>2. \A w \in Docs : doc[w].kind = None => posted[w] = 0
  BY DEF RowsAreSound, RowIs, PostedIs, Issued
<1>3. ~MovedUpstream(v)
  BY <1>1, <1>2 DEF MovedUpstream
<1>4. posted[v] = Sign(doc[v].kind) * doc[v].qty
  BY <1>3 DEF RowsAreSound, PostedIs
<1>5. doc[v].qty >= 1 /\ doc[v].qty \in Int
  BY DEF RowsAreSound, RowIs, Issued, IInv, Typed, Documents
<1>6. Sign(doc[v].kind) \in {-1, 1}
  BY KindFacts
<1> QED BY <1>4, <1>5, <1>6

(* A step that touches one row, leaving what is issued issued. *)
Touches(d) == \A e \in Docs \ {d} : doc'[e] = doc[e] /\ posted'[e] = posted[e]
Steady ==
  \A v \in Docs : Finalized(doc[v]) =>
    /\ Finalized(doc'[v]) /\ doc'[v].kind = doc[v].kind /\ doc'[v].src = doc[v].src
    /\ doc[v].kind \in Carriers /\ Issued(doc[v]) => Issued(doc'[v]) /\ posted'[v] = posted[v]

LEMMA StandsStill ==
  ASSUME Steady, NEW s \in Docs, Stands(doc[s])
  PROVE  Stands(doc'[s]) /\ doc'[s].kind = doc[s].kind /\ doc'[s].src = doc[s].src
  BY DEF Steady, Stands

LEMMA SrcTyped == ASSUME IInv, NEW d \in Docs PROVE doc[d].src \in Docs \cup {None}
  BY DEF IInv, Typed, Documents

LEMMA SourcesStay ==
  ASSUME IInv, RowsAreSound, Steady, NEW d \in Docs, doc'[d].src = doc[d].src
  PROVE  Sources(d)' = Sources(d) /\ Sources(d) \subseteq Docs /\ \A s \in Sources(d) : doc'[s].kind = doc[s].kind
<1> DEFINE s == doc[d].src
<1>1. CASE s = None
  BY <1>1 DEF Sources
<1>2. CASE s # None
  <2>1. s \in Docs /\ Stands(doc[s])
    BY <1>2, SrcTyped DEF RowsAreSound, SourceIs
  <2>2. doc'[s].kind = doc[s].kind /\ doc'[s].src = doc[s].src
    BY <2>1, StandsStill
  <2>3. doc[s].src # None => doc[s].src \in Docs /\ Stands(doc[doc[s].src])
    BY <2>1, SrcTyped DEF RowsAreSound, SourceIs
  <2>4. doc[s].src # None => doc'[doc[s].src].kind = doc[doc[s].src].kind
    BY <2>3, StandsStill
  <2>5. Sources(d) = {s, doc[s].src} \ {None}
    BY <1>2 DEF Sources
  <2>6. Sources(d)' = {s, doc[s].src} \ {None}
    BY <1>2, <2>2 DEF Sources
  <2> QED BY <2>1, <2>2, <2>3, <2>4, <2>5, <2>6
<1> QED BY <1>1, <1>2

LEMMA UpstreamStays ==
  ASSUME IInv, RowsAreSound, Steady, NEW d \in Docs, doc'[d].src = doc[d].src, doc'[d].kind = doc[d].kind, MovedUpstream(d)
  PROVE  MovedUpstream(d)'
<1>1. PICK v \in Deliveries(d) : posted[v] # 0
  BY DEF MovedUpstream
<1>2. v \in Docs /\ doc[v].kind = Via(doc[d].kind)
  BY <1>1 DEF Deliveries
<1>3. Issued(doc[v])
  BY <1>1, <1>2 DEF RowsAreSound, PostedIs
<1>4. doc[v].kind \in Carriers
  <2>1. doc[v].kind # None
    BY <1>2, <1>3 DEF RowsAreSound, RowIs, Issued
  <2> QED BY <1>2, <2>1, KindFacts
<1>5. doc'[v].kind = doc[v].kind /\ doc'[v].src = doc[v].src /\ posted'[v] = posted[v]
  BY <1>2, <1>3, <1>4 DEF Steady, Finalized, Issued
<1>6. Sources(d)' = Sources(d) /\ \A s \in Sources(d) : doc'[s].kind = doc[s].kind
  BY SourcesStay
<1>7. v \in Sources(d) \/ doc[v].src \in {s \in Sources(d) : doc[s].kind \in {"salesOrder", "purchaseOrder"}}
  BY <1>1 DEF Deliveries
<1>8. v \in Sources(d)' \/ doc'[v].src \in {s \in Sources(d)' : doc'[s].kind \in {"salesOrder", "purchaseOrder"}}
  BY <1>5, <1>6, <1>7
<1>9. v \in Deliveries(d)'
  BY <1>2, <1>5, <1>8 DEF Deliveries
<1> QED BY <1>1, <1>5, <1>9 DEF MovedUpstream

(* A row that is not touched is as sound as it was. *)
LEMMA OtherRow ==
  ASSUME IInv, RowsAreSound, Steady, NEW d, Touches(d), NEW e \in Docs, e # d
  PROVE  RowIs(doc'[e]) /\ SourceIs(e)' /\ PostedIs(e)'
<1>1. doc'[e] = doc[e] /\ posted'[e] = posted[e] /\ RowIs(doc[e]) /\ SourceIs(e) /\ PostedIs(e)
  BY DEF Touches, RowsAreSound
<1>2. doc[e].src # None => /\ doc[e].src \in Docs /\ Stands(doc[doc[e].src]) /\ Stands(doc'[doc[e].src])
                           /\ doc'[doc[e].src].kind = doc[doc[e].src].kind
  BY <1>1, SrcTyped, StandsStill DEF SourceIs
<1>3. SourceIs(e)'
  BY <1>1, <1>2 DEF SourceIs
<1>4. MovedUpstream(e) => MovedUpstream(e)'
  BY <1>1, UpstreamStays
<1>5. MovedBefore(e)' => MovedBefore(e)
  BY <1>1, <1>2 DEF MovedBefore
<1>6. PostedIs(e)'
  BY <1>1, <1>4, <1>5 DEF PostedIs
<1> QED BY <1>1, <1>3, <1>6

OnwardFits(d) ==
  doc'[d].src # None /\ doc'[d].kind \notin Returns /\ Live(doc'[d]) => doc'[d].src \in noted' \/ Onward(doc'[d].src) \subseteq {d}

LEMMA RowsStaySound ==
  ASSUME StartsSound, IInv, RowsAreSound, Steady, NEW d, Touches(d), noted \subseteq noted',
         d \in Docs => RowIs(doc'[d]) /\ SourceIs(d)' /\ PostedIs(d)' /\ OnwardFits(d)
  PROVE  RowsAreSound'
<1>1. \A e \in Docs : RowIs(doc'[e]) /\ SourceIs(e)' /\ PostedIs(e)'
  BY OtherRow
<1>2. ASSUME NEW s \in Docs, s \notin noted', NEW c \in Onward(s)', NEW e \in Onward(s)' PROVE c = e
  <2>1. c \in Docs /\ e \in Docs /\ doc'[c].src = s /\ doc'[e].src = s
    BY DEF Onward, From
  <2>2. \A f \in Onward(s)' : f # d => f \in Onward(s)
    BY DEF Onward, From, Touches
  <2>3. \A f, g \in Onward(s) : f = g
    BY <1>2 DEF RowsAreSound, OneOnward
  <2>4. d \in Onward(s)' => Onward(s) \subseteq {d}
    <3>1. SUFFICES ASSUME d \in Onward(s)' PROVE Onward(s) \subseteq {d}
      OBVIOUS
    <3>2. d \in Docs /\ doc'[d].src = s /\ doc'[d].kind \notin Returns /\ Live(doc'[d])
      BY <3>1 DEF Onward, From
    <3>3. s # None
      BY DEF StartsSound
    <3> QED BY <1>2, <3>2, <3>3 DEF OnwardFits
  <2> QED BY <1>2, <2>1, <2>2, <2>3, <2>4
<1>3. \A s \in Docs : OneOnward(s)'
  BY <1>2 DEF OneOnward
<1> QED BY <1>1, <1>3 DEF RowsAreSound

-----------------------------------------------------------------------------
(* Stock *)

(* A finite run of numbers has a least. *)
LEMMA LeastOf ==
  ASSUME NEW t \in Int, NEW n \in Nat, NEW f, \A u \in t .. t + n : f[u] \in Int
  PROVE  \E m \in t .. t + n : \A u \in t .. t + n : f[m] <= f[u]
<1> DEFINE Least(m, k) == m \in t .. t + k /\ \A u \in t .. t + k : f[m] <= f[u]
           T == {k \in Nat : k <= n => \E m \in Int : Least(m, k)}
<1>1. 0 \in T
  <2>1. t \in t .. t + 0 /\ \A u \in t .. t + 0 : u = t
    OBVIOUS
  <2>2. f[t] \in Int
    OBVIOUS
  <2>3. Least(t, 0)
    BY <2>1, <2>2
  <2> QED BY <2>3
<1>2. ASSUME NEW k \in T PROVE k + 1 \in T
  <2>1. SUFFICES ASSUME k + 1 <= n PROVE \E m \in Int : Least(m, k + 1)
    OBVIOUS
  <2>2. PICK m \in Int : Least(m, k)
    BY <2>1
  <2> DEFINE e == t + (k + 1)
  <2>3. e \in t .. t + n /\ e \in Int /\ m \in t .. e /\ m \in t .. t + n
    BY <2>1, <2>2
  <2>4. \A u \in t .. e : u = e \/ u \in t .. t + k
    BY <2>1
  <2>5. f[m] \in Int /\ f[e] \in Int /\ e \in t .. e
    BY <2>3
  <2>6. \A u \in t .. t + k : f[m] <= f[u] /\ f[u] \in Int
    BY <2>1, <2>2
  <2> HIDE DEF e
  <2>7. CASE f[m] <= f[e]
    <3>1. \A u \in t .. e : f[m] <= f[u]
      BY <2>4, <2>6, <2>7
    <3> QED BY <2>3, <3>1 DEF e
  <2>8. CASE f[e] < f[m]
    <3>1. \A u \in t .. t + k : f[e] <= f[u]
      BY <2>5, <2>6, <2>8
    <3>2. f[e] <= f[e]
      BY <2>5
    <3>3. \A u \in t .. e : f[e] <= f[u]
      BY <2>4, <3>1, <3>2
    <3> QED BY <2>3, <2>5, <3>3 DEF e
  <2> QED BY <2>5, <2>7, <2>8
<1> HIDE DEF T
<1>3. T \in SUBSET Nat
  BY DEF T
<1>4. T = Nat
  BY <1>1, <1>2, <1>3, NatInd
<1>5. n \in T
  BY <1>4
<1>6. PICK m \in Int : Least(m, n)
  BY <1>5 DEF T
<1> QED BY <1>6

LEMMA DaysKnown == ASSUME Bounded PROVE MaxDay \in Days /\ Days \subseteq Int /\ \A u : u \in Days <=> u \in Int /\ 1 <= u /\ u <= MaxDay
  BY DEF Bounded, Days

Dated(t) == {d \in Docs : doc[d].date \in 1 .. t}

LEMMA StockTyped ==
  ASSUME Bounded, StartsSound, Typed
  PROVE  /\ posted \in [Docs -> Int] /\ counted \in [Days -> Int] /\ IsFiniteSet(Docs) /\ IsFiniteSet(Days)
         /\ \A t \in Days : 1 .. t \subseteq Days /\ IsFiniteSet(1 .. t) /\ IsFiniteSet(Dated(t))
         /\ \A t \in Days : OnDay(t) \in Int
<1>1. posted \in [Docs -> Int]
  <2>1. -MaxQty .. MaxQty \subseteq Int
    OBVIOUS
  <2> QED BY <2>1 DEF Typed
<1>2. counted \in [Days -> Int] /\ IsFiniteSet(Docs)
  BY DEF Typed, StartsSound
<1>3. IsFiniteSet(Days)
  BY FS_Interval DEF Days, Bounded
<1>4. ASSUME NEW t \in Days PROVE 1 .. t \subseteq Days /\ IsFiniteSet(1 .. t) /\ IsFiniteSet(Dated(t))
  <2>1. 1 .. t \subseteq Days
    BY DaysKnown
  <2>2. Dated(t) \subseteq Docs
    BY DEF Dated
  <2> QED BY <1>2, <1>3, <2>1, <2>2, FS_Subset
<1>5. ASSUME NEW t \in Days PROVE OnDay(t) \in Int
  <2>1. SumFunctionOnSet(counted, 1 .. t) \in Int
    BY <1>2, <1>4, SumIsInt
  <2>2. Dated(t) \subseteq Docs
    BY DEF Dated
  <2>3. SumFunctionOnSet(posted, Dated(t)) \in Int
    BY <1>1, <1>4, <2>2, SumIsInt
  <2>4. OnDay(t) = SumFunctionOnSet(counted, 1 .. t) + SumFunctionOnSet(posted, Dated(t))
    BY DEF OnDay, Dated
  <2> QED BY <2>1, <2>3, <2>4
<1> QED BY <1>1, <1>2, <1>3, <1>4, <1>5

(* What is available on a day is there on that day and on every later one. *)
LEMMA AvailableLasts ==
  ASSUME Bounded, StartsSound, Typed, NEW t \in Days
  PROVE  Available(t) \in Int /\ \A u \in Days : u >= t => Available(t) <= OnDay(u)
<1> DEFINE f == [u \in Days |-> OnDay(u)]
           n == MaxDay - t
           S == {OnDay(u) : u \in t .. MaxDay}
<1>1. t \in Int /\ n \in Nat /\ t + n = MaxDay /\ t .. MaxDay \subseteq Days
  BY DaysKnown
<1>2. \A u \in t .. MaxDay : f[u] = OnDay(u) /\ f[u] \in Int
  BY <1>1, StockTyped
<1> HIDE DEF f, n
<1>3. PICK m \in t .. MaxDay : \A u \in t .. MaxDay : f[m] <= f[u]
  BY <1>1, <1>2, LeastOf
<1>4. OnDay(m) \in S /\ \A x \in S : OnDay(m) <= x
  BY <1>2, <1>3
<1>5. Min(S) \in S /\ \A x \in S : Min(S) <= x
  BY <1>4 DEF Min
<1>6. S \subseteq Int
  BY <1>1, StockTyped
<1>7. \A u \in Days : u >= t => OnDay(u) \in S
  BY DaysKnown
<1>8. Available(t) = Min(S)
  BY DEF Available
<1> HIDE DEF S
<1> QED BY <1>5, <1>6, <1>7, <1>8

(* What a touched row does to the stock of a day, and what a count does. *)
LEMMA OnDayMoves ==
  ASSUME Bounded, StartsSound, Typed, Typed', NEW d \in Docs, Touches(d), counted' = counted, NEW u \in Days
  PROVE  OnDay(u)' = OnDay(u) - (IF doc[d].date \in 1 .. u THEN posted[d] ELSE 0)
                              + (IF doc'[d].date \in 1 .. u THEN posted'[d] ELSE 0)
<1>1. posted \in [Docs -> Int] /\ posted' \in [Docs -> Int] /\ IsFiniteSet(Docs)
  <2>1. -MaxQty .. MaxQty \subseteq Int
    OBVIOUS
  <2> QED BY <2>1, StockTyped DEF Typed
<1> DEFINE S == {e \in Docs : doc[e].date \in 1 .. u}
           T == {e \in Docs : doc'[e].date \in 1 .. u}
           a == IF d \in S THEN posted[d] ELSE 0
           b == IF d \in T THEN posted'[d] ELSE 0
<1>2. S \in SUBSET Docs /\ T \in SUBSET Docs /\ \A y \in Docs \ {d} : posted[y] = posted'[y] /\ (y \in S <=> y \in T)
  BY DEF Touches
<1>3. /\ a = IF doc[d].date \in 1 .. u THEN posted[d] ELSE 0
      /\ b = IF doc'[d].date \in 1 .. u THEN posted'[d] ELSE 0
  OBVIOUS
<1>4. OnDay(u) = SumFunctionOnSet(counted, 1 .. u) + SumFunctionOnSet(posted, S)
  BY DEF OnDay
<1>5. OnDay(u)' = SumFunctionOnSet(counted, 1 .. u) + SumFunctionOnSet(posted', T)
  BY DEF OnDay
<1>6. SumFunctionOnSet(counted, 1 .. u) \in Int
  BY StockTyped, SumIsInt
<1>7. IsFiniteSet(S)
  BY <1>1, <1>2, FS_Subset
<1>8. SumFunctionOnSet(posted, S) \in Int
  BY <1>1, <1>2, <1>7, SumIsInt
<1>9. a \in Int /\ b \in Int
  BY <1>1
<1> HIDE DEF S, T
<1>10. SumFunctionOnSet(posted', T) = SumFunctionOnSet(posted, S) - a + b
  BY <1>1, <1>2, SumMoves
<1> HIDE DEF a, b
<1>11. OnDay(u)' = OnDay(u) - a + b
  BY <1>4, <1>5, <1>6, <1>8, <1>9, <1>10
<1> QED BY <1>3, <1>11

LEMMA OnDayCounted ==
  ASSUME Bounded, StartsSound, Typed, NEW t \in Days, NEW q \in Int, counted' = [counted EXCEPT ![t] = @ + q],
         UNCHANGED <<doc, posted>>, NEW u \in Days
  PROVE  OnDay(u)' = IF t <= u THEN OnDay(u) + q ELSE OnDay(u)
<1>1. counted \in [Days -> Int] /\ counted' \in [Days -> Int] /\ IsFiniteSet(Days) /\ 1 .. u \subseteq Days /\ IsFiniteSet(1 .. u)
  BY StockTyped
<1> DEFINE S == {e \in Docs : doc[e].date \in 1 .. u}
           V == 1 .. u
           g == counted
           h == counted'
           P == SumFunctionOnSet(posted, S)
<1>2. OnDay(u) = SumFunctionOnSet(g, V) + P /\ OnDay(u)' = SumFunctionOnSet(h, V) + P
  BY DEF OnDay
<1>3. P \in Int
  <2>1. S \subseteq Docs /\ posted \in [Docs -> Int] /\ IsFiniteSet(Docs)
    BY StockTyped
  <2> HIDE DEF S
  <2>2. IsFiniteSet(S)
    BY <2>1, FS_Subset
  <2> QED BY <2>1, <2>2, SumIsInt
<1>4. g \in [Days -> Int] /\ h \in [Days -> Int] /\ V \in SUBSET Days /\ IsFiniteSet(V)
  BY <1>1
<1>5. h[t] = g[t] + q /\ (\A y \in Days \ {t} : g[y] = h[y]) /\ (t \in V <=> t <= u) /\ g[t] \in Int
  BY <1>1, DaysKnown
<1> HIDE DEF S, V, g, h, P
<1>6. SumFunctionOnSet(g, V) \in Int
  BY <1>4, SumIsInt
<1>7. CASE t \in V
  <2>1. \A y \in V \ {t} : g[y] = h[y]
    BY <1>4, <1>5
  <2>2. SumFunctionOnSet(h, V) = SumFunctionOnSet(g, V) - g[t] + h[t]
    BY <1>4, <1>7, <2>1, SumWithChanged
  <2> QED BY <1>2, <1>3, <1>5, <1>6, <1>7, <2>2
<1>8. CASE t \notin V
  <2>1. \A y \in V : g[y] = h[y]
    BY <1>4, <1>5, <1>8
  <2>2. SumFunctionOnSet(g, V) = SumFunctionOnSet(h, V)
    BY <1>4, <2>1, SumAgrees
  <2> QED BY <1>2, <1>5, <1>8, <2>2
<1> QED BY <1>7, <1>8

LEMMA StockTypedNext ==
  ASSUME Bounded, StartsSound, Typed'
  PROVE  \A u \in Days : OnDay(u)' \in Int
<1>1. posted' \in [Docs -> Int] /\ counted' \in [Days -> Int] /\ IsFiniteSet(Docs)
  <2>1. -MaxQty .. MaxQty \subseteq Int
    OBVIOUS
  <2> QED BY <2>1 DEF Typed, StartsSound
<1>2. ASSUME NEW u \in Days PROVE OnDay(u)' \in Int
  <2> DEFINE S == {d \in Docs : doc'[d].date \in 1 .. u}
  <2>1. 1 .. u \in SUBSET Days /\ IsFiniteSet(1 .. u)
    BY DaysKnown, FS_Interval
  <2>2. S \in SUBSET Docs /\ OnDay(u)' = SumFunctionOnSet(counted', 1 .. u) + SumFunctionOnSet(posted', S)
    BY DEF OnDay
  <2> HIDE DEF S
  <2>3. SumFunctionOnSet(counted', 1 .. u) \in Int
    BY <1>1, <2>1, SumIsInt
  <2>4. SumFunctionOnSet(posted', S) \in Int
    BY <1>1, <2>2, FS_Subset, SumIsInt
  <2> QED BY <2>2, <2>3, <2>4
<1> QED BY <1>2

LEMMA StockStill ==
  ASSUME Bounded, StartsSound, IInv, IInv', NEW d, Touches(d), counted' = counted,
         d \in Docs => posted'[d] = posted[d] /\ (posted[d] = 0 \/ doc'[d].date = doc[d].date)
  PROVE  \A u \in Days : OnDay(u)' = OnDay(u) /\ OnDay(u) \in Int
<1>1. \A u \in Days : OnDay(u) \in Int
  BY StockTyped DEF IInv
<1>2. CASE d \in Docs
  <2>1. ASSUME NEW u \in Days PROVE OnDay(u)' = OnDay(u)
    <3>1. OnDay(u)' = OnDay(u) - (IF doc[d].date \in 1 .. u THEN posted[d] ELSE 0)
                              + (IF doc'[d].date \in 1 .. u THEN posted'[d] ELSE 0)
      BY <1>2, OnDayMoves DEF IInv
    <3>2. posted[d] \in Int /\ OnDay(u) \in Int
      BY <1>1, <1>2, StockTyped DEF IInv
    <3> QED BY <1>2, <3>1, <3>2
  <2> QED BY <1>1, <2>1
<1>3. CASE d \notin Docs
  <2>1. doc' = doc /\ posted' = posted
    <3>1. \A e \in Docs : doc'[e] = doc[e] /\ posted'[e] = posted[e]
      BY <1>3 DEF Touches
    <3> QED BY <3>1 DEF IInv, Typed
  <2>2. \A u \in Days : OnDay(u)' = OnDay(u)
    BY <2>1 DEF OnDay
  <2> QED BY <1>1, <2>2
<1> QED BY <1>2, <1>3

(* A day that holds no less than before, or nothing less than zero. *)
StockHolds == \A u \in Days : OnDay(u)' >= OnDay(u) \/ OnDay(u)' >= 0

LEMMA NothingSold ==
  ASSUME Bounded, StartsSound, IInv, IInv', NothingSoldTwice, noted \subseteq noted', StockHolds
  PROVE  NothingSoldTwice'
<1>1. \A u \in Days : OnDay(u) \in Int /\ OnDay(u)' \in Int
  BY StockTyped, StockTypedNext DEF IInv
<1>2. \A u \in Days : OnDay(u) >= 0 => OnDay(u)' >= 0
  BY <1>1 DEF StockHolds
<1>3. OnDay(MaxDay)' >= 0
  BY <1>2, DaysKnown DEF NothingSoldTwice, OnHand
<1>4. ShortCount \notin noted' => \A u \in Days : OnDay(u)' >= 0
  BY <1>2 DEF NothingSoldTwice
<1> QED BY <1>3, <1>4 DEF NothingSoldTwice, OnHand

-----------------------------------------------------------------------------
(* What a step of request r on row d must show *)

Apart(r, d) == \A q \in Requests \ {r} : task[q].op \in Locking => D(q) # d
OthersStay(r) == \A q \in Requests \ {r} : task'[q] = task[q] /\ (itemLock = q => itemLock' = q)
StockIsTheirs(r) == itemLock \in {Free, r} \/ \A u \in Days : OnDay(u)' >= OnDay(u)

LEMMA AtRow ==
  ASSUME IInv, NEW q \in Requests, task[q].op \in Locking \cup {"convert", "approved"}
  PROVE  D(q) \in Docs
  BY DEF IInv, LockersAtWork

LEMMA OthersSound ==
  ASSUME Bounded, StartsSound, IInv, IInv', GoodsInv, Steady, NEW r, NEW d, Touches(d), Apart(r, d), OthersStay(r), StockIsTheirs(r),
         NEW q \in Requests, q # r
  PROVE  TaskIs(q)'
<1>0. PICK e : e = D(q)
  OBVIOUS
<1> DEFINE x == doc[e]
           y == doc'[e]
<1>1. task'[q] = task[q] /\ D(q) = e /\ D(q)' = e /\ (itemLock = q => itemLock' = q) /\ TaskIs(q) /\ RowsAreSound
  BY <1>0 DEF OthersStay, GoodsInv, TasksAreSound, D
<1>2. task[q].op = "convert" => Stands(y) /\ task[q].to \in Conversions(y.kind) /\ task[q].known.qty >= 1
  <2>1. task[q].op = "convert" => e \in Docs
    BY <1>0, AtRow
  <2>2. task[q].op = "convert" => Stands(x) /\ task[q].to \in Conversions(x.kind) /\ task[q].known.qty >= 1
    BY <1>1 DEF TaskIs, Is
  <2> QED BY <2>1, <2>2, StandsStill
<1>3. task[q].op \in Locking => e \in Docs /\ y = x /\ posted'[e] = posted[e]
  <2>1. task[q].op \in Locking => e \in Docs /\ e # d
    BY <1>0, AtRow DEF Apart
  <2> QED BY <2>1 DEF Touches
<1>4. task[q].op \in Locking /\ MovedUpstream(e) => MovedUpstream(e)'
  <2> QED BY <1>1, <1>3, UpstreamStays
<1>5. task[q].op \in Locking /\ MovedBefore(e)' => MovedBefore(e)
  <2>1. task[q].op \in Locking /\ x.src # None => x.src \in Docs /\ doc'[x.src].kind = doc[x.src].kind
    BY <1>1, <1>3, SrcTyped, StandsStill DEF RowsAreSound, SourceIs
  <2> QED BY <1>3, <2>1 DEF MovedBefore
<1>6. ASSUME NEW n \in Int, itemLock = q, task[q].op \in Locking, Lasts(q, n) PROVE Lasts(q, n)'
  <2>1. \A u \in Days : OnDay(u)' >= OnDay(u)
    BY <1>6 DEF StockIsTheirs, Bounded
  <2>2. \A u \in Days : OnDay(u) \in Int /\ OnDay(u)' \in Int
    BY StockTyped, StockTypedNext DEF IInv
  <2>3. \A u \in Days : n <= OnDay(u) => n <= OnDay(u)'
    BY <2>1, <2>2
  <2>4. y.date = x.date
    BY <1>3, <1>6
  <2>5. Lasts(q, n) <=> task[q].short \/ \A u \in Days : u >= x.date => n <= OnDay(u)
    BY <1>1 DEF Lasts
  <2>6. Lasts(q, n)' <=> task'[q].short \/ \A u \in Days : u >= y.date => n <= OnDay(u)'
    BY <1>1 DEF Lasts
  <2> HIDE DEF x, y
  <2> QED BY <1>1, <1>6, <2>3, <2>4, <2>5, <2>6
<1>7. task[q].op \in Locking => x.qty \in Int /\ posted[e] \in Int
  <2> QED BY <1>3, StockTyped DEF IInv, Typed, Documents
<1>8. {"issue write", "cancel write"} \cup Issuing \cup Cancelling \subseteq Locking
  BY DEF Locking, Issuing, Cancelling
<1>9. task[q].op = "issue write" => itemLock' = q /\ ~task[q].moved /\ (Sign(y.kind) < 0 => (task[q].short \/ \A u \in Days : u >= y.date => y.qty <= OnDay(u)'))
  <2>1. SUFFICES ASSUME task[q].op = "issue write"
                 PROVE itemLock' = q /\ ~task[q].moved /\ (Sign(y.kind) < 0 => (task[q].short \/ \A u \in Days : u >= y.date => y.qty <= OnDay(u)'))
    OBVIOUS
  <2>0. PICK n : n = x.qty
    OBVIOUS
  <2>2. itemLock = q /\ ~task[q].moved /\ (Sign(x.kind) < 0 => Lasts(q, n))
    BY <1>1, <2>0, <2>1 DEF TaskIs, Is
  <2>3. n \in Int /\ y = x
    BY <1>3, <1>7, <1>8, <2>0, <2>1
  <2>4. Sign(x.kind) < 0 => Lasts(q, n)'
    BY <1>6, <1>8, <2>1, <2>2, <2>3
  <2>5. Lasts(q, n)' => task[q].short \/ \A u \in Days : u >= y.date => y.qty <= OnDay(u)'
    BY <1>1, <2>0, <2>3 DEF Lasts
  <2> QED BY <1>1, <2>2, <2>3, <2>4, <2>5
<1>10. task[q].op = "cancel write" /\ posted'[e] > 0 => itemLock' = q /\ (task[q].short \/ \A u \in Days : u >= y.date => posted'[e] <= OnDay(u)')
  <2>1. SUFFICES ASSUME task[q].op = "cancel write", posted'[e] > 0
                 PROVE itemLock' = q /\ (task[q].short \/ \A u \in Days : u >= y.date => posted'[e] <= OnDay(u)')
    OBVIOUS
  <2>0. PICK n : n = posted[e]
    OBVIOUS
  <2>3. n \in Int /\ y = x /\ posted'[e] = n
    BY <1>3, <1>7, <1>8, <2>0, <2>1
  <2>2. itemLock = q /\ Lasts(q, n)
    BY <1>1, <2>0, <2>1, <2>3 DEF TaskIs, Is
  <2>4. Lasts(q, n)'
    BY <1>6, <1>8, <2>1, <2>2, <2>3
  <2>5. Lasts(q, n)' => task[q].short \/ \A u \in Days : u >= y.date => posted'[e] <= OnDay(u)'
    BY <1>1, <2>3 DEF Lasts
  <2> QED BY <1>1, <2>2, <2>4, <2>5
<1>11. task[q].op \in Issuing => y.status = "draft" /\ (task[q].moved => MovedUpstream(e)') /\ (MovedBefore(e)' => task[q].moved)
  <2>1. task[q].op \in Issuing => x.status = "draft" /\ (task[q].moved => MovedUpstream(e)) /\ (MovedBefore(e) => task[q].moved)
    BY <1>1 DEF TaskIs
  <2> QED BY <1>3, <1>4, <1>5, <1>8, <2>1
<1>12. task[q].op \in Cancelling => MayCancel(y)
  <2>1. task[q].op \in Cancelling => MayCancel(x)
    BY <1>1 DEF TaskIs
  <2> QED BY <1>3, <1>8, <2>1
<1>13. /\ (Is(q, "convert") => Stands(doc[D(q)]) /\ task[q].to \in Conversions(doc[D(q)].kind) /\ task[q].known.qty >= 1)'
       /\ (task[q].op \in Cancelling => MayCancel(doc[D(q)]))'
  BY <1>1, <1>2, <1>12 DEF Is
<1>14. (task[q].op \in Issuing => doc[D(q)].status = "draft" /\ (task[q].moved => MovedUpstream(D(q))) /\ (MovedBefore(D(q)) => task[q].moved))'
  BY <1>1, <1>11
<1>15. (Is(q, "issue write") => itemLock = q /\ ~task[q].moved /\ (Sign(doc[D(q)].kind) < 0 => Lasts(q, doc[D(q)].qty)))'
  BY <1>1, <1>9 DEF Is, Lasts
<1>16. (Is(q, "cancel write") /\ posted[D(q)] > 0 => itemLock = q /\ Lasts(q, posted[D(q)]))'
  BY <1>1, <1>10 DEF Is, Lasts
<1> QED BY <1>13, <1>14, <1>15, <1>16 DEF TaskIs

LEMMA GoodsStep ==
  ASSUME Bounded, StartsSound, IInv, IInv', GoodsInv, Steady, NEW r, NEW d, Touches(d), Apart(r, d), OthersStay(r), StockIsTheirs(r),
         noted \subseteq noted', d \in Docs => RowIs(doc'[d]) /\ SourceIs(d)' /\ PostedIs(d)' /\ OnwardFits(d),
         r \in Requests => TaskIs(r)', NothingSoldTwice'
  PROVE  GoodsInv'
<1>1. RowsAreSound'
  BY RowsStaySound DEF GoodsInv
<1>2. TasksAreSound'
  BY OthersSound DEF TasksAreSound
<1> QED BY <1>1, <1>2 DEF GoodsInv

LEMMA IdleIs == ASSUME NEW r \in Requests, IInv, Ends(r) PROVE TaskIs(r)'
<1>1. task'[r] = Idle
  BY DEF Ends, IInv, Typed
<1> QED BY <1>1 DEF TaskIs, Is, Idle, Issuing, Cancelling

LEMMA OnlyHis ==
  ASSUME IInv, NEW r, NEW t, task' = [task EXCEPT ![r] = t], itemLock' = itemLock \/ itemLock \in {Free, r}, Bounded
  PROVE  OthersStay(r)
  BY DEF OthersStay, IInv, Typed, Bounded

(* A step that leaves rows and ledger as they are. *)
LEMMA RowsLeft ==
  ASSUME Bounded, StartsSound, IInv, IInv', GoodsInv, UNCHANGED <<doc, posted, counted>>, noted \subseteq noted',
         NEW r, OthersStay(r), r \in Requests => TaskIs(r)'
  PROVE  GoodsInv'
<1>1. None \notin Docs /\ Steady /\ Touches(None)
  BY DEF StartsSound, Steady, Touches
<1>2. Apart(r, None)
  <2>1. \A q \in Requests : task[q].op \in Locking => D(q) \in Docs
    BY AtRow
  <2> QED BY <1>1, <2>1 DEF Apart
<1>3. \A u \in Days : OnDay(u)' = OnDay(u) /\ OnDay(u) \in Int
  BY <1>1, StockStill
<1>4. StockIsTheirs(r) /\ StockHolds
  BY <1>3 DEF StockIsTheirs, StockHolds
<1>5. NothingSoldTwice'
  BY <1>4, NothingSold DEF GoodsInv
<1> QED BY <1>1, <1>2, <1>4, <1>5, GoodsStep

(* Nobody else is at work on a row that is free, his, or not there yet. *)
LEMMA ApartOf ==
  ASSUME Bounded, IInv, GoodsInv, NEW r, NEW d \in Docs, rowLock[d] \in {Free, r} \/ doc[d].status = "absent"
  PROVE  Apart(r, d)
<1> SUFFICES ASSUME NEW q \in Requests, q # r, task[q].op \in Locking, D(q) = d PROVE FALSE
  BY DEF Apart
<1>1. rowLock[d] = q /\ q # Free
  BY DEF IInv, LockersAtWork, Bounded
<1>2. TaskIs(q)
  BY DEF GoodsInv, TasksAreSound
<1>3. task[q].op \in Issuing \cup Cancelling
  BY DEF Locking, Issuing, Cancelling
<1>4. doc[d].status # "absent"
  BY <1>2, <1>3 DEF TaskIs, MayCancel
<1> QED BY <1>1, <1>4

(* A row written at the version read, or under its lock, that stays of its kind and from     *)
(* where it was made: a draft edited, a document decided on or closed.                       *)
Alike(d) ==
  /\ doc'[d].kind = doc[d].kind /\ doc'[d].src = doc[d].src /\ posted'[d] = posted[d]
  /\ doc'[d].status = doc[d].status \/ (Issued(doc[d]) /\ Issued(doc'[d]))
  /\ Issued(doc[d]) => doc'[d].qty = doc[d].qty /\ doc'[d].date = doc[d].date
  /\ doc[d].status \notin {"absent", "gone"} /\ doc'[d].qty >= 1 /\ doc'[d].date \in Days

LEMMA AlikeSteady == ASSUME NEW d \in Docs, Touches(d), Alike(d) PROVE Steady
  BY DEF Touches, Alike, Steady, Finalized, Issued

LEMMA SourceStays ==
  ASSUME IInv, RowsAreSound, Steady, NEW d \in Docs, doc'[d].src = doc[d].src, doc'[d].kind = doc[d].kind
  PROVE  SourceIs(d)' /\ (MovedBefore(d)' => MovedBefore(d))
<1>1. doc[d].src # None => doc[d].src \in Docs /\ Stands(doc'[doc[d].src]) /\ doc'[doc[d].src].kind = doc[doc[d].src].kind
  BY SrcTyped, StandsStill DEF RowsAreSound, SourceIs
<1> QED BY <1>1 DEF RowsAreSound, SourceIs, MovedBefore

LEMMA OnwardStays ==
  ASSUME IInv, RowsAreSound, NEW d \in Docs, doc'[d].src = doc[d].src, doc'[d].kind = doc[d].kind, noted \subseteq noted',
         Live(doc'[d]) => Live(doc[d])
  PROVE  OnwardFits(d)
<1> SUFFICES ASSUME doc'[d].src # None, doc'[d].kind \notin Returns, Live(doc'[d]), doc'[d].src \notin noted'
             PROVE Onward(doc'[d].src) \subseteq {d}
  BY DEF OnwardFits
<1> DEFINE s == doc[d].src
<1>1. s \in Docs /\ s \notin noted /\ d \in Onward(s)
  BY SrcTyped DEF Onward, From
<1>2. \A c, e \in Onward(s) : c = e
  BY <1>1 DEF RowsAreSound, OneOnward
<1> QED BY <1>1, <1>2

LEMMA AlikeSound ==
  ASSUME IInv, RowsAreSound, NEW d \in Docs, Touches(d), Alike(d), noted \subseteq noted'
  PROVE  Steady /\ RowIs(doc'[d]) /\ SourceIs(d)' /\ PostedIs(d)' /\ OnwardFits(d)
<1>1. Steady
  BY AlikeSteady
<1>2. doc'[d].status \notin {"absent", "gone"} /\ (Issued(doc'[d]) <=> Issued(doc[d])) /\ (Live(doc'[d]) => Live(doc[d]))
  BY DEF Alike, Issued, Live
<1>3. RowIs(doc'[d])
  BY <1>2 DEF Alike, RowsAreSound, RowIs
<1>4. SourceIs(d)' /\ (MovedBefore(d)' => MovedBefore(d))
  BY <1>1, SourceStays DEF Alike
<1>5. MovedUpstream(d) => MovedUpstream(d)'
  BY <1>1, UpstreamStays DEF Alike
<1>6. PostedIs(d)'
  BY <1>2, <1>4, <1>5 DEF Alike, RowsAreSound, PostedIs
<1>7. OnwardFits(d)
  BY <1>2, OnwardStays DEF Alike
<1> QED BY <1>1, <1>3, <1>4, <1>6, <1>7

LEMMA AlikeKeeps ==
  ASSUME Bounded, StartsSound, IInv, IInv', GoodsInv, NEW d \in Docs, Touches(d), Alike(d), UNCHANGED <<counted, noted>>,
         NEW r, Apart(r, d), OthersStay(r), r \in Requests => TaskIs(r)'
  PROVE  GoodsInv'
<1>1. Steady /\ RowIs(doc'[d]) /\ SourceIs(d)' /\ PostedIs(d)' /\ OnwardFits(d)
  BY AlikeSound DEF GoodsInv
<1>2. posted[d] = 0 \/ doc'[d].date = doc[d].date
  BY DEF GoodsInv, RowsAreSound, PostedIs, Alike
<1>3. \A u \in Days : OnDay(u)' = OnDay(u) /\ OnDay(u) \in Int
  BY <1>2, StockStill DEF Alike
<1>4. StockIsTheirs(r) /\ StockHolds
  BY <1>3 DEF StockIsTheirs, StockHolds
<1>5. NothingSoldTwice'
  BY <1>4, NothingSold DEF GoodsInv
<1> QED BY <1>1, <1>4, <1>5, GoodsStep

-----------------------------------------------------------------------------
(* The steps, and the goods *)

LEMMA RowTouched ==
  ASSUME IInv, NEW d \in Docs, NEW x \in Documents, Writes(d, x)
  PROVE  /\ doc'[d].kind = x.kind /\ doc'[d].status = x.status /\ doc'[d].src = x.src /\ doc'[d].qty = x.qty /\ doc'[d].date = x.date
         /\ \A e \in Docs \ {d} : doc'[e] = doc[e]
<1> DEFINE y == [x EXCEPT !.version = doc[d].version + 1]
<1>1. y.kind = x.kind /\ y.status = x.status /\ y.src = x.src /\ y.qty = x.qty /\ y.date = x.date
  BY DEF Documents
<1>2. doc' = [doc EXCEPT ![d] = y]
  BY DEF Writes
<1> HIDE DEF y
<1>3. doc'[d] = y /\ \A e \in Docs \ {d} : doc'[e] = doc[e]
  BY <1>2 DEF IInv, Typed
<1> QED BY <1>1, <1>3

LEMMA NobodysStep == ASSUME Bounded, UNCHANGED <<task, itemLock>> PROVE OthersStay(Free) /\ Free \notin Requests
  BY DEF OthersStay, Bounded

(* A row that was not there: nothing is made from it, and nothing posted. *)
LEMMA NewRowSound ==
  ASSUME Bounded, StartsSound, IInv, IInv', GoodsInv, NEW n \in New, doc[n] = Absent, NEW x \in Documents, Writes(n, x),
         x.status = "draft", x.kind # None, x.qty >= 1, x.date \in Days, noted \subseteq noted', UNCHANGED <<posted, counted>>,
         x.src # None => /\ x.src \in Docs /\ Stands(doc[x.src]) /\ x.kind \in Conversions(doc[x.src].kind)
                         /\ x.kind \in Returns \/ x.src \in noted' \/ Onward(x.src) = {},
         NEW r, OthersStay(r), r \in Requests => TaskIs(r)'
  PROVE  GoodsInv'
<1>1. n \in Docs /\ doc[n].status = "absent" /\ posted[n] = 0
  BY DEF Docs, Absent, GoodsInv, RowsAreSound, PostedIs, Issued
<1>2. /\ doc'[n].kind = x.kind /\ doc'[n].status = x.status /\ doc'[n].src = x.src /\ doc'[n].qty = x.qty /\ doc'[n].date = x.date
      /\ \A e \in Docs \ {n} : doc'[e] = doc[e]
  BY <1>1, RowTouched
<1>3. Touches(n) /\ Steady
  BY <1>1, <1>2 DEF Touches, Steady, Finalized
<1>4. RowIs(doc'[n])
  BY <1>2 DEF RowIs
<1>5. SourceIs(n)'
  BY <1>2, <1>3, StandsStill DEF SourceIs
<1>6. PostedIs(n)'
  BY <1>1, <1>2 DEF PostedIs, Issued
<1>7. OnwardFits(n)
  BY <1>2 DEF OnwardFits
<1>8. Apart(r, n)
  BY <1>1, ApartOf
<1>9. \A u \in Days : OnDay(u)' = OnDay(u) /\ OnDay(u) \in Int
  BY <1>1, <1>3, StockStill
<1>10. StockIsTheirs(r) /\ StockHolds
  BY <1>9 DEF StockIsTheirs, StockHolds
<1>11. NothingSoldTwice'
  BY <1>10, NothingSold DEF GoodsInv
<1> QED BY <1>1, <1>3, <1>4, <1>5, <1>6, <1>7, <1>8, <1>10, <1>11, GoodsStep

LEMMA MadeSound ==
  ASSUME Bounded, StartsSound, IInv, IInv', GoodsInv, NEW n \in New, NEW kind \in Fresh, NEW q \in 1 .. MaxQty, NEW t \in Days,
         Create(n, kind, q, t)
  PROVE  GoodsInv'
<1> DEFINE x == [Absent EXCEPT !.kind = kind, !.status = "draft", !.qty = q, !.date = t]
<1>1. kind \in Kinds /\ q \in 0 .. MaxQty /\ q >= 1
  BY DEF Bounded
<1>2. x \in Documents /\ x.status = "draft" /\ x.kind = kind /\ x.qty = q /\ x.date = t /\ x.src = None
  BY <1>1, AbsentTyped DEF Documents, Absent
<1>3. Writes(n, x) /\ doc[n] = Absent /\ UNCHANGED <<posted, counted, noted>> /\ UNCHANGED <<task, itemLock>>
  BY DEF Create, Keeps
<1> HIDE DEF x
<1>4. x.kind # None
  BY <1>1, <1>2, KindFacts
<1> QED BY <1>1, <1>2, <1>3, <1>4, NobodysStep, NewRowSound

LEMMA CopySound ==
  ASSUME Bounded, StartsSound, IInv, IInv', GoodsInv, NEW r \in Requests, NEW n \in New, InsertCopy(r, n)
  PROVE  GoodsInv'
<1>0. PICK t : t = task[r]
  OBVIOUS
<1> DEFINE x == [Absent EXCEPT !.kind = t.to, !.status = "draft", !.src = t.d, !.qty = t.known.qty, !.date = MaxDay]
<1>1. t \in Tasks /\ t.op = "convert" /\ t.d \in Docs /\ D(r) = t.d
  BY <1>0 DEF IInv, Typed, InsertCopy, Is, LockersAtWork, D
<1>2. t.to \in Kinds \cup {None} /\ t.known.qty \in 0 .. MaxQty /\ MaxDay \in Days
  BY <1>1, DaysKnown DEF Tasks, Documents
<1>3. x \in Documents /\ x.status = "draft" /\ x.kind = t.to /\ x.qty = t.known.qty /\ x.date = MaxDay /\ x.src = t.d
  BY <1>1, <1>2, AbsentTyped DEF Documents, Absent
<1>4. Writes(n, x) /\ doc[n] = Absent /\ Ends(r) /\ UNCHANGED <<posted, counted, rowLock, itemLock>>
  BY <1>0 DEF InsertCopy
<1>5. noted' = IF Block(t.d, t.to) THEN noted \cup {t.d} ELSE noted
  BY <1>0 DEF InsertCopy
<1> HIDE DEF x
<1>6. Stands(doc[t.d]) /\ t.to \in Conversions(doc[t.d].kind) /\ t.known.qty >= 1
  <2>1. TaskIs(r)
    BY DEF GoodsInv, TasksAreSound
  <2> QED BY <1>0, <1>1, <2>1 DEF TaskIs, Is
<1>7. t.to # None
  BY <1>6, KindFacts
<1>8. t.to \in Returns \/ t.d \in noted' \/ Onward(t.d) = {}
  BY <1>5 DEF Block
<1>9. noted \subseteq noted'
  BY <1>5
<1>10. OthersStay(r) /\ TaskIs(r)'
  BY <1>4, OnlyHis, IdleIs DEF Ends
<1> QED BY <1>1, <1>2, <1>3, <1>4, <1>6, <1>7, <1>8, <1>9, <1>10, NewRowSound

LEMMA EditSound ==
  ASSUME Bounded, StartsSound, IInv, IInv', GoodsInv, NEW r \in Requests, NEW q \in 1 .. MaxQty, NEW t \in Days, WriteEdit(r, q, t)
  PROVE  GoodsInv'
<1>0. PICK d : d = D(r)
  OBVIOUS
<1> DEFINE x == [doc[d] EXCEPT !.qty = q, !.date = t]
<1>1. d \in Docs /\ doc[d] \in Documents /\ doc[d].status = "draft" /\ rowLock[d] = Free
  BY <1>0, Unchanged DEF WriteEdit, Is, Reading
<1>2. Writes(d, x) /\ Ends(r) /\ Keeps
  BY <1>0 DEF WriteEdit
<1>3. x \in Documents /\ x.kind = doc[d].kind /\ x.status = "draft" /\ x.src = doc[d].src /\ x.qty = q /\ x.date = t
  <2>1. q \in 0 .. MaxQty
    BY DEF Bounded
  <2> QED BY <1>1, <2>1 DEF Documents
<1> HIDE DEF x
<1>4. Alike(d) /\ Touches(d)
  BY <1>1, <1>2, <1>3, RowTouched DEF Alike, Touches, Issued, Keeps
<1>5. OthersStay(r) /\ TaskIs(r)' /\ Apart(r, d)
  BY <1>1, <1>2, OnlyHis, IdleIs, ApartOf DEF Ends, Keeps
<1> QED BY <1>1, <1>2, <1>4, <1>5, AlikeKeeps DEF Keeps

LEMMA DecideSound ==
  ASSUME Bounded, StartsSound, IInv, IInv', GoodsInv, NEW r \in Requests, NEW verdict \in {"approved", "rejected"}, Decide(r, verdict)
  PROVE  GoodsInv'
<1>0. PICK d : d = D(r)
  OBVIOUS
<1> DEFINE x == [doc[d] EXCEPT !.approval = verdict]
<1>1. d \in Docs /\ doc[d] \in Documents /\ doc[d].status \notin {"absent", "gone"} /\ rowLock[d] = Free
  BY <1>0, Unchanged DEF Decide, Is, Reading
<1>2. Writes(d, x) /\ Keeps
  BY <1>0 DEF Decide
<1>3. x \in Documents /\ x.kind = doc[d].kind /\ x.status = doc[d].status /\ x.src = doc[d].src /\ x.qty = doc[d].qty /\ x.date = doc[d].date
  BY <1>1 DEF Documents
<1> HIDE DEF x
<1>4. Alike(d) /\ Touches(d)
  <2>1. doc[d].qty >= 1 /\ doc[d].date \in Days
    BY <1>1 DEF GoodsInv, RowsAreSound, RowIs
  <2> QED BY <1>1, <1>2, <1>3, <2>1, RowTouched DEF Alike, Touches, Keeps
<1>5. OthersStay(r) /\ TaskIs(r)'
  <2>1. CASE verdict = "approved"
    <3>1. task' = [task EXCEPT ![r].op = "approved"]
      BY <2>1 DEF Decide
    <3>2. task'[r].op = "approved" /\ \A q \in Requests : q # r => task'[q] = task[q]
      <4>1. task[r] \in Tasks /\ task \in [Requests -> Tasks]
        BY DEF IInv, Typed
      <4> QED BY <3>1, <4>1 DEF Tasks
    <3> QED BY <1>2, <3>2 DEF OthersStay, Keeps, TaskIs, Is, Issuing, Cancelling
  <2>2. CASE verdict = "rejected"
    <3>1. Ends(r)
      BY <2>2 DEF Decide
    <3> QED BY <1>2, <3>1, OnlyHis, IdleIs DEF Ends, Keeps
  <2> QED BY <2>1, <2>2
<1>6. Apart(r, d)
  BY <1>1, ApartOf
<1> QED BY <1>1, <1>2, <1>4, <1>5, <1>6, AlikeKeeps DEF Keeps

LEMMA CloseSound ==
  ASSUME Bounded, StartsSound, IInv, IInv', GoodsInv, NEW d \in Docs, Close(d)
  PROVE  GoodsInv'
<1> DEFINE x == [doc[d] EXCEPT !.status = "closed"]
<1>1. doc[d] \in Documents /\ doc[d].status = "final" /\ rowLock[d] = Free
  BY DEF IInv, Typed, Close, MayClose
<1>2. Writes(d, x) /\ Keeps /\ UNCHANGED task
  BY DEF Close
<1>3. x \in Documents /\ x.kind = doc[d].kind /\ x.status = "closed" /\ x.src = doc[d].src /\ x.qty = doc[d].qty /\ x.date = doc[d].date
  BY <1>1 DEF Documents
<1> HIDE DEF x
<1>4. Alike(d) /\ Touches(d)
  <2>1. doc[d].qty >= 1 /\ doc[d].date \in Days
    BY <1>1 DEF GoodsInv, RowsAreSound, RowIs
  <2> QED BY <1>1, <1>2, <1>3, <2>1, RowTouched DEF Alike, Touches, Keeps, Issued
<1>5. OthersStay(Free) /\ Free \notin Requests /\ Apart(Free, d)
  BY <1>1, <1>2, NobodysStep, ApartOf DEF Keeps
<1> QED BY <1>1, <1>2, <1>4, <1>5, AlikeKeeps DEF Keeps

LEMMA DeleteSound ==
  ASSUME Bounded, StartsSound, IInv, IInv', GoodsInv, NEW r \in Requests, Delete(r)
  PROVE  GoodsInv'
<1>0. PICK d : d = D(r)
  OBVIOUS
<1>1. d \in Docs /\ doc[d].status = "draft" /\ rowLock[d] = Free
  BY <1>0, Unchanged DEF Delete, Is, Reading
<1>2. doc' = [doc EXCEPT ![d] = [Absent EXCEPT !.status = "gone"]] /\ Ends(r) /\ Keeps
  BY <1>0 DEF Delete
<1>3. doc'[d] = [Absent EXCEPT !.status = "gone"] /\ \A e \in Docs \ {d} : doc'[e] = doc[e]
  BY <1>1, <1>2 DEF IInv, Typed
<1>4. doc'[d].status = "gone" /\ doc'[d].kind = None /\ doc'[d].src = None /\ doc'[d].qty = 0
  BY <1>3 DEF Absent
<1>5. Touches(d) /\ Steady /\ posted[d] = 0 /\ posted'[d] = 0
  BY <1>1, <1>2, <1>3 DEF Touches, Steady, Keeps, Finalized, GoodsInv, RowsAreSound, PostedIs, Issued
<1>6. RowIs(doc'[d]) /\ SourceIs(d)' /\ PostedIs(d)' /\ OnwardFits(d)
  BY <1>4, <1>5 DEF RowIs, SourceIs, PostedIs, OnwardFits, Issued
<1>7. OthersStay(r) /\ TaskIs(r)' /\ Apart(r, d)
  BY <1>1, <1>2, OnlyHis, IdleIs, ApartOf DEF Ends, Keeps
<1>8. \A u \in Days : OnDay(u)' = OnDay(u) /\ OnDay(u) \in Int
  BY <1>2, <1>5, StockStill DEF Keeps
<1>9. StockIsTheirs(r) /\ StockHolds
  BY <1>8 DEF StockIsTheirs, StockHolds
<1>10. NothingSoldTwice'
  BY <1>2, <1>9, NothingSold DEF GoodsInv, Keeps
<1> QED BY <1>1, <1>2, <1>5, <1>6, <1>7, <1>9, <1>10, GoodsStep DEF Keeps

(* Reads, and steps that write nothing. *)
LEMMA ReadSound ==
  ASSUME Bounded, StartsSound, IInv, IInv', GoodsInv, NEW r \in Requests, NEW d \in Docs,
         \/ \E to \in Conversions(doc[d].kind) : ReadToConvert(r, d, to)
         \/ ReadToEdit(r, d) \/ ReadToRemove(r, d) \/ ReadToDecide(r, d)
  PROVE  GoodsInv'
<1>1. ASSUME NEW op \in {"edit", "remove", "decide"}, Begins(r, Seen(op, d, None)), Keeps, doc' = doc PROVE GoodsInv'
  <2>1. task'[r].op = op
    BY <1>1 DEF Begins, IInv, Typed, Seen, Idle
  <2>2. TaskIs(r)'
    BY <2>1 DEF TaskIs, Is, Issuing, Cancelling
  <2>3. OthersStay(r)
    BY <1>1, OnlyHis DEF Begins, Keeps
  <2> QED BY <1>1, <2>2, <2>3, RowsLeft DEF Keeps
<1>2. ASSUME NEW to \in Conversions(doc[d].kind), ReadToConvert(r, d, to) PROVE GoodsInv'
  <2>0. PICK t : t = Seen("convert", d, to)
    OBVIOUS
  <2>1. task' = [task EXCEPT ![r] = t] /\ ~Block(d, to) /\ Keeps /\ doc' = doc
    BY <1>2, <2>0 DEF ReadToConvert, Begins
  <2>2. t.op = "convert" /\ t.d = d /\ t.to = to /\ t.known = doc[d]
    BY <2>0 DEF Seen, Idle
  <2>3. Issued(doc[d])
    BY <2>1 DEF Block, Finalized, Issued
  <2>4. Stands(doc[d]) /\ doc[d].qty >= 1
    BY <2>3 DEF Stands, Finalized, Issued, GoodsInv, RowsAreSound, RowIs
  <2>5. task'[r] = t /\ D(r)' = d
    BY <2>1, <2>2 DEF IInv, Typed, D
  <2>6. TaskIs(r)'
    BY <2>1, <2>2, <2>4, <2>5 DEF TaskIs, Is, Issuing, Cancelling
  <2>7. OthersStay(r)
    BY <2>1, OnlyHis DEF Keeps
  <2> QED BY <2>1, <2>6, <2>7, RowsLeft DEF Keeps
<1> QED BY <1>1, <1>2 DEF ReadToEdit, ReadToRemove, ReadToDecide

LEMMA EndSound ==
  ASSUME Bounded, StartsSound, IInv, IInv', GoodsInv, NEW r \in Requests, Ends(r), UNCHANGED <<doc, posted, counted, noted>>,
         itemLock' = itemLock \/ itemLock \in {Free, r}
  PROVE  GoodsInv'
<1>1. OthersStay(r) /\ TaskIs(r)'
  BY OnlyHis, IdleIs DEF Ends
<1> QED BY <1>1, RowsLeft

LEMMA LeftSound ==
  ASSUME Bounded, StartsSound, IInv, IInv', GoodsInv, NEW r \in Requests, Overtaken(r) \/ NoDraftLeft(r) \/ Rollback(r)
  PROVE  GoodsInv'
<1>1. itemLock \in Requests \cup {Free}
  BY DEF IInv, Typed
<1>2. CASE Overtaken(r) \/ NoDraftLeft(r)
  BY <1>2, EndSound DEF Overtaken, NoDraftLeft, Keeps
<1>3. CASE Rollback(r)
  <2>1. itemLock' = itemLock \/ itemLock \in {Free, r}
    BY <1>3 DEF Rollback, Unlocks
  <2> QED BY <1>3, <2>1, EndSound DEF Rollback
<1> QED BY <1>2, <1>3

(* What a document's goods moved with is posted while it stands. *)
LEMMA MovedWithSource ==
  ASSUME StartsSound, IInv, RowsAreSound, NEW d \in Docs, MovedBefore(d)
  PROVE  MovedUpstream(d)
<1> DEFINE s == doc[d].src
<1>1. s # None /\ s \in Docs /\ doc[s].kind \in Carriers /\ Stands(doc[s]) /\ doc[d].kind \in Conversions(doc[s].kind)
  BY SrcTyped DEF MovedBefore, RowsAreSound, SourceIs
<1>2. posted[s] # 0
  BY <1>1, CarriersPosted DEF Stands
<1>3. Via(doc[d].kind) = doc[s].kind
  BY <1>1, KindFacts
<1>4. s \in Sources(d)
  BY <1>1 DEF Sources
<1>5. s \in Deliveries(d)
  BY <1>1, <1>3, <1>4 DEF Deliveries
<1> QED BY <1>2, <1>5 DEF MovedUpstream

LEMMA TakeSound ==
  ASSUME Bounded, StartsSound, IInv, IInv', GoodsInv, NEW r \in Requests, NEW d \in Docs, NEW staff \in BOOLEAN, TakeDraft(r, d, staff)
  PROVE  GoodsInv'
<1>1. doc[d] \in Documents /\ doc[d].status = "draft" /\ rowLock[d] = Free /\ UNCHANGED <<posted, counted, itemLock, noted>>
  BY DEF IInv, Typed, TakeDraft
<1>2. CASE NeedsApproval(doc[d], staff)
  <2> DEFINE x == [doc[d] EXCEPT !.approval = "pending"]
  <2>1. Writes(d, x) /\ Ends(r)
    BY <1>2 DEF TakeDraft
  <2>2. x \in Documents /\ x.kind = doc[d].kind /\ x.status = "draft" /\ x.src = doc[d].src /\ x.qty = doc[d].qty /\ x.date = doc[d].date
    BY <1>1 DEF Documents
  <2> HIDE DEF x
  <2>3. doc[d].qty >= 1 /\ doc[d].date \in Days
    BY <1>1 DEF GoodsInv, RowsAreSound, RowIs
  <2>4. Alike(d) /\ Touches(d)
    BY <1>1, <2>1, <2>2, <2>3, RowTouched DEF Alike, Touches
  <2>5. OthersStay(r) /\ TaskIs(r)' /\ Apart(r, d)
    BY <1>1, <2>1, OnlyHis, IdleIs, ApartOf DEF Ends
  <2> QED BY <1>1, <2>4, <2>5, AlikeKeeps
<1>3. CASE ~NeedsApproval(doc[d], staff)
  <2>0. PICK t : t = [Idle EXCEPT !.op = IF doc[d].kind \in Returns THEN "issue" ELSE "issue stock",
                                  !.d = d, !.staff = staff, !.moved = MovedUpstream(d)]
    OBVIOUS
  <2>1. task' = [task EXCEPT ![r] = t] /\ doc' = doc
    BY <1>3, <2>0 DEF TakeDraft
  <2>2. t.op \in {"issue", "issue stock"} /\ t.d = d /\ t.moved = MovedUpstream(d)
    BY <2>0 DEF Idle
  <2>3. task'[r] = t /\ D(r)' = d
    BY <2>1, <2>2 DEF IInv, Typed, D
  <2>4. MovedBefore(d) => MovedUpstream(d)
    BY MovedWithSource DEF GoodsInv
  <2>5. (MovedUpstream(d)' <=> MovedUpstream(d)) /\ (MovedBefore(d)' <=> MovedBefore(d))
    BY <1>1, <2>1 DEF MovedUpstream, MovedBefore, Deliveries, Sources
  <2>6. TaskIs(r)'
    BY <1>1, <2>1, <2>2, <2>3, <2>4, <2>5 DEF TaskIs, Is, Issuing, Cancelling
  <2>7. OthersStay(r)
    BY <1>1, <2>1, OnlyHis
  <2> QED BY <1>1, <2>1, <2>6, <2>7, RowsLeft
<1> QED BY <1>2, <1>3

LEMMA SourceSound ==
  ASSUME Bounded, StartsSound, IInv, IInv', GoodsInv, NEW r \in Requests, LockSource(r)
  PROVE  GoodsInv'
<1>1. UNCHANGED <<doc, posted, counted, itemLock, noted>> /\ task[r].op = "issue"
  BY DEF LockSource, Is
<1>2. CASE ~Returnable(D(r))
  BY <1>1, <1>2, EndSound DEF LockSource
<1>3. CASE Returnable(D(r))
  <2>1. task' = [task EXCEPT ![r].op = "issue stock"]
    BY <1>3 DEF LockSource
  <2>2. task[r] \in Tasks /\ task \in [Requests -> Tasks]
    BY DEF IInv, Typed
  <2>3. /\ task'[r].op = "issue stock" /\ task'[r].moved = task[r].moved /\ D(r)' = D(r)
        /\ \A q \in Requests : q # r => task'[q] = task[q]
    BY <2>1, <2>2 DEF Tasks, D
  <2>4. TaskIs(r)
    BY DEF GoodsInv, TasksAreSound
  <2>5. PICK d : d = D(r)
    OBVIOUS
  <2>6. doc[d].status = "draft" /\ (task[r].moved => MovedUpstream(d)) /\ (MovedBefore(d) => task[r].moved)
    BY <1>1, <2>4, <2>5 DEF TaskIs, Issuing
  <2>7. (MovedUpstream(d)' <=> MovedUpstream(d)) /\ (MovedBefore(d)' <=> MovedBefore(d))
    BY <1>1 DEF MovedUpstream, MovedBefore, Deliveries, Sources
  <2>8. TaskIs(r)'
    BY <1>1, <2>3, <2>5, <2>6, <2>7 DEF TaskIs, Is, Issuing, Cancelling
  <2>9. OthersStay(r)
    BY <1>1, <2>3 DEF OthersStay
  <2> QED BY <1>1, <2>8, <2>9, RowsLeft
<1> QED BY <1>2, <1>3

(* Who locks the item reads what is there from that day on. *)
LEMMA ReadsStock ==
  ASSUME Bounded, StartsSound, IInv, NEW t \in Days, NEW n \in Int, ~(n > Available(t))
  PROVE  \A u \in Days : u >= t => n <= OnDay(u)
<1>1. Available(t) \in Int /\ \A u \in Days : u >= t => Available(t) <= OnDay(u)
  BY AvailableLasts DEF IInv
<1>2. \A u \in Days : OnDay(u) \in Int
  BY StockTyped DEF IInv
<1> QED BY <1>1, <1>2

LEMMA LockSound ==
  ASSUME Bounded, StartsSound, IInv, IInv', GoodsInv, NEW r \in Requests, LockItem(r)
  PROVE  GoodsInv'
<1>0. PICK d : d = D(r)
  OBVIOUS
<1>1. /\ UNCHANGED <<doc, posted, counted, rowLock, noted>> /\ task[r].op = "issue stock" /\ itemLock = Free /\ itemLock' = r
      /\ ~task[r].moved /\ task' = [task EXCEPT ![r] = [@ EXCEPT !.op = "issue write", !.short = Short(d)]]
  BY <1>0 DEF LockItem, Is, Moves
<1>2. d \in Docs
  BY <1>0, <1>1, AtRow DEF Locking
<1>3. /\ task'[r].op = "issue write" /\ task'[r].moved = task[r].moved /\ task'[r].short = Short(d) /\ D(r)' = d
      /\ \A q \in Requests : q # r => task'[q] = task[q]
  <2>1. task[r] \in Tasks /\ task \in [Requests -> Tasks]
    BY DEF IInv, Typed
  <2> QED BY <1>0, <1>1, <2>1 DEF Tasks, D
<1>4. doc[d].status = "draft" /\ ~MovedBefore(d)
  <2>1. TaskIs(r)
    BY DEF GoodsInv, TasksAreSound
  <2> QED BY <1>0, <1>1, <2>1 DEF TaskIs, Issuing
<1>5. doc[d].date \in Days /\ doc[d].qty \in Int
  BY <1>2, <1>4 DEF GoodsInv, RowsAreSound, RowIs, IInv, Typed, Documents
<1>6. Sign(doc[d].kind) < 0 /\ ~Short(d) => \A u \in Days : u >= doc[d].date => doc[d].qty <= OnDay(u)
  BY <1>5, ReadsStock DEF Short
<1>7. (\A u \in Days : OnDay(u)' = OnDay(u)) /\ (MovedBefore(d)' <=> MovedBefore(d))
  BY <1>1 DEF OnDay, MovedBefore
<1>8. Sign(doc'[d].kind) < 0 /\ ~Short(d) => \A u \in Days : u >= doc'[d].date => doc'[d].qty <= OnDay(u)'
  BY <1>1, <1>6, <1>7
<1>9. TaskIs(r)'
  BY <1>1, <1>3, <1>4, <1>7, <1>8 DEF TaskIs, Is, Issuing, Cancelling, Lasts
<1>10. OthersStay(r)
  BY <1>1, <1>3 DEF OthersStay, Bounded
<1> QED BY <1>1, <1>9, <1>10, RowsLeft

LEMMA CancelSound ==
  ASSUME Bounded, StartsSound, IInv, IInv', GoodsInv, NEW r \in Requests, NEW d \in Docs, Cancel(r, d)
  PROVE  GoodsInv'
<1>0. PICK t : t = [Idle EXCEPT !.op = IF posted[d] > 0 THEN "cancel stock" ELSE "cancel write", !.d = d]
  OBVIOUS
<1>1. task' = [task EXCEPT ![r] = t] /\ UNCHANGED <<doc, posted, counted, itemLock, noted>> /\ MayCancel(doc[d])
  BY <1>0 DEF Cancel, Begins
<1>2. t.d = d /\ IF posted[d] > 0 THEN t.op = "cancel stock" ELSE t.op = "cancel write"
  BY <1>0 DEF Idle
<1>3. task'[r] = t /\ D(r)' = d
  BY <1>1, <1>2 DEF IInv, Typed, D
<1>4. TaskIs(r)'
  BY <1>1, <1>2, <1>3 DEF TaskIs, Is, Issuing, Cancelling
<1>5. OthersStay(r)
  BY <1>1, OnlyHis
<1> QED BY <1>1, <1>4, <1>5, RowsLeft

LEMMA LockBackSound ==
  ASSUME Bounded, StartsSound, IInv, IInv', GoodsInv, NEW r \in Requests, LockItemBack(r)
  PROVE  GoodsInv'
<1>0. PICK d : d = D(r)
  OBVIOUS
<1>1. /\ UNCHANGED <<doc, posted, counted, rowLock, noted>> /\ task[r].op = "cancel stock" /\ itemLock = Free /\ itemLock' = r
      /\ task' = [task EXCEPT ![r] = [@ EXCEPT !.op = "cancel write", !.short = posted[d] > Available(doc[d].date)]]
  BY <1>0 DEF LockItemBack, Is
<1>2. d \in Docs
  BY <1>0, <1>1, AtRow DEF Locking
<1>3. /\ task'[r].op = "cancel write" /\ task'[r].short = (posted[d] > Available(doc[d].date)) /\ D(r)' = d
      /\ \A q \in Requests : q # r => task'[q] = task[q]
  <2>1. task[r] \in Tasks /\ task \in [Requests -> Tasks]
    BY DEF IInv, Typed
  <2> QED BY <1>0, <1>1, <2>1 DEF Tasks, D
<1>4. MayCancel(doc[d])
  <2>1. TaskIs(r)
    BY DEF GoodsInv, TasksAreSound
  <2> QED BY <1>0, <1>1, <2>1 DEF TaskIs, Cancelling
<1>5. doc[d].date \in Days /\ posted[d] \in Int
  <2>1. doc[d].status \notin {"absent", "gone"}
    BY <1>4 DEF MayCancel
  <2> QED BY <1>2, <2>1, StockTyped DEF GoodsInv, RowsAreSound, RowIs, IInv
<1>6. ~(posted[d] > Available(doc[d].date)) => \A u \in Days : u >= doc[d].date => posted[d] <= OnDay(u)
  BY <1>5, ReadsStock
<1>7. \A u \in Days : OnDay(u)' = OnDay(u)
  BY <1>1 DEF OnDay
<1>8. task'[r].short \/ \A u \in Days : u >= doc'[d].date => posted'[d] <= OnDay(u)'
  BY <1>1, <1>3, <1>6, <1>7
<1>9. TaskIs(r)'
  BY <1>1, <1>3, <1>4, <1>8 DEF TaskIs, Is, Issuing, Cancelling, Lasts
<1>10. OthersStay(r)
  BY <1>1, <1>3 DEF OthersStay, Bounded
<1> QED BY <1>1, <1>9, <1>10, RowsLeft

(* A draft that is issued, its goods posted now or moved before. *)
LEMMA IssueFits ==
  ASSUME Bounded, StartsSound, IInv, IInv', GoodsInv, NEW r \in Requests, NEW d \in Docs, d = D(r), task[r].op \in Issuing,
         Issues(r), UNCHANGED <<counted, noted>>, \A e \in Docs \ {d} : posted'[e] = posted[e],
         posted'[d] = Sign(doc[d].kind) * doc[d].qty \/ (posted'[d] = 0 /\ MovedUpstream(d)),
         MovedBefore(d) => posted'[d] = 0, StockIsTheirs(r), StockHolds
  PROVE  GoodsInv'
<1> DEFINE x == [doc[d] EXCEPT !.status = "final"]
<1>1. TaskIs(r) /\ RowsAreSound
  BY DEF GoodsInv, TasksAreSound
<1>2. doc[d] \in Documents /\ doc[d].status = "draft" /\ rowLock[d] = r
  BY <1>1 DEF TaskIs, IInv, Typed, LockersAtWork, Issuing, Locking
<1>3. Writes(d, x) /\ Ends(r) /\ (itemLock' = itemLock \/ itemLock \in {Free, r})
  BY DEF Issues, Unlocks
<1>4. x \in Documents /\ x.kind = doc[d].kind /\ x.status = "final" /\ x.src = doc[d].src /\ x.qty = doc[d].qty /\ x.date = doc[d].date
  BY <1>2 DEF Documents
<1> HIDE DEF x
<1>5. /\ doc'[d].kind = doc[d].kind /\ doc'[d].status = "final" /\ doc'[d].src = doc[d].src /\ doc'[d].qty = doc[d].qty
      /\ doc'[d].date = doc[d].date /\ \A e \in Docs \ {d} : doc'[e] = doc[e]
  BY <1>3, <1>4, RowTouched
<1>6. Touches(d) /\ Steady
  BY <1>2, <1>5 DEF Touches, Steady, Finalized
<1>7. RowIs(doc'[d])
  BY <1>1, <1>2, <1>5 DEF RowsAreSound, RowIs
<1>8. SourceIs(d)' /\ (MovedBefore(d)' => MovedBefore(d)) /\ (MovedUpstream(d) => MovedUpstream(d)')
  BY <1>1, <1>5, <1>6, SourceStays, UpstreamStays
<1>9. PostedIs(d)'
  BY <1>5, <1>8 DEF PostedIs, Issued
<1>10. OnwardFits(d)
  BY <1>1, <1>2, <1>5, OnwardStays DEF Live
<1>11. Apart(r, d) /\ OthersStay(r) /\ TaskIs(r)'
  BY <1>2, <1>3, ApartOf, OnlyHis, IdleIs DEF Ends
<1>12. NothingSoldTwice'
  BY NothingSold DEF GoodsInv
<1> QED BY <1>6, <1>7, <1>8, <1>9, <1>10, <1>11, <1>12, GoodsStep

LEMMA FinalWritten ==
  ASSUME IInv, NEW d \in Docs, Writes(d, [doc[d] EXCEPT !.status = "final"])
  PROVE  doc'[d].date = doc[d].date /\ \A e \in Docs \ {d} : doc'[e] = doc[e]
<1> DEFINE x == [doc[d] EXCEPT !.status = "final"]
<1>1. doc[d] \in Documents
  BY DEF IInv, Typed
<1>2. x \in Documents /\ x.date = doc[d].date
  BY <1>1 DEF Documents
<1>3. Writes(d, x)
  OBVIOUS
<1> HIDE DEF x
<1> QED BY <1>2, <1>3, RowTouched

LEMMA UnmovedSound ==
  ASSUME Bounded, StartsSound, IInv, IInv', GoodsInv, NEW r \in Requests, IssueUnmoved(r)
  PROVE  GoodsInv'
<1>0. PICK d : d = D(r)
  OBVIOUS
<1>1. task[r].op = "issue stock" /\ Issues(r) /\ UNCHANGED <<posted, counted, noted>> /\ ~Moves(r)
  BY DEF IssueUnmoved, Is
<1>2. d \in Docs
  BY <1>0, <1>1, AtRow DEF Locking
<1>3. TaskIs(r) /\ PostedIs(d)
  BY <1>2 DEF GoodsInv, TasksAreSound, RowsAreSound
<1>4. doc[d].status = "draft" /\ (task[r].moved => MovedUpstream(d)) /\ posted[d] = 0
  BY <1>0, <1>1, <1>3 DEF TaskIs, Issuing, PostedIs, Issued
<1> DEFINE n == doc[d].qty
           k == Sign(doc[d].kind)
           m == k * n
<1>5. n \in Int /\ k \in {-1, 0, 1} /\ (~task[r].moved => k = 0)
  <2>1. n \in Int
    BY <1>2 DEF IInv, Typed, Documents
  <2>2. k \in {-1, 0, 1}
    BY KindFacts
  <2>3. ~task[r].moved => k = 0
    BY <1>0, <1>1 DEF Moves
  <2> QED BY <2>1, <2>2, <2>3
<1>6. posted'[d] = m \/ (posted'[d] = 0 /\ MovedUpstream(d))
  <2>1. CASE task[r].moved
    <3> HIDE DEF m
    <3> QED BY <1>1, <1>4, <2>1
  <2>2. CASE ~task[r].moved
    <3> HIDE DEF n, k
    <3>1. m = 0
      BY <1>5, <2>2
    <3> HIDE DEF m
    <3>2. posted'[d] = m
      BY <1>1, <1>4, <3>1
    <3> QED BY <3>2
  <2> QED BY <2>1, <2>2
<1>7. Touches(d)
  <2>1. \A e \in Docs \ {d} : doc'[e] = doc[e]
    BY <1>0, <1>1, <1>2, FinalWritten DEF Issues
  <2> QED BY <1>1, <2>1 DEF Touches
<1>8. \A u \in Days : OnDay(u)' = OnDay(u) /\ OnDay(u) \in Int
  BY <1>1, <1>4, <1>7, StockStill
<1>9. StockIsTheirs(r) /\ StockHolds
  BY <1>8 DEF StockIsTheirs, StockHolds
<1> QED BY <1>0, <1>1, <1>2, <1>4, <1>6, <1>9, IssueFits DEF Issuing

LEMMA IssueSound ==
  ASSUME Bounded, StartsSound, IInv, IInv', GoodsInv, NEW r \in Requests, Issue(r)
  PROVE  GoodsInv'
<1>0. PICK d : d = D(r)
  OBVIOUS
<1> DEFINE n == doc[d].qty
           k == Sign(doc[d].kind)
<1>1. task[r].op = "issue write" /\ ~task[r].short /\ Issues(r) /\ UNCHANGED <<counted, noted>> /\ posted' = [posted EXCEPT ![d] = k * n]
  BY <1>0 DEF Issue, Is
<1>2. d \in Docs
  BY <1>0, <1>1, AtRow DEF Locking
<1>3. TaskIs(r) /\ PostedIs(d) /\ RowIs(doc[d])
  BY <1>2 DEF GoodsInv, TasksAreSound, RowsAreSound
<1>4. doc[d].status = "draft" /\ posted[d] = 0 /\ itemLock = r /\ ~MovedBefore(d)
      /\ (k < 0 => \A u \in Days : u >= doc[d].date => n <= OnDay(u))
  BY <1>0, <1>1, <1>3 DEF TaskIs, Issuing, PostedIs, Issued, Is, Lasts
<1>5. n \in Int /\ n >= 1 /\ doc[d].date \in Days /\ k \in {-1, 0, 1}
  BY <1>2, <1>3, <1>4, KindFacts DEF IInv, Typed, Documents, RowIs
<1>6. posted'[d] = k * n /\ \A e \in Docs \ {d} : posted'[e] = posted[e]
  BY <1>1, <1>2 DEF IInv, Typed
<1>7. doc'[d].date = doc[d].date /\ Touches(d)
  <2>1. doc'[d].date = doc[d].date /\ \A e \in Docs \ {d} : doc'[e] = doc[e]
    BY <1>0, <1>1, <1>2, FinalWritten DEF Issues
  <2> QED BY <1>6, <2>1 DEF Touches
<1> HIDE DEF n, k
<1>8. k * n \in Int /\ (k < 0 => k * n = -n) /\ (k >= 0 => k * n >= 0)
  BY <1>5
<1>9. ASSUME NEW u \in Days PROVE OnDay(u)' >= OnDay(u) \/ OnDay(u)' >= 0
  <2>1. OnDay(u)' = OnDay(u) - (IF doc[d].date \in 1 .. u THEN posted[d] ELSE 0) + (IF doc'[d].date \in 1 .. u THEN posted'[d] ELSE 0)
    BY <1>1, <1>2, <1>7, OnDayMoves DEF IInv
  <2>2. OnDay(u)' = OnDay(u) + (IF u >= doc[d].date THEN k * n ELSE 0) /\ OnDay(u) \in Int
    <3>1. OnDay(u) \in Int
      BY StockTyped DEF IInv
    <3>2. doc[d].date \in 1 .. u <=> u >= doc[d].date
      BY <1>5, DaysKnown
    <3> QED BY <1>4, <1>6, <1>7, <1>8, <2>1, <3>1, <3>2
  <2>3. CASE k < 0
    BY <1>4, <1>5, <1>8, <2>2, <2>3
  <2>4. CASE k >= 0
    BY <1>8, <2>2, <2>4
  <2> QED BY <1>5, <2>3, <2>4
<1>10. StockIsTheirs(r) /\ StockHolds
  BY <1>4, <1>9 DEF StockIsTheirs, StockHolds
<1> QED BY <1>0, <1>1, <1>2, <1>4, <1>6, <1>10, IssueFits DEF Issuing, n, k

LEMMA ReverseSound ==
  ASSUME Bounded, StartsSound, IInv, IInv', GoodsInv, NEW r \in Requests, Reverse(r)
  PROVE  GoodsInv'
<1>0. PICK d : d = D(r)
  OBVIOUS
<1> DEFINE x == [doc[d] EXCEPT !.status = "cancelled"]
<1>1. /\ task[r].op = "cancel write" /\ ~task[r].short /\ Writes(d, x) /\ Ends(r) /\ UNCHANGED <<counted, noted>>
      /\ posted' = [posted EXCEPT ![d] = 0] /\ (itemLock' = itemLock \/ itemLock \in {Free, r})
  BY <1>0 DEF Reverse, Is, Unlocks
<1>2. d \in Docs /\ rowLock[d] = r
  BY <1>0, <1>1 DEF IInv, LockersAtWork, Locking
<1>3. TaskIs(r) /\ PostedIs(d) /\ RowIs(doc[d]) /\ RowsAreSound
  BY <1>2 DEF GoodsInv, TasksAreSound, RowsAreSound
<1>4. MayCancel(doc[d]) /\ (posted[d] > 0 => itemLock = r /\ \A u \in Days : u >= doc[d].date => posted[d] <= OnDay(u))
  BY <1>0, <1>1, <1>3 DEF TaskIs, Cancelling, Is, Lasts
<1>5. doc[d] \in Documents /\ doc[d].status \in {"draft", "final"} /\ (doc[d].kind \in Carriers => ~Issued(doc[d]))
  BY <1>2, <1>4 DEF IInv, Typed, MayCancel, Issued, Carriers
<1>6. x \in Documents /\ x.kind = doc[d].kind /\ x.status = "cancelled" /\ x.src = doc[d].src /\ x.qty = doc[d].qty /\ x.date = doc[d].date
  BY <1>5 DEF Documents
<1> HIDE DEF x
<1>7. /\ doc'[d].kind = doc[d].kind /\ doc'[d].status = "cancelled" /\ doc'[d].src = doc[d].src /\ doc'[d].qty = doc[d].qty
      /\ doc'[d].date = doc[d].date /\ \A e \in Docs \ {d} : doc'[e] = doc[e]
  BY <1>1, <1>2, <1>6, RowTouched
<1>8. posted'[d] = 0 /\ \A e \in Docs \ {d} : posted'[e] = posted[e]
  BY <1>1, <1>2 DEF IInv, Typed
<1>9. Touches(d) /\ Steady
  BY <1>5, <1>7, <1>8 DEF Touches, Steady, Finalized
<1>10. RowIs(doc'[d]) /\ PostedIs(d)' /\ OnwardFits(d)
  BY <1>3, <1>5, <1>7, <1>8 DEF RowIs, PostedIs, OnwardFits, Issued, Live
<1>11. SourceIs(d)'
  BY <1>2, <1>3, <1>7, <1>9, SourceStays
<1>12. Apart(r, d) /\ OthersStay(r) /\ TaskIs(r)'
  BY <1>1, <1>2, ApartOf, OnlyHis, IdleIs DEF Ends
<1>13. doc[d].date \in Days /\ posted[d] \in Int
  BY <1>2, <1>3, <1>5, StockTyped DEF RowIs, IInv
<1>14. ASSUME NEW u \in Days
       PROVE  OnDay(u)' = OnDay(u) - (IF u >= doc[d].date THEN posted[d] ELSE 0) /\ OnDay(u) \in Int
  <2>1. OnDay(u)' = OnDay(u) - (IF doc[d].date \in 1 .. u THEN posted[d] ELSE 0) + (IF doc'[d].date \in 1 .. u THEN posted'[d] ELSE 0)
    BY <1>1, <1>2, <1>9, OnDayMoves DEF IInv
  <2>2. OnDay(u) \in Int
    BY StockTyped DEF IInv
  <2>3. doc[d].date \in 1 .. u <=> u >= doc[d].date
    BY <1>13, DaysKnown
  <2> QED BY <1>7, <1>8, <1>13, <2>1, <2>2, <2>3
<1>15. StockIsTheirs(r) /\ StockHolds
  <2>1. CASE posted[d] > 0
    BY <1>4, <1>13, <1>14, <2>1 DEF StockIsTheirs, StockHolds
  <2>2. CASE ~(posted[d] > 0)
    <3>1. \A u \in Days : OnDay(u)' >= OnDay(u)
      BY <1>13, <1>14, <2>2
    <3> QED BY <3>1 DEF StockIsTheirs, StockHolds
  <2> QED BY <2>1, <2>2
<1>16. NothingSoldTwice'
  BY <1>1, <1>15, NothingSold DEF GoodsInv
<1> QED BY <1>1, <1>2, <1>9, <1>10, <1>11, <1>12, <1>15, <1>16, GoodsStep

(* A count: the total is asked for, and a day that falls short is remembered. *)
LEMMA CountSound ==
  ASSUME Bounded, StartsSound, IInv, IInv', GoodsInv, NEW t \in Days, NEW q \in {-1, 1}, AdjustStock(t, q)
  PROVE  GoodsInv'
<1>1. UNCHANGED <<doc, posted, rowLock, itemLock, task>> /\ itemLock = Free /\ counted' = [counted EXCEPT ![t] = @ + q] /\ OnDay(MaxDay) + q >= 0
  BY DEF AdjustStock, OnHand
<1>2. noted' = IF Available(t) + q < 0 THEN noted \cup {ShortCount} ELSE noted
  BY DEF AdjustStock
<1>3. \A u \in Days : OnDay(u) \in Int /\ OnDay(u)' = IF t <= u THEN OnDay(u) + q ELSE OnDay(u)
  <2>1. q \in Int /\ Typed /\ UNCHANGED <<doc, posted>>
    BY <1>1 DEF IInv
  <2>2. \A u \in Days : OnDay(u) \in Int
    BY <2>1, StockTyped
  <2>3. ASSUME NEW u \in Days PROVE OnDay(u)' = IF t <= u THEN OnDay(u) + q ELSE OnDay(u)
    BY <1>1, <2>1, OnDayCounted
  <2> QED BY <2>2, <2>3
<1>4. Available(t) \in Int /\ \A u \in Days : u >= t => Available(t) <= OnDay(u)
  BY AvailableLasts DEF IInv
<1>5. t \in Int /\ t <= MaxDay /\ MaxDay \in Days /\ Days \subseteq Int
  BY DaysKnown
<1>6. NothingSoldTwice'
  <2>1. OnDay(MaxDay)' >= 0
    BY <1>1, <1>3, <1>5
  <2>2. ASSUME ShortCount \notin noted', NEW u \in Days PROVE OnDay(u)' >= 0
    <3>1. Available(t) + q >= 0 /\ ShortCount \notin noted
      BY <1>2, <1>4, <2>2
    <3>2. OnDay(u) >= 0
      BY <3>1 DEF GoodsInv, NothingSoldTwice
    <3>3. CASE t <= u
      BY <1>3, <1>4, <1>5, <3>1, <3>3
    <3>4. CASE ~(t <= u)
      BY <1>3, <3>2, <3>4
    <3> QED BY <3>3, <3>4
  <2> QED BY <2>1, <2>2 DEF NothingSoldTwice, OnHand
<1>7. None \notin Docs /\ Steady /\ Touches(None) /\ noted \subseteq noted'
  BY <1>1, <1>2 DEF StartsSound, Steady, Touches
<1>8. OthersStay(Free) /\ Free \notin Requests /\ StockIsTheirs(Free)
  BY <1>1, NobodysStep DEF StockIsTheirs
<1>9. Apart(Free, None)
  BY <1>7, AtRow DEF Apart
<1> QED BY <1>6, <1>7, <1>8, <1>9, GoodsStep

LEMMA StartSound == ASSUME Bounded, StartsSound, Init, IInv PROVE GoodsInv
<1>1. \A d \in Docs : doc[d] = IF d \in DOMAIN Given THEN Given[d] ELSE Absent
  BY DEF Init
<1>2. DOMAIN Given \subseteq Docs
  BY DEF Docs
<1>3. posted = OpeningPosted
  <2>1. ASSUME NEW d \in Docs PROVE posted[d] = OpeningPosted[d]
    <3>1. posted[d] = Sign(doc[d].kind) * doc[d].qty
      BY DEF Init
    <3>2. CASE d \in DOMAIN Given
      <4>1. doc[d] = Given[d]
        BY <1>1, <3>2
      <4>2. OpeningPosted[d] = Sign(Given[d].kind) * Given[d].qty
        BY <3>2 DEF OpeningPosted
      <4> QED BY <3>1, <4>1, <4>2
    <3>3. CASE d \notin DOMAIN Given
      <4>1. doc[d].qty = 0
        BY <1>1, <3>3 DEF Absent
      <4> DEFINE k == Sign(doc[d].kind)
      <4>2. k \in {-1, 0, 1}
        BY KindFacts
      <4>3. OpeningPosted[d] = 0
        BY <3>3 DEF OpeningPosted
      <4>4. posted[d] = k * 0
        BY <3>1, <4>1
      <4> HIDE DEF k
      <4> QED BY <4>2, <4>3, <4>4
    <3> QED BY <3>2, <3>3
  <2>2. posted = [d \in Docs |-> posted[d]] /\ OpeningPosted = [d \in Docs |-> OpeningPosted[d]]
    BY DEF IInv, Typed, OpeningPosted
  <2> QED BY <2>1, <2>2
<1>4. ASSUME NEW d \in Docs PROVE RowIs(doc[d]) /\ SourceIs(d) /\ PostedIs(d) /\ doc[d].src = None
  <2>1. CASE d \in DOMAIN Given
    <3>1. doc[d] = Given[d] /\ Issued(doc[d]) /\ doc[d].kind # None /\ doc[d].src = None /\ doc[d].qty >= 1 /\ doc[d].date \in Days
      BY <1>1, <2>1 DEF StartsSound
    <3>2. posted[d] = Sign(doc[d].kind) * doc[d].qty
      BY DEF Init
    <3>3. RowIs(doc[d]) /\ SourceIs(d) /\ ~MovedBefore(d)
      BY <3>1 DEF RowIs, SourceIs, MovedBefore, Issued
    <3> DEFINE m == Sign(doc[d].kind) * doc[d].qty
    <3>4. posted[d] = m
      BY <3>2
    <3>5. PostedIs(d) <=> IF Issued(doc[d]) THEN (posted[d] = m \/ (posted[d] = 0 /\ MovedUpstream(d))) /\ (MovedBefore(d) => posted[d] = 0)
                         ELSE posted[d] = 0 /\ (MovedBefore(d) => posted[d] = 0)
      BY Zenon DEF PostedIs
    <3> HIDE DEF m
    <3>6. PostedIs(d)
      BY <3>1, <3>3, <3>4, <3>5
    <3> QED BY <3>1, <3>3, <3>6
  <2>2. CASE d \notin DOMAIN Given
    <3>1. doc[d].status = "absent" /\ doc[d].kind = None /\ doc[d].src = None /\ doc[d].qty = 0
      BY <1>1, <2>2 DEF Absent
    <3>2. posted[d] = 0
      BY <1>3, <2>2 DEF OpeningPosted
    <3>3. RowIs(doc[d]) /\ SourceIs(d) /\ ~Issued(doc[d])
      BY <3>1 DEF RowIs, SourceIs, Issued
    <3>4. PostedIs(d)
      BY <3>2, <3>3 DEF PostedIs
    <3> QED BY <3>1, <3>3, <3>4
  <2> QED BY <2>1, <2>2
<1>5. \A s \in Docs : OneOnward(s)
  BY <1>4 DEF OneOnward, Onward, From, StartsSound
<1>6. TasksAreSound
  BY DEF Init, TasksAreSound, TaskIs, Is, Idle, Issuing, Cancelling
<1>7. ASSUME NEW t \in Days PROVE OnDay(t) >= 0
  <2>1. \A d \in Docs : doc[d].date \in 1 .. t <=> d \in DOMAIN Given /\ Given[d].date \in 1 .. t
    <3>1. ~(0 \in 1 .. t)
      OBVIOUS
    <3>2. Absent.date = 0
      BY DEF Absent
    <3> QED BY <1>1, <3>1, <3>2
  <2>2. {d \in Docs : doc[d].date \in 1 .. t} = {d \in Docs : d \in DOMAIN Given /\ Given[d].date \in 1 .. t}
    BY <2>1
  <2>3. counted = Opening
    BY DEF Init
  <2>4. OnDay(t) = SumFunctionOnSet(Opening, 1 .. t)
                     + SumFunctionOnSet(OpeningPosted, {d \in Docs : d \in DOMAIN Given /\ Given[d].date \in 1 .. t})
    BY <1>3, <2>2, <2>3 DEF OnDay
  <2> QED BY <2>4 DEF StartsSound
<1>8. NothingSoldTwice
  BY <1>7, DaysKnown DEF NothingSoldTwice, OnHand
<1> QED BY <1>4, <1>5, <1>6, <1>8 DEF GoodsInv, RowsAreSound

LEMMA StepSound == ASSUME Bounded, StartsSound, IInv, IInv', GoodsInv, [Next]_vars PROVE GoodsInv'
<1>1. ASSUME NEW n \in New, NEW kind \in Fresh, NEW q \in 1 .. MaxQty, NEW t \in Days, Create(n, kind, q, t) PROVE GoodsInv'
  BY <1>1, MadeSound
<1>2. ASSUME NEW d \in Docs, NEW t \in Days, NEW q \in {-1, 1}, Close(d) \/ AdjustStock(t, q) PROVE GoodsInv'
  BY <1>2, CloseSound, CountSound
<1>3. ASSUME NEW r \in Requests, NEW d \in Docs,
             \/ \E to \in Conversions(doc[d].kind) : ReadToConvert(r, d, to)
             \/ ReadToEdit(r, d) \/ ReadToRemove(r, d) \/ ReadToDecide(r, d)
      PROVE  GoodsInv'
  BY <1>3, ReadSound
<1>4. ASSUME NEW r \in Requests, NEW d \in Docs, Cancel(r, d) PROVE GoodsInv'
  BY <1>4, CancelSound
<1>5. ASSUME NEW r \in Requests, NEW d \in Docs, NEW staff \in BOOLEAN, FinalizeDocument(r, d, staff) PROVE GoodsInv'
  BY <1>5, TakeSound DEF FinalizeDocument
<1>6. ASSUME NEW r \in Requests, FinalizeApproved(r) PROVE GoodsInv'
  <2>1. D(r) \in Docs /\ TakeDraft(r, D(r), FALSE)
    BY <1>6, AtRow DEF FinalizeApproved, Is
  <2> QED BY <2>1, TakeSound
<1>7. ASSUME NEW r \in Requests, NEW n \in New, InsertCopy(r, n) PROVE GoodsInv'
  BY <1>7, CopySound
<1>8. ASSUME NEW r \in Requests, NEW q \in 1 .. MaxQty, NEW t \in Days, WriteEdit(r, q, t) PROVE GoodsInv'
  BY <1>8, EditSound
<1>9. ASSUME NEW r \in Requests, NEW verdict \in {"approved", "rejected"}, Decide(r, verdict) PROVE GoodsInv'
  BY <1>9, DecideSound
<1>10. ASSUME NEW r \in Requests, Overtaken(r) \/ NoDraftLeft(r) \/ Rollback(r) PROVE GoodsInv'
  BY <1>10, LeftSound
<1>11. ASSUME NEW r \in Requests, Delete(r) \/ LockSource(r) \/ LockItem(r) \/ LockItemBack(r) PROVE GoodsInv'
  BY <1>11, DeleteSound, SourceSound, LockSound, LockBackSound
<1>12. ASSUME NEW r \in Requests, IssueUnmoved(r) \/ Issue(r) \/ Reverse(r) PROVE GoodsInv'
  BY <1>12, UnmovedSound, IssueSound, ReverseSound
<1>13. CASE UNCHANGED vars
  <2>1. UNCHANGED <<doc, posted, counted, noted>> /\ OthersStay(Free) /\ Free \notin Requests
    BY <1>13, NobodysStep DEF vars
  <2> QED BY <2>1, RowsLeft
<1> QED BY <1>1, <1>2, <1>3, <1>4, <1>5, <1>6, <1>7, <1>8, <1>9, <1>10, <1>11, <1>12, <1>13 DEF Next

-----------------------------------------------------------------------------
(* Goods move once *)

\* What has posted below an order or a note was made from it directly: what was made from that moved with it.
LEMMA PostedBelow ==
  ASSUME StartsSound, IInv, RowsAreSound, NEW o \in Docs, NEW d \in Chain(o), posted[d] # 0
  PROVE  d \in Onward(o)
<1>1. d \in Docs /\ o \in Sources(d) /\ doc[d].kind \notin Returns
  BY DEF Chain
<1>2. Issued(doc[d]) /\ ~MovedBefore(d)
  BY <1>1 DEF RowsAreSound, PostedIs
<1> DEFINE s == doc[d].src
<1>3. s # None /\ s \in Docs /\ o \in {s, doc[s].src}
  BY <1>1, SrcTyped DEF Sources
<1>4. CASE o = s
  BY <1>1, <1>2, <1>4 DEF Onward, From, Live, Issued
<1>5. CASE o = doc[s].src
  <2>1. doc[d].kind \in Conversions(doc[s].kind) /\ doc[s].kind \notin Carriers
    BY <1>1, <1>2, <1>3 DEF RowsAreSound, SourceIs, MovedBefore
  <2>2. doc[s].kind \in {"salesOrder", "purchaseOrder"}
    BY <1>1, <2>1, KindFacts
  <2>3. doc[s].kind \in Conversions(doc[o].kind)
    BY <1>3, <1>5 DEF RowsAreSound, SourceIs, StartsSound
  <2>4. FALSE
    BY <2>2, <2>3 DEF Conversions
  <2> QED BY <2>4
<1> QED BY <1>3, <1>4, <1>5

LEMMA MovesOnce == ASSUME StartsSound, IInv, RowsAreSound PROVE GoodsMoveOnce
<1> SUFFICES ASSUME NEW o \in Docs, noted \cap ({o} \cup Chain(o)) = {}
             PROVE  Cardinality({d \in Chain(o) : posted[d] # 0}) <= 1
  BY DEF GoodsMoveOnce
<1> DEFINE X == {d \in Chain(o) : posted[d] # 0}
<1>1. \A c, e \in Onward(o) : c = e
  BY DEF RowsAreSound, OneOnward
<1>2. \A c, e \in X : c = e
  BY <1>1, PostedBelow
<1> HIDE DEF X
<1>3. CASE X = {}
  BY <1>3, FS_EmptySet DEF X
<1>4. CASE X # {}
  <2>1. PICK c : X = {c}
    BY <1>2, <1>4
  <2>2. Cardinality(X) = 1
    BY <2>1, FS_Singleton
  <2> QED BY <2>2 DEF X
<1> QED BY <1>3, <1>4

(* No sale, return or cancellation takes the item below zero, in all or on a day, but for a  *)
(* count that asks only for the total; the ledger holds what the documents say; and the      *)
(* goods of an order move once, unless two documents were made from one at once (postStock,  *)
(* reverseStock, movedUpstream, conversionBlock): for any documents, days and requests.      *)
THEOREM StockIsRight == ASSUME Bounded, StartsSound PROVE Spec => [](StockIsSound /\ GoodsMoveOnce)
<1>1. Init => IInv /\ GoodsInv
  BY InitIInv, StartSound
<1>2. IInv /\ GoodsInv /\ [Next]_vars => IInv' /\ GoodsInv'
  BY NextIInv, StepSound
<1>3. IInv /\ GoodsInv => StockIsSound /\ GoodsMoveOnce
  BY MovesOnce DEF GoodsInv, StockIsSound, LedgerFollowsDocuments, RowsAreSound, PostedIs, Issued
<1> QED BY <1>1, <1>2, <1>3, PTL DEF Spec
=============================================================================
