----------------------------- MODULE Device_proofs -----------------------------
(***************************************************************************)
(* The log never changes behind a device: for any rows, requests and       *)
(* bounds, no change ever appears in it at or before the device's cursor,  *)
(* nor before the one an answer under way will give it.                    *)
(*                                                                         *)
(* Why: every position a device has, or is being given, was settled when   *)
(* the server chose it, so it is older than every transaction still        *)
(* running; those begun since are younger than all that was in the log.    *)
(*                                                                         *)
(* So the copy of the device is true, or a change that makes it so is      *)
(* still to come: an answer leaves out of what it passes over only what is *)
(* dead, and a row that is dead has its delete for its last change.        *)
(*                                                                         *)
(* What it has to send is sound as well, for any number of edits, faults   *)
(* and choices of the person.  Why: copies of one entry agree on the edit, *)
(* what was on screen and whether they carry a version; the first of them  *)
(* to arrive decides; what a person is told follows from the answer kept   *)
(* for it; and an entry is not sent before those ahead of it were tried.   *)
(***************************************************************************)
EXTENDS MCDevice, SumTheorems, SequenceTheorems

-----------------------------------------------------------------------------
(* What a device holds of the books *)

(* What the constants are, in the code: rows, their businesses, the account's *)
Sane == CompanyOf \in [Entities -> Entities] /\ Members0 \subseteq Companies /\ Foundings \subseteq Seq(Entities)

(* A change has the id of its transaction, the ones of a transaction are numbered as they are written, *)
(* and ids are given in order.                                                                         *)
IdsInOrder ==
  /\ \A r \in Requests :
       /\ tx[r].id < nextTx /\ IsFiniteSet(tx[r].rows)
       /\ \A c \in tx[r].rows : c.tx = tx[r].id /\ c.n <= Cardinality(tx[r].rows)
  /\ \A c \in log : c.tx < nextTx

(* What is older than every transaction that runs, or will *)
Behind(i) == i < nextTx /\ \A r \in Open : i < tx[r].id
CursorBehind(at) == Behind(at.at.tx) /\ Behind(at.upTo.tx)
TaskBehind(t) ==
  /\ CursorBehind(t.since) /\ CursorBehind(t.next) /\ Behind(t.upTo.tx)
  /\ \A c \in t.rows : Behind(c.tx)
AllBehind == CursorBehind(cursor) /\ \A p \in Pullers : TaskBehind(task[p])

IInv == TypeOK /\ IdsInOrder /\ AllBehind

(* There is a latest among the changes of one transaction. *)
LEMMA LastExists ==
  ASSUME NEW S, S # {}, NEW k \in Nat, NEW i \in Nat, \A c \in S : c.tx = i /\ c.n \in Nat /\ c.n <= k
  PROVE  \E c \in S : IsLast(c, S)
<1> DEFINE Left == {k - c.n : c \in S}
<1>1. Left \subseteq Nat /\ Left # {}
  OBVIOUS
<1>2. PICK m \in Left : \A x \in Left : ~ (<<x, m>> \in OpToRel(<, Nat))
  <2>1. IsWellFoundedOn(OpToRel(<, Nat), Nat)
    BY NatLessThanWellFounded
  <2> HIDE DEF Left
  <2> QED BY <1>1, <2>1, WFMin
<1>3. \A x \in Left : ~(x < m)
  BY <1>1, <1>2 DEF OpToRel
<1>4. PICK c \in S : m = k - c.n
  BY <1>2
<1>5. ASSUME NEW d \in S PROVE ~Before(c, d)
  <2>1. k - d.n \in Left
    OBVIOUS
  <2>2. ~(k - d.n < k - c.n)
    BY <1>3, <1>4, <2>1
  <2>3. c.n \in Nat /\ d.n \in Nat /\ c.tx = i /\ d.tx = i
    OBVIOUS
  <2> QED BY <2>2, <2>3 DEF Before
<1> QED BY <1>5 DEF IsLast

LEMMA InitIInv == ASSUME Sane, Init PROVE IInv
<1>1. PICK f \in Foundings :
        /\ store = [e \in Entities |-> IF \E i \in DOMAIN f : f[i] = e THEN 1 ELSE Absent]
        /\ log = {[tx |-> 1, n |-> i, e |-> f[i], op |-> "upsert", version |-> 1] : i \in DOMAIN f}
  BY DEF Init
<1>2. \A i \in DOMAIN f : i \in Nat /\ f[i] \in Entities
  BY DEF Sane
<1>3. log \subseteq Change /\ \A c \in log : c.tx = 1
  BY <1>1, <1>2 DEF Change
<1>4. store \in [Entities -> Nat]
  BY <1>1 DEF Absent
<1>5. Start \in Position /\ Start.tx = 0
  BY DEF Start, Position
<1>6. Fresh \in Cursor /\ Fresh.at.tx = 0 /\ Fresh.upTo.tx = 0
  BY <1>5 DEF Fresh, Cursor
<1>7. Nothing \in [Entities -> Nat]
  BY DEF Nothing, Absent
<1>8. NoTask \in Tasks
  BY <1>5, <1>6, <1>7 DEF NoTask, Tasks
<1>9. NoTx \in [id : Nat, seen : [Entities -> Nat], rows : SUBSET Change]
  BY <1>7 DEF NoTx
<1>10. TypeOK
  <2>1. tx \in [Requests -> [id : Nat, seen : [Entities -> Nat], rows : SUBSET Change]] /\ task \in [Pullers -> Tasks]
    BY <1>8, <1>9 DEF Init
  <2>2. /\ nextTx \in Nat \ {0} /\ events \in Nat /\ session \in Nat /\ signedIn \in BOOLEAN /\ mixed \in BOOLEAN
        /\ cursor \in Cursor /\ copy \in [Entities -> Nat]
        /\ member \subseteq Companies /\ whole \subseteq Companies /\ gone \subseteq Entities
    <3>1. /\ nextTx = 2 /\ events = 0 /\ session = 0 /\ signedIn = FALSE /\ mixed = FALSE
          /\ cursor = Fresh /\ copy = Nothing /\ member = Members0 /\ whole = {} /\ gone = {}
      BY DEF Init
    <3>2. Members0 \subseteq Companies
      BY DEF Sane
    <3>3. signedIn \in BOOLEAN /\ mixed \in BOOLEAN
      BY <3>1
    <3>4. nextTx \in Nat \ {0} /\ events \in Nat /\ session \in Nat
      BY <3>1
    <3> QED BY <1>6, <1>7, <3>1, <3>2, <3>3, <3>4
  <2> QED BY <1>3, <1>4, <2>1, <2>2 DEF TypeOK
<1>11. IdsInOrder
  <2>1. nextTx = 2 /\ \A r \in Requests : tx[r].id = 0 /\ tx[r].rows = {}
    BY DEF Init, NoTx
  <2>2. 0 < nextTx /\ \A c \in log : c.tx < nextTx
    BY <1>3, <2>1
  <2> QED BY <2>1, <2>2, FS_EmptySet DEF IdsInOrder
<1>12. AllBehind
  <2>1. Open = {} /\ nextTx = 2
    BY DEF Init, Open, NoTx
  <2>2. Behind(0)
    BY <2>1 DEF Behind
  <2>3. TaskBehind(NoTask)
    BY <1>5, <1>6, <2>2 DEF TaskBehind, CursorBehind, NoTask
  <2> QED BY <1>6, <2>2, <2>3 DEF AllBehind, CursorBehind, Init
<1> QED BY <1>10, <1>11, <1>12 DEF IInv

-----------------------------------------------------------------------------
(* Writing *)

(* What a transaction sees of a row has a version. *)
LEMMA CurrentType ==
  ASSUME IInv, NEW r \in Requests, NEW e \in Entities
  PROVE  Current(r, e) \in Nat
<1> DEFINE W == Written(r, e)
<1>1. tx[r] \in [id : Nat, seen : [Entities -> Nat], rows : SUBSET Change] /\ store[e] \in Nat
  BY DEF IInv, TypeOK
<1>2. CASE W = {}
  BY <1>1, <1>2 DEF Current
<1>3. CASE W # {}
  <2>1. Cardinality(tx[r].rows) \in Nat
    BY FS_CardinalityType DEF IInv, IdsInOrder
  <2>2. \A c \in W : c \in Change /\ c.tx = tx[r].id /\ c.n \in Nat /\ c.n <= Cardinality(tx[r].rows)
    BY <1>1 DEF Written, IInv, IdsInOrder, Change
  <2>3. \E c \in W : IsLast(c, W)
    <3> HIDE DEF W
    <3> QED BY <1>1, <1>3, <2>1, <2>2, LastExists
  <2> DEFINE c == CHOOSE c \in W : IsLast(c, W)
  <2>4. c \in W
    BY <2>3
  <2>5. c.version \in Nat
    BY <2>2, <2>4 DEF Change
  <2>6. Current(r, e) = IF c.op = "delete" THEN Absent ELSE c.version
    BY <1>3 DEF Current
  <2> QED BY <2>5, <2>6 DEF Absent
<1> QED BY <1>2, <1>3

(* A position stays behind while the transactions that open are the newest. *)
LEMMA BehindKept ==
  ASSUME TypeOK, NEW i \in Nat, Behind(i), nextTx' \in {nextTx, nextTx + 1},
         \A r \in Requests : tx'[r].id \in {0, tx[r].id, nextTx}
  PROVE  Behind(i)'
<1>1. nextTx \in Nat /\ \A r \in Requests : tx[r].id \in Nat
  BY DEF TypeOK
<1> QED BY <1>1 DEF Behind, Open

LEMMA DeviceBehindKept ==
  ASSUME IInv, UNCHANGED device, nextTx' \in {nextTx, nextTx + 1},
         \A r \in Requests : tx'[r].id \in {0, tx[r].id, nextTx}
  PROVE  AllBehind'
<1>1. \A i \in Nat : Behind(i) => Behind(i)'
  BY BehindKept DEF IInv
<1>2. cursor' = cursor /\ task' = task
  BY DEF device
<1>3. cursor \in Cursor /\ \A p \in Pullers : task[p] \in Tasks
  BY DEF IInv, TypeOK
<1>4. \A at \in Cursor : at.at.tx \in Nat /\ at.upTo.tx \in Nat
  BY DEF Cursor, Position
<1>5. ASSUME NEW at \in Cursor, CursorBehind(at) PROVE CursorBehind(at)'
  BY <1>1, <1>4, <1>5 DEF CursorBehind
<1>6. ASSUME NEW p \in Pullers PROVE TaskBehind(task[p])'
  <2>1. /\ task[p].since \in Cursor /\ task[p].next \in Cursor /\ task[p].upTo.tx \in Nat
        /\ \A c \in task[p].rows : c.tx \in Nat
    BY <1>3 DEF Tasks, Position, Change
  <2>2. TaskBehind(task[p])
    BY DEF IInv, AllBehind
  <2> QED BY <1>1, <1>2, <1>5, <2>1, <2>2 DEF TaskBehind
<1>7. CursorBehind(cursor)'
  BY <1>2, <1>3, <1>5 DEF IInv, AllBehind
<1> QED BY <1>6, <1>7 DEF AllBehind

(* A write is logged under its transaction's id, after the others of it. *)
LEMMA LoggedStep ==
  ASSUME IInv, NEW r \in Open, NEW e \in Entities, NEW op \in {"upsert", "delete"}, NEW v \in Nat,
         Logged(r, e, op, v), UNCHANGED <<store, nextTx, log, device>>
  PROVE  IInv'
<1> DEFINE rows == tx[r].rows
           k == Cardinality(rows)
           c == [tx |-> tx[r].id, n |-> k + 1, e |-> e, op |-> op, version |-> v]
<1>1. /\ r \in Requests /\ tx \in [Requests -> [id : Nat, seen : [Entities -> Nat], rows : SUBSET Change]]
      /\ nextTx \in Nat
  BY DEF Open, IInv, TypeOK
<1>2. tx' = [tx EXCEPT ![r].rows = rows \cup {c}]
  BY DEF Logged
<1>3. tx[r] \in [id : Nat, seen : [Entities -> Nat], rows : SUBSET Change]
  BY <1>1
<1>4. IsFiniteSet(rows) /\ k \in Nat /\ \A d \in rows : d.tx = tx[r].id /\ d.n <= k
  BY <1>1, FS_CardinalityType DEF IInv, IdsInOrder
<1>5. c \in Change
  BY <1>3, <1>4 DEF Change
<1>6. c \notin rows
  BY <1>4
<1>7. IsFiniteSet(rows \cup {c}) /\ Cardinality(rows \cup {c}) = k + 1
  <2> HIDE DEF k, rows, c
  <2>1. IsFiniteSet(rows) /\ k = Cardinality(rows)
    BY <1>4 DEF k
  <2> QED BY <1>6, <2>1, FS_AddElement
<1>8. /\ tx' \in [Requests -> [id : Nat, seen : [Entities -> Nat], rows : SUBSET Change]]
      /\ tx'[r].rows = rows \cup {c} /\ tx'[r].id = tx[r].id
      /\ \A q \in Requests : q # r => tx'[q] = tx[q]
  <2> HIDE DEF c
  <2> QED BY <1>1, <1>2, <1>3, <1>5
<1>9. TypeOK'
  BY <1>8 DEF IInv, TypeOK, device
<1>10. IdsInOrder'
  <2>1. tx'[r].id < nextTx' /\ IsFiniteSet(tx'[r].rows)
    BY <1>1, <1>7, <1>8 DEF IInv, IdsInOrder
  <2>2. \A d \in tx'[r].rows : d.tx = tx'[r].id /\ d.n <= Cardinality(tx'[r].rows)
    <3>1. \A d \in rows : d.n \in Nat
      BY <1>3 DEF Change
    <3>2. \A d \in rows : d.n <= k + 1
      <4> HIDE DEF k
      <4> QED BY <1>4, <3>1
    <3>3. c.tx = tx[r].id /\ c.n = k + 1 /\ k + 1 <= k + 1
      BY <1>4
    <3> HIDE DEF c, k, rows
    <3> QED BY <1>4, <1>7, <1>8, <3>2, <3>3
  <2>3. ASSUME NEW q \in Requests, q # r
        PROVE  /\ tx'[q].id < nextTx' /\ IsFiniteSet(tx'[q].rows)
               /\ \A d \in tx'[q].rows : d.tx = tx'[q].id /\ d.n <= Cardinality(tx'[q].rows)
    BY <1>8, <2>3 DEF IInv, IdsInOrder
  <2> QED BY <2>1, <2>2, <2>3 DEF IInv, IdsInOrder
<1>11. AllBehind'
  BY <1>8, DeviceBehindKept
<1> QED BY <1>9, <1>10, <1>11 DEF IInv

LEMMA BeginStep ==
  ASSUME IInv, NEW r \in Requests, Begin(r)
  PROVE  IInv'
<1> DEFINE t == [id |-> nextTx, seen |-> store, rows |-> {}]
<1>1. /\ tx \in [Requests -> [id : Nat, seen : [Entities -> Nat], rows : SUBSET Change]]
      /\ nextTx \in Nat \ {0} /\ store \in [Entities -> Nat]
  BY DEF IInv, TypeOK
<1>2. tx' = [tx EXCEPT ![r] = t] /\ nextTx' = nextTx + 1 /\ UNCHANGED <<store, log, device>>
  BY DEF Begin
<1>3. /\ tx' \in [Requests -> [id : Nat, seen : [Entities -> Nat], rows : SUBSET Change]]
      /\ tx'[r].id = nextTx /\ tx'[r].rows = {} /\ \A q \in Requests : q # r => tx'[q] = tx[q]
  BY <1>1, <1>2
<1>4. TypeOK'
  BY <1>1, <1>2, <1>3 DEF IInv, TypeOK, device
<1>5. IdsInOrder'
  <2>1. \A q \in Requests : tx[q].id \in Nat /\ tx[q].id < nextTx
    BY <1>1 DEF IInv, IdsInOrder
  <2>2. \A c \in log : c.tx \in Nat /\ c.tx < nextTx
    BY DEF IInv, IdsInOrder, TypeOK, Change
  <2>3. tx'[r].id < nextTx' /\ \A q \in Requests : q # r => tx'[q].id < nextTx'
    BY <1>1, <1>2, <1>3, <2>1
  <2>4. \A c \in log' : c.tx < nextTx'
    BY <1>1, <1>2, <2>2
  <2>5. IsFiniteSet(tx'[r].rows)
    BY <1>3, FS_EmptySet
  <2> QED BY <1>3, <2>3, <2>4, <2>5 DEF IInv, IdsInOrder
<1>6. AllBehind'
  BY <1>2, <1>3, DeviceBehindKept
<1> QED BY <1>4, <1>5, <1>6 DEF IInv

LEMMA DeleteAtOnceStep ==
  ASSUME IInv, NEW r \in Requests, NEW e \in Entities, DeleteAtOnce(r, e)
  PROVE  IInv'
<1> DEFINE c == [tx |-> nextTx, n |-> 1, e |-> e, op |-> "delete", version |-> store[e] + 1]
           t == [id |-> nextTx, seen |-> store, rows |-> {c}]
<1>1. /\ tx \in [Requests -> [id : Nat, seen : [Entities -> Nat], rows : SUBSET Change]]
      /\ nextTx \in Nat \ {0} /\ store \in [Entities -> Nat]
  BY DEF IInv, TypeOK
<1>2. tx' = [tx EXCEPT ![r] = t] /\ nextTx' = nextTx + 1 /\ UNCHANGED <<store, log, device>>
  BY DEF DeleteAtOnce
<1>3. c \in Change /\ c.tx = nextTx /\ c.n = 1
  BY <1>1 DEF Change
<1>4. IsFiniteSet({c}) /\ Cardinality({c}) = 1
  BY FS_Singleton
<1>5. /\ tx' \in [Requests -> [id : Nat, seen : [Entities -> Nat], rows : SUBSET Change]]
      /\ tx'[r].id = nextTx /\ tx'[r].rows = {c} /\ \A q \in Requests : q # r => tx'[q] = tx[q]
  <2> HIDE DEF c
  <2> QED BY <1>1, <1>2, <1>3
<1>6. TypeOK'
  BY <1>1, <1>2, <1>5 DEF IInv, TypeOK, device
<1>7. IdsInOrder'
  <2>1. \A q \in Requests : tx[q].id \in Nat /\ tx[q].id < nextTx
    BY <1>1 DEF IInv, IdsInOrder
  <2>2. \A d \in log : d.tx \in Nat /\ d.tx < nextTx
    BY DEF IInv, IdsInOrder, TypeOK, Change
  <2>3. tx'[r].id < nextTx' /\ \A q \in Requests : q # r => tx'[q].id < nextTx'
    BY <1>1, <1>2, <1>5, <2>1
  <2>4. \A d \in log' : d.tx < nextTx'
    BY <1>1, <1>2, <2>2
  <2>5. IsFiniteSet(tx'[r].rows) /\ \A d \in tx'[r].rows : d.tx = tx'[r].id /\ d.n <= Cardinality(tx'[r].rows)
    <3> HIDE DEF c
    <3> QED BY <1>3, <1>4, <1>5
  <2> QED BY <1>5, <2>3, <2>4, <2>5 DEF IInv, IdsInOrder
<1>8. AllBehind'
  BY <1>2, <1>5, DeviceBehindKept
<1> QED BY <1>6, <1>7, <1>8 DEF IInv

LEMMA FinishStep ==
  ASSUME IInv, NEW r \in Requests, Finishes(r)
  PROVE  IInv'
<1>1. /\ tx \in [Requests -> [id : Nat, seen : [Entities -> Nat], rows : SUBSET Change]] /\ nextTx \in Nat
      /\ log \subseteq Change
  BY DEF IInv, TypeOK
<1>2. /\ r \in Open /\ tx' = [tx EXCEPT ![r] = NoTx] /\ UNCHANGED <<nextTx, device>>
      /\ log' = log \/ log' = log \cup tx[r].rows
      /\ store' = store \/ store' = [e \in Entities |-> Current(r, e)]
  BY DEF Finishes, Commit, Abort
<1>3. NoTx \in [id : Nat, seen : [Entities -> Nat], rows : SUBSET Change] /\ NoTx.id = 0 /\ NoTx.rows = {}
  BY DEF NoTx, Nothing, Absent
<1>4. /\ tx' \in [Requests -> [id : Nat, seen : [Entities -> Nat], rows : SUBSET Change]]
      /\ tx'[r].id = 0 /\ tx'[r].rows = {} /\ \A q \in Requests : q # r => tx'[q] = tx[q]
  BY <1>1, <1>2, <1>3
<1>5. tx[r].rows \subseteq Change /\ \A c \in tx[r].rows : c.tx < nextTx
  BY <1>1 DEF IInv, IdsInOrder
<1>6. TypeOK'
  <2>1. store' \in [Entities -> Nat]
    BY <1>2, CurrentType DEF IInv, TypeOK
  <2>2. log' \subseteq Change
    BY <1>1, <1>2, <1>5
  <2> QED BY <1>2, <1>4, <2>1, <2>2 DEF IInv, TypeOK, device
<1>7. IdsInOrder'
  <2>1. tx'[r].id < nextTx' /\ IsFiniteSet(tx'[r].rows)
    <3>1. 0 < nextTx
      BY DEF IInv, TypeOK
    <3> QED BY <1>2, <1>4, <3>1, FS_EmptySet
  <2> QED BY <1>2, <1>4, <1>5, <2>1 DEF IInv, IdsInOrder
<1>8. AllBehind'
  BY <1>2, <1>4, DeviceBehindKept
<1> QED BY <1>6, <1>7, <1>8 DEF IInv

-----------------------------------------------------------------------------
(* Pulling and applying *)

(* A step of the device, or of the server for it: what it holds is of its type, and stays behind. *)
LEMMA DeviceStep ==
  ASSUME IInv, UNCHANGED server, task' \in [Pullers -> Tasks], cursor' \in Cursor,
         copy' \in [Entities -> Nat], member' \subseteq Companies, whole' \subseteq Companies, gone' \subseteq Entities,
         signedIn' \in BOOLEAN, mixed' \in BOOLEAN, session' \in Nat, events' \in Nat,
         CursorBehind(cursor'), \A p \in Pullers : TaskBehind(task'[p])
  PROVE  IInv'
<1>1. TypeOK'
  BY DEF IInv, TypeOK, server
<1>2. IdsInOrder'
  BY DEF IInv, IdsInOrder, server
<1>3. AllBehind'
  <2>1. nextTx' = nextTx /\ tx' = tx
    BY DEF server
  <2>2. CursorBehind(cursor)' = CursorBehind(cursor')
    BY <2>1 DEF CursorBehind, Behind, Open
  <2>3. \A p \in Pullers : TaskBehind(task[p])' = TaskBehind(task'[p])
    BY <2>1 DEF TaskBehind, CursorBehind, Behind, Open
  <2> QED BY <2>2, <2>3 DEF AllBehind
<1> QED BY <1>1, <1>2, <1>3 DEF IInv

(* One puller's task is replaced. *)
LEMMA TaskStep ==
  ASSUME IInv, NEW p \in Pullers, NEW t \in Tasks, TaskBehind(t), task' = [task EXCEPT ![p] = t]
  PROVE  task' \in [Pullers -> Tasks] /\ \A q \in Pullers : TaskBehind(task'[q])
<1>1. task \in [Pullers -> Tasks] /\ \A q \in Pullers : TaskBehind(task[q])
  BY DEF IInv, TypeOK, AllBehind
<1> QED BY <1>1

LEMMA Beginning ==
  ASSUME IInv
  PROVE  Fresh \in Cursor /\ CursorBehind(Fresh) /\ NoTask \in Tasks /\ TaskBehind(NoTask)
         /\ Start \in Position /\ Behind(Start.tx) /\ Nothing \in [Entities -> Nat]
<1>1. Start \in Position /\ Start.tx = 0
  BY DEF Start, Position
<1>2. Fresh \in Cursor /\ Fresh.at = Start /\ Fresh.upTo = Start
  BY <1>1 DEF Fresh, Cursor
<1>3. Nothing \in [Entities -> Nat]
  BY DEF Nothing, Absent
<1>4. NoTask \in Tasks
  BY <1>1, <1>2, <1>3 DEF NoTask, Tasks
<1>5. Behind(0)
  <2>1. nextTx \in Nat \ {0} /\ \A r \in Requests : tx[r].id \in Nat
    BY DEF IInv, TypeOK
  <2> QED BY <2>1 DEF Behind, Open
<1>6. CursorBehind(Fresh)
  BY <1>1, <1>2, <1>5 DEF CursorBehind
<1>7. TaskBehind(NoTask)
  BY <1>1, <1>5, <1>6 DEF TaskBehind, NoTask
<1> QED BY <1>1, <1>2, <1>3, <1>4, <1>5, <1>6, <1>7

(* The steps of the sync run and of a reload that leave the cursor as it is *)
LEMMA TaskOnlyStep ==
  ASSUME IInv, UNCHANGED server, NEW p \in Pullers, NEW t \in Tasks, TaskBehind(t), task' = [task EXCEPT ![p] = t],
         UNCHANGED <<member, signedIn, session, cursor>>, copy' \in [Entities -> Nat],
         whole' \subseteq Companies, gone' \subseteq Entities, mixed' \in BOOLEAN, events' \in Nat
  PROVE  IInv'
<1>1. task' \in [Pullers -> Tasks] /\ \A q \in Pullers : TaskBehind(task'[q])
  BY TaskStep
<1>2. cursor' \in Cursor /\ CursorBehind(cursor') /\ member' \subseteq Companies /\ signedIn' \in BOOLEAN /\ session' \in Nat
  BY DEF IInv, TypeOK, AllBehind
<1> QED BY <1>1, <1>2, DeviceStep

LEMMA ChosenStep ==
  ASSUME IInv, NEW p \in Pullers, NEW rows \in SUBSET Change, NEW snapshot \in BOOLEAN, NEW upTo \in Position,
         NEW next \in Cursor, NEW more \in BOOLEAN,
         \A c \in rows : Behind(c.tx), Behind(upTo.tx), CursorBehind(next),
         Chosen(p, rows, snapshot, upTo, next, more)
  PROVE  IInv'
<1> DEFINE t == [task[p] EXCEPT !.st = "read", !.rows = rows, !.snapshot = snapshot, !.upTo = upTo, !.next = next,
                                !.more = more, !.covers = IF task[p].since = Fresh THEN member ELSE task[p].covers]
<1>1. task[p] \in Tasks /\ member \subseteq Companies /\ TaskBehind(task[p])
  BY DEF IInv, TypeOK, AllBehind
<1>2. t \in Tasks /\ t.since = task[p].since /\ t.next = next /\ t.upTo = upTo /\ t.rows = rows
  BY <1>1 DEF Tasks
<1>3. TaskBehind(t)
  <2> HIDE DEF t
  <2> QED BY <1>1, <1>2 DEF TaskBehind
<1>4. task' = [task EXCEPT ![p] = t] /\ UNCHANGED <<server, member, signedIn, session, cursor, copy, whole, mixed, events>>
  BY DEF Chosen
<1>5. gone' \subseteq Entities
  BY DEF Chosen, IInv, TypeOK
<1>6. copy' \in [Entities -> Nat] /\ whole' \subseteq Companies /\ mixed' \in BOOLEAN /\ events' \in Nat
  BY <1>4 DEF IInv, TypeOK
<1> HIDE DEF t
<1> QED BY <1>2, <1>3, <1>4, <1>5, <1>6, TaskOnlyStep

(* A change that is settled is older than every transaction that runs or will. *)
LEMMA SettledIsBehind ==
  ASSUME IInv, NEW c \in log, Settled(c)
  PROVE  c \in Change /\ Pos(c) \in Position /\ Pos(c).tx = c.tx /\ Behind(c.tx)
<1>1. c \in Change /\ c.tx < nextTx
  BY DEF IInv, TypeOK, IdsInOrder
<1>2. Pos(c) \in Position /\ Pos(c).tx = c.tx
  BY <1>1 DEF Pos, Position, Change
<1> QED BY <1>1, <1>2 DEF Settled, Behind

LEMMA PullChangesStep ==
  ASSUME IInv, NEW p \in Pullers, PullChanges(p)
  PROVE  IInv'
<1> DEFINE found == {c \in Served(p) : Settled(c) /\ Before(task[p].since.at, c)}
<1>1. Start \in Position /\ Behind(Start.tx)
  BY Beginning
<1>2. CASE Chosen(p, {}, FALSE, Start, task[p].since, FALSE)
  <2>1. task[p].since \in Cursor /\ CursorBehind(task[p].since)
    BY DEF IInv, TypeOK, Tasks, AllBehind, TaskBehind
  <2>2. {} \in SUBSET Change /\ (\A c \in {} : Behind(c.tx)) /\ FALSE \in BOOLEAN
    OBVIOUS
  <2> HIDE DEF found
  <2> QED BY <1>1, <1>2, <2>1, <2>2, ChosenStep
<1>3. ASSUME NEW last \in Page(found),
             Chosen(p, Collapsed(Page(found)), FALSE, Start, [at |-> Pos(last), snapshot |-> FALSE, upTo |-> Start],
                    Page(found) # found)
      PROVE  IInv'
  <2> DEFINE next == [at |-> Pos(last), snapshot |-> FALSE, upTo |-> Start]
             rows == Collapsed(Page(found))
  <2>1. last \in log /\ Settled(last) /\ \A c \in rows : c \in log /\ Settled(c)
    BY DEF Page, Collapsed, Served
  <2>2. rows \in SUBSET Change /\ \A c \in rows : Behind(c.tx)
    BY <2>1, SettledIsBehind
  <2>3. next \in Cursor /\ CursorBehind(next)
    BY <1>1, <2>1, SettledIsBehind DEF Cursor, CursorBehind
  <2> HIDE DEF next, rows
  <2>4. Chosen(p, rows, FALSE, Start, next, Page(found) # found)
    BY <1>3 DEF next, rows
  <2>5. (Page(found) # found) \in BOOLEAN
    OBVIOUS
  <2> HIDE DEF found
  <2> QED BY <1>1, <2>2, <2>3, <2>4, <2>5, ChosenStep
<1> QED BY <1>2, <1>3 DEF PullChanges

LEMMA PullSnapshotStep ==
  ASSUME IInv, NEW p \in Pullers, PullSnapshot(p)
  PROVE  IInv'
<1>1. PICK upTo \in {Start} \cup {Pos(c) : c \in log} :
        /\ AsOf(p, upTo)
        /\ LET found == InSnapshot(p, upTo)
               page == Page(found)
           IN \/ /\ page = found
                 /\ Chosen(p, page, TRUE, upTo, [at |-> upTo, snapshot |-> FALSE, upTo |-> Start], FALSE)
              \/ /\ page # found
                 /\ \E last \in page :
                      /\ IsLast(last, page)
                      /\ Chosen(p, page, TRUE, upTo, [at |-> Pos(last), snapshot |-> TRUE, upTo |-> upTo], TRUE)
  BY DEF PullSnapshot
<1>2. Start \in Position /\ Behind(Start.tx)
  BY Beginning
<1>3. task[p].since.upTo \in Position /\ Behind(task[p].since.upTo.tx)
  BY DEF IInv, TypeOK, Tasks, Cursor, AllBehind, TaskBehind, CursorBehind
<1>4. upTo \in Position /\ Behind(upTo.tx)
  <2>1. CASE upTo = task[p].since.upTo
    BY <1>3, <2>1
  <2>2. CASE upTo = Start
    BY <1>2, <2>2
  <2>3. ASSUME NEW c \in log, IsLast(c, {d \in Served(p) : Settled(d)}), upTo = Pos(c)
        PROVE  upTo \in Position /\ Behind(upTo.tx)
    <3>1. Settled(c)
      BY <2>3 DEF IsLast
    <3> QED BY <2>3, <3>1, SettledIsBehind
  <2> QED BY <1>1, <2>1, <2>2, <2>3 DEF AsOf
<1>5. ASSUME NEW c \in InSnapshot(p, upTo)
      PROVE  c \in Change /\ Pos(c) \in Position /\ Pos(c).tx = c.tx /\ Behind(c.tx)
  <2>1. c \in log /\ ~Before(upTo, c)
    BY DEF InSnapshot, Collapsed, Served
  <2>2. c \in Change /\ c.tx \in Nat /\ upTo.tx \in Nat /\ nextTx \in Nat /\ \A r \in Requests : tx[r].id \in Nat
    BY <1>4, <2>1 DEF IInv, TypeOK, Change, Position
  <2>3. c.tx <= upTo.tx
    BY <2>1, <2>2 DEF Before
  <2>4. Behind(c.tx)
    BY <1>4, <2>2, <2>3 DEF Behind, Open
  <2> QED BY <2>2, <2>4 DEF Pos, Position, Change
<1> DEFINE page == Page(InSnapshot(p, upTo))
<1>6. page \subseteq InSnapshot(p, upTo)
  BY DEF Page
<1>7. page \in SUBSET Change /\ \A c \in page : Behind(c.tx)
  BY <1>5, <1>6
<1> HIDE DEF page
<1>8. CASE Chosen(p, page, TRUE, upTo, [at |-> upTo, snapshot |-> FALSE, upTo |-> Start], FALSE)
  <2> DEFINE next == [at |-> upTo, snapshot |-> FALSE, upTo |-> Start]
  <2>1. next \in Cursor /\ CursorBehind(next)
    BY <1>2, <1>4 DEF Cursor, CursorBehind
  <2> HIDE DEF next
  <2>2. Chosen(p, page, TRUE, upTo, next, FALSE)
    BY <1>8 DEF next
  <2> QED BY <1>4, <1>7, <2>1, <2>2, ChosenStep
<1>9. ASSUME NEW last \in page, Chosen(p, page, TRUE, upTo, [at |-> Pos(last), snapshot |-> TRUE, upTo |-> upTo], TRUE)
      PROVE  IInv'
  <2> DEFINE next == [at |-> Pos(last), snapshot |-> TRUE, upTo |-> upTo]
  <2>1. next \in Cursor /\ CursorBehind(next)
    <3>1. last \in InSnapshot(p, upTo)
      BY <1>6
    <3>2. Pos(last) \in Position /\ Behind(Pos(last).tx)
      BY <1>5, <3>1
    <3> QED BY <1>4, <3>2 DEF Cursor, CursorBehind
  <2> HIDE DEF next
  <2>2. Chosen(p, page, TRUE, upTo, next, TRUE)
    BY <1>9 DEF next
  <2> QED BY <1>4, <1>7, <2>1, <2>2, ChosenStep
<1> QED BY <1>1, <1>8, <1>9 DEF page

LEMMA DataType == ASSUME IInv, NEW rows PROVE DataOf(rows) \in [Entities -> Nat]
  BY DEF IInv, TypeOK, DataOf, Absent

LEMMA ReadEntitiesStep ==
  ASSUME IInv, NEW p \in Pullers, ReadEntities(p)
  PROVE  IInv'
<1> DEFINE data == DataOf(task[p].rows)
           t == [task[p] EXCEPT !.st = "answer", !.data = data]
<1>1. task[p] \in Tasks /\ TaskBehind(task[p]) /\ data \in [Entities -> Nat]
  BY DataType DEF IInv, TypeOK, AllBehind
<1> HIDE DEF data
<1>2. t \in Tasks /\ TaskBehind(t)
  BY <1>1 DEF Tasks, TaskBehind
<1>3. task' = [task EXCEPT ![p] = t] /\ UNCHANGED <<server, member, signedIn, session, cursor, copy, whole, gone, mixed, events>>
  BY DEF ReadEntities, data
<1>4. copy' \in [Entities -> Nat] /\ whole' \subseteq Companies /\ gone' \subseteq Entities /\ mixed' \in BOOLEAN /\ events' \in Nat
  BY <1>3 DEF IInv, TypeOK
<1> HIDE DEF t
<1> QED BY <1>2, <1>3, <1>4, TaskOnlyStep

LEMMA ReadFailsStep ==
  ASSUME IInv, NEW p \in Pullers, NEW bad \in task[p].rows, ReadFails(p, bad)
  PROVE  IInv'
<1> DEFINE rows == {c \in task[p].rows : Before(c, bad)}
           data == DataOf(rows)
<1>1. task[p] \in Tasks /\ TaskBehind(task[p]) /\ data \in [Entities -> Nat]
  BY DataType DEF IInv, TypeOK, AllBehind
<1>2. rows \in SUBSET Change /\ \A c \in rows : Behind(c.tx)
  BY <1>1 DEF Tasks, TaskBehind
<1>3. UNCHANGED <<server, member, signedIn, session, cursor, copy, whole, gone, mixed>> /\ events' = events + 1
  BY DEF ReadFails, Happens
<1>4. copy' \in [Entities -> Nat] /\ whole' \subseteq Companies /\ gone' \subseteq Entities /\ mixed' \in BOOLEAN /\ events' \in Nat
  BY <1>3 DEF IInv, TypeOK
<1>5. CASE task' = [task EXCEPT ![p] = NoTask]
  BY <1>3, <1>4, <1>5, Beginning, TaskOnlyStep
<1>6. ASSUME NEW last \in rows,
             task' = [task EXCEPT ![p] = [@ EXCEPT !.st = "answer", !.rows = rows, !.data = data, !.more = TRUE,
                        !.next = [at |-> Pos(last), snapshot |-> task[p].snapshot, upTo |-> task[p].upTo]]]
      PROVE  IInv'
  <2> DEFINE next == [at |-> Pos(last), snapshot |-> task[p].snapshot, upTo |-> task[p].upTo]
  <2>1. next \in Cursor /\ CursorBehind(next)
    <3>1. last \in Change /\ Behind(last.tx) /\ task[p].upTo \in Position /\ Behind(task[p].upTo.tx)
          /\ task[p].snapshot \in BOOLEAN
      BY <1>1, <1>2 DEF Tasks, TaskBehind
    <3>2. Pos(last) \in Position /\ Pos(last).tx = last.tx
      BY <3>1 DEF Pos, Position, Change
    <3> QED BY <3>1, <3>2 DEF Cursor, CursorBehind
  <2> HIDE DEF next, rows, data
  <2> DEFINE t == [task[p] EXCEPT !.st = "answer", !.rows = rows, !.data = data, !.more = TRUE, !.next = next]
  <2>2. t \in Tasks /\ t.since = task[p].since /\ t.next = next /\ t.upTo = task[p].upTo /\ t.rows = rows
    BY <1>1, <1>2, <2>1 DEF Tasks
  <2>3. TaskBehind(t)
    <3> HIDE DEF t
    <3> QED BY <1>1, <1>2, <2>1, <2>2 DEF TaskBehind
  <2>4. task' = [task EXCEPT ![p] = t]
    BY <1>6 DEF next
  <2> HIDE DEF t
  <2> QED BY <1>3, <1>4, <2>2, <2>3, <2>4, TaskOnlyStep
<1> QED BY <1>5, <1>6 DEF ReadFails

LEMMA AppliedType ==
  ASSUME NEW have \in [Entities -> Nat], NEW t \in Tasks
  PROVE  Applied(have, t) \in [Entities -> Nat]
<1>1. t.data \in [Entities -> Nat]
  BY DEF Tasks
<1> QED BY <1>1 DEF Applied, Absent

LEMMA GoOnType ==
  ASSUME IInv, NEW t \in Tasks, TaskBehind(t), NEW todo \in SUBSET Companies
  PROVE  GoOn(t, todo) \in Tasks /\ TaskBehind(GoOn(t, todo))
<1>1. cursor \in Cursor /\ CursorBehind(cursor) /\ Fresh \in Cursor /\ CursorBehind(Fresh)
  BY Beginning DEF IInv, TypeOK, AllBehind
<1>2. CASE todo = {}
  <2> DEFINE u == [t EXCEPT !.st = "ask", !.of = All, !.todo = {}, !.since = cursor]
  <2>1. u \in Tasks /\ u.since = cursor /\ u.next = t.next /\ u.upTo = t.upTo /\ u.rows = t.rows
    BY <1>1 DEF Tasks
  <2>2. TaskBehind(u)
    <3> HIDE DEF u
    <3> QED BY <1>1, <2>1 DEF TaskBehind
  <2>3. GoOn(t, todo) = u
    BY <1>2 DEF GoOn, Onward
  <2> HIDE DEF u
  <2> QED BY <2>1, <2>2, <2>3
<1>3. CASE todo # {}
  <2> DEFINE c == CHOOSE c \in todo : TRUE
             u == [t EXCEPT !.st = "ask", !.of = c, !.todo = todo \ {c}, !.since = Fresh]
  <2>1. c \in Companies
    BY <1>3
  <2>2. GoOn(t, todo) = u
    BY <1>3 DEF GoOn
  <2> HIDE DEF c
  <2>3. u \in Tasks /\ u.since = Fresh /\ u.next = t.next /\ u.upTo = t.upTo /\ u.rows = t.rows
    BY <1>1, <2>1 DEF Tasks
  <2>4. TaskBehind(u)
    <3> HIDE DEF u
    <3> QED BY <1>1, <2>3 DEF TaskBehind
  <2> HIDE DEF u
  <2> QED BY <2>2, <2>3, <2>4
<1> QED BY <1>2, <1>3

(* What asks for the next page of a task *)
LEMMA NextPage ==
  ASSUME NEW t \in Tasks, TaskBehind(t), NEW held \in [Entities -> Nat]
  PROVE  LET u == [t EXCEPT !.st = "ask", !.since = t.next, !.held = held] IN u \in Tasks /\ TaskBehind(u)
<1> DEFINE u == [t EXCEPT !.st = "ask", !.since = t.next, !.held = held]
<1>1. u \in Tasks /\ u.since = t.next /\ u.next = t.next /\ u.upTo = t.upTo /\ u.rows = t.rows
  BY DEF Tasks
<1>2. TaskBehind(u)
  <2> HIDE DEF u
  <2> QED BY <1>1 DEF TaskBehind
<1> QED BY <1>1, <1>2

LEMMA NextPageOnly ==
  ASSUME NEW t \in Tasks, TaskBehind(t)
  PROVE  LET u == [t EXCEPT !.st = "ask", !.since = t.next] IN u \in Tasks /\ TaskBehind(u)
<1> DEFINE u == [t EXCEPT !.st = "ask", !.since = t.next]
<1>1. u \in Tasks /\ u.since = t.next /\ u.next = t.next /\ u.upTo = t.upTo /\ u.rows = t.rows
  BY DEF Tasks
<1>2. TaskBehind(u)
  <2> HIDE DEF u
  <2> QED BY <1>1 DEF TaskBehind
<1> QED BY <1>1, <1>2

LEMMA AskInSession ==
  ASSUME IInv
  PROVE  LET u == [NoTask EXCEPT !.session = session] IN u \in Tasks /\ TaskBehind(u)
<1> DEFINE u == [NoTask EXCEPT !.session = session]
<1>1. NoTask \in Tasks /\ TaskBehind(NoTask) /\ session \in Nat
  BY Beginning DEF IInv, TypeOK
<1>2. u \in Tasks /\ u.since = NoTask.since /\ u.next = NoTask.next /\ u.upTo = NoTask.upTo /\ u.rows = NoTask.rows
  BY <1>1 DEF Tasks
<1>3. TaskBehind(u)
  <2> HIDE DEF u
  <2> QED BY <1>1, <1>2 DEF TaskBehind
<1> QED BY <1>2, <1>3

LEMMA AccountStep ==
  ASSUME IInv, SignIn \/ SignOut \/ \E c \in Companies : Join(c)
  PROVE  IInv'
<1>1. Fresh \in Cursor /\ CursorBehind(Fresh) /\ Nothing \in [Entities -> Nat]
  BY Beginning
<1>2. /\ task \in [Pullers -> Tasks] /\ cursor \in Cursor /\ copy \in [Entities -> Nat] /\ store \in [Entities -> Nat]
      /\ member \subseteq Companies /\ whole \subseteq Companies /\ gone \subseteq Entities
      /\ signedIn \in BOOLEAN /\ mixed \in BOOLEAN /\ session \in Nat /\ events \in Nat
      /\ CursorBehind(cursor) /\ \A p \in Pullers : TaskBehind(task[p])
  BY DEF IInv, TypeOK, AllBehind
<1>3. /\ UNCHANGED <<server, task, gone, mixed>>
      /\ cursor' \in {cursor, Fresh} /\ whole' \in {whole, {}} /\ signedIn' \in {signedIn, TRUE, FALSE}
      /\ session' \in {session, session + 1} /\ events' \in {events, events + 1}
  BY DEF SignIn, SignOut, Join, Happens
<1>4. copy' \in [Entities -> Nat]
  BY <1>1, <1>2 DEF SignIn, SignOut, Join, Absent
<1>5. member' \subseteq Companies
  BY <1>2 DEF SignIn, SignOut, Join
<1>6. signedIn' \in BOOLEAN
  BY <1>2, <1>3
<1>7. session' \in Nat /\ events' \in Nat
  BY <1>2, <1>3
<1>8. cursor' \in Cursor /\ CursorBehind(cursor') /\ whole' \subseteq Companies
  BY <1>1, <1>2, <1>3
<1> QED BY <1>2, <1>3, <1>4, <1>5, <1>6, <1>7, <1>8, DeviceStep

(* What the steps below leave alone is of its type. *)
LEMMA DeviceTypes ==
  ASSUME IInv
  PROVE  /\ task \in [Pullers -> Tasks] /\ copy \in [Entities -> Nat] /\ cursor \in Cursor /\ CursorBehind(cursor)
         /\ member \subseteq Companies /\ whole \subseteq Companies /\ gone \subseteq Entities
         /\ mixed \in BOOLEAN /\ signedIn \in BOOLEAN /\ session \in Nat /\ events \in Nat
         /\ "sync" \in Pullers /\ "reload" \in Pullers
         /\ \A p \in Pullers : task[p] \in Tasks /\ TaskBehind(task[p])
  BY DEF IInv, TypeOK, AllBehind, Pullers

LEMMA StartStep ==
  ASSUME IInv, StartRun \/ StartReload
  PROVE  IInv'
<1>1. CASE StartRun
  <2> DEFINE fresh == [NoTask EXCEPT !.session = session]
             todo == {c \in member : copy[c] = Absent}
             t == GoOn(fresh, todo)
  <2>1. fresh \in Tasks /\ TaskBehind(fresh)
    BY AskInSession
  <2>2. todo \in SUBSET Companies
    BY DeviceTypes
  <2>3. t \in Tasks /\ TaskBehind(t)
    <3> HIDE DEF fresh, todo
    <3> QED BY <2>1, <2>2, GoOnType
  <2>4. task' = [task EXCEPT !["sync"] = t] /\ UNCHANGED <<server, member, signedIn, session, cursor, copy, whole, gone, mixed, events>>
    BY <1>1 DEF StartRun
  <2> HIDE DEF t
  <2> QED BY <2>3, <2>4, DeviceTypes, TaskOnlyStep
<1>2. CASE StartReload
  <2> DEFINE t == [NoTask EXCEPT !.st = "ask", !.session = session]
  <2>1. NoTask \in Tasks /\ TaskBehind(NoTask)
    BY Beginning
  <2>2. t \in Tasks /\ t.since = NoTask.since /\ t.next = NoTask.next /\ t.upTo = NoTask.upTo /\ t.rows = NoTask.rows
    BY <2>1, DeviceTypes DEF Tasks
  <2>3. TaskBehind(t)
    <3> HIDE DEF t
    <3> QED BY <2>1, <2>2 DEF TaskBehind
  <2>4. /\ task' = [task EXCEPT !["reload"] = t] /\ events' = events + 1
        /\ UNCHANGED <<server, member, signedIn, session, cursor, copy, whole, gone, mixed>>
    BY <1>2 DEF StartReload, Happens
  <2>5. events' \in Nat
    BY <2>4, DeviceTypes
  <2> HIDE DEF t
  <2> QED BY <2>2, <2>3, <2>4, <2>5, DeviceTypes, TaskOnlyStep
<1> QED BY <1>1, <1>2

LEMMA ApplyCompanyPageStep ==
  ASSUME IInv, ApplyCompanyPage
  PROVE  IInv'
<1> DEFINE t == task["sync"]
<1>1. /\ t.of # All /\ copy' = Applied(copy, t)
      /\ UNCHANGED <<server, member, signedIn, session, cursor, gone, mixed, events>>
  BY DEF ApplyCompanyPage
<1>2. t \in Tasks /\ TaskBehind(t)
  BY DeviceTypes
<1>3. copy' \in [Entities -> Nat] /\ gone' \subseteq Entities /\ mixed' \in BOOLEAN /\ events' \in Nat
  BY <1>1, <1>2, AppliedType, DeviceTypes
<1>4. CASE t.more
  <2> DEFINE u == [t EXCEPT !.st = "ask", !.since = t.next]
  <2>1. u \in Tasks /\ TaskBehind(u)
    BY <1>2, NextPageOnly
  <2>2. task' = [task EXCEPT !["sync"] = u] /\ UNCHANGED whole
    BY <1>4 DEF ApplyCompanyPage
  <2> HIDE DEF u
  <2> QED BY <1>1, <1>3, <2>1, <2>2, DeviceTypes, TaskOnlyStep
<1>5. CASE ~t.more
  <2> DEFINE fresh == [NoTask EXCEPT !.session = session]
             u == GoOn(fresh, t.todo)
  <2>1. fresh \in Tasks /\ TaskBehind(fresh) /\ t.todo \in SUBSET Companies
    BY <1>2, AskInSession DEF Tasks
  <2>2. u \in Tasks /\ TaskBehind(u)
    <3> HIDE DEF fresh, t
    <3> QED BY <2>1, GoOnType
  <2>3. task' = [task EXCEPT !["sync"] = u] /\ whole' = whole \cup {t.of}
    BY <1>5 DEF ApplyCompanyPage
  <2>4. whole' \subseteq Companies
    BY <1>1, <1>2, <2>3, DeviceTypes DEF Tasks
  <2> HIDE DEF u
  <2> QED BY <1>1, <1>3, <2>2, <2>3, <2>4, DeviceTypes, TaskOnlyStep
<1> QED BY <1>4, <1>5

LEMMA ApplyPageStep ==
  ASSUME IInv, ApplyPage
  PROVE  IInv'
<1> DEFINE t == task["sync"]
           u == IF t.more THEN [t EXCEPT !.st = "ask", !.since = t.next] ELSE NoTask
<1>1. /\ copy' = Applied(copy, t) /\ cursor' = t.next /\ task' = [task EXCEPT !["sync"] = u]
      /\ whole' = (IF t.snapshot /\ ~t.next.snapshot THEN whole \cup t.covers ELSE whole)
      /\ UNCHANGED <<server, member, signedIn, session, gone, mixed, events>>
  BY DEF ApplyPage
<1>2. t \in Tasks /\ TaskBehind(t)
  BY DeviceTypes
<1>3. u \in Tasks /\ TaskBehind(u)
  BY <1>2, NextPageOnly, Beginning
<1>4. task' \in [Pullers -> Tasks] /\ \A q \in Pullers : TaskBehind(task'[q])
  <2> HIDE DEF u
  <2> QED BY <1>1, <1>3, DeviceTypes, TaskStep
<1>5. cursor' \in Cursor /\ CursorBehind(cursor') /\ copy' \in [Entities -> Nat]
  BY <1>1, <1>2, AppliedType, DeviceTypes DEF Tasks, TaskBehind
<1>6. whole' \subseteq Companies
  BY <1>1, <1>2, DeviceTypes DEF Tasks
<1>7. /\ member' \subseteq Companies /\ gone' \subseteq Entities /\ mixed' \in BOOLEAN /\ signedIn' \in BOOLEAN
      /\ session' \in Nat /\ events' \in Nat
  BY <1>1, DeviceTypes
<1> QED BY <1>1, <1>4, <1>5, <1>6, <1>7, DeviceStep

LEMMA CloseBetweenStep ==
  ASSUME IInv, CloseBetween
  PROVE  IInv'
<1> DEFINE t == task["sync"]
<1>1. /\ copy' = Applied(copy, t) /\ task' = [p \in Pullers |-> NoTask] /\ events' = events + 1
      /\ UNCHANGED <<server, member, signedIn, session, cursor, whole, gone, mixed>>
  BY DEF CloseBetween, Happens
<1>2. task' \in [Pullers -> Tasks] /\ \A q \in Pullers : TaskBehind(task'[q])
  BY <1>1, Beginning
<1>3. copy' \in [Entities -> Nat]
  BY <1>1, AppliedType, DeviceTypes
<1>4. /\ member' \subseteq Companies /\ whole' \subseteq Companies /\ gone' \subseteq Entities
      /\ mixed' \in BOOLEAN /\ signedIn' \in BOOLEAN /\ session' \in Nat /\ cursor' \in Cursor /\ CursorBehind(cursor')
  BY <1>1, DeviceTypes
<1>5. events' \in Nat
  BY <1>1, DeviceTypes
<1> QED BY <1>1, <1>2, <1>3, <1>4, <1>5, DeviceStep

LEMMA ApplyReloadStep ==
  ASSUME IInv, ApplyReload
  PROVE  IInv'
<1> DEFINE t == task["reload"]
           held == Applied(t.held, t)
<1>1. t \in Tasks /\ TaskBehind(t) /\ t.held \in [Entities -> Nat]
  BY DeviceTypes DEF Tasks
<1>2. held \in [Entities -> Nat]
  BY <1>1, AppliedType
<1>3. UNCHANGED <<server, member, signedIn, session, gone, events>>
  BY DEF ApplyReload
<1>4. CASE t.more
  <2> DEFINE u == [t EXCEPT !.st = "ask", !.since = t.next, !.held = held]
  <2>1. u \in Tasks /\ TaskBehind(u)
    <3> HIDE DEF held
    <3> QED BY <1>1, <1>2, NextPage
  <2>2. task' = [task EXCEPT !["reload"] = u] /\ UNCHANGED <<cursor, copy, whole, mixed>>
    BY <1>4 DEF ApplyReload
  <2> HIDE DEF u
  <2> QED BY <1>3, <2>1, <2>2, DeviceTypes, TaskOnlyStep
<1>5. CASE ~t.more
  <2>1. /\ copy' = held /\ cursor' = t.next /\ whole' = t.covers /\ task' = [task EXCEPT !["reload"] = NoTask]
        /\ mixed' = (mixed \/ task["sync"].st # "idle" \/ t.session # session)
    BY <1>5 DEF ApplyReload
  <2>2. task' \in [Pullers -> Tasks] /\ \A q \in Pullers : TaskBehind(task'[q])
    BY <2>1, Beginning, DeviceTypes, TaskStep
  <2>3. cursor' \in Cursor /\ CursorBehind(cursor') /\ copy' \in [Entities -> Nat] /\ whole' \subseteq Companies
    BY <1>1, <1>2, <2>1 DEF Tasks, TaskBehind
  <2>4. mixed' \in BOOLEAN
    BY <2>1
  <2>5. member' \subseteq Companies /\ gone' \subseteq Entities /\ signedIn' \in BOOLEAN /\ session' \in Nat /\ events' \in Nat
    BY <1>3, DeviceTypes
  <2> QED BY <1>3, <2>2, <2>3, <2>4, <2>5, DeviceStep
<1> QED BY <1>4, <1>5

(* A run that ends leaves the copy and the cursor where they are. *)
LEMMA RunEndsStep ==
  ASSUME IInv, NEW p \in Pullers, PullLost(p) \/ (p = "sync" /\ DropLate)
  PROVE  IInv'
<1>1. /\ task' = [task EXCEPT ![p] = NoTask] /\ (events' = events \/ events' = events + 1)
      /\ UNCHANGED <<server, member, signedIn, session, cursor, copy, whole, gone, mixed>>
  BY DEF PullLost, DropLate, Happens
<1>2. events' \in Nat
  BY <1>1, DeviceTypes
<1> QED BY <1>1, <1>2, Beginning, DeviceTypes, TaskOnlyStep

-----------------------------------------------------------------------------
LEMMA WriteStep ==
  ASSUME IInv, NEW r \in Requests, NEW e \in Entities, Upsert(r, e) \/ Delete(r, e)
  PROVE  IInv'
<1> DEFINE v == Current(r, e) + 1
<1>1. v \in Nat
  BY CurrentType
<1>2. r \in Open /\ UNCHANGED <<store, nextTx, log, device>> /\ (Logged(r, e, "upsert", v) \/ Logged(r, e, "delete", v))
  BY DEF Upsert, Delete, CanWrite
<1> HIDE DEF v
<1> QED BY <1>1, <1>2, LoggedStep

LEMMA StepIInv == ASSUME IInv, [Next]_vars PROVE IInv'
<1>1. CASE Next
  <2>1. ASSUME NEW r \in Requests, Begin(r) \/ Finishes(r) PROVE IInv'
    BY <2>1, BeginStep, FinishStep
  <2>2. ASSUME NEW r \in Requests, NEW e \in Entities, Upsert(r, e) \/ Delete(r, e) \/ DeleteAtOnce(r, e) PROVE IInv'
    BY <2>2, WriteStep, DeleteAtOnceStep
  <2>3. CASE SignIn \/ SignOut \/ \E c \in Companies : Join(c)
    BY <2>3, AccountStep
  <2>4. CASE StartRun \/ StartReload
    BY <2>4, StartStep
  <2>5. CASE Apply
    BY <2>5, RunEndsStep, ApplyCompanyPageStep, ApplyPageStep DEF Apply, Pullers
  <2>6. CASE ApplyReload \/ CloseBetween
    BY <2>6, ApplyReloadStep, CloseBetweenStep
  <2>7. ASSUME NEW p \in Pullers, Pull(p) \/ PullLost(p) PROVE IInv'
    BY <2>7, PullChangesStep, PullSnapshotStep, ReadEntitiesStep, RunEndsStep DEF Pull
  <2>8. ASSUME NEW p \in Pullers, NEW c \in task[p].rows, ReadFails(p, c) PROVE IInv'
    BY <2>8, ReadFailsStep
  <2> QED BY <1>1, <2>1, <2>2, <2>3, <2>4, <2>5, <2>6, <2>7, <2>8 DEF Next
<1>2. CASE UNCHANGED vars
  BY <1>2 DEF vars, server, device, IInv, TypeOK, IdsInOrder, AllBehind, TaskBehind, CursorBehind, Behind, Open
<1> QED BY <1>1, <1>2

(* Only a transaction that commits adds to the log, and it is younger than all that is held. *)
Ahead ==
  \A c \in log' \ log :
    /\ Before(cursor.at, c)
    /\ \A p \in Pullers : task[p].st \in {"read", "answer"} => Before(task[p].next.at, c)

LEMMA StepAhead == ASSUME IInv, [Next]_vars PROVE Ahead
<1>1. ASSUME NEW r \in Requests, Commit(r) PROVE Ahead
  <2>1. r \in Open /\ \A c \in log' \ log : c \in tx[r].rows /\ c.tx = tx[r].id
    BY <1>1 DEF Commit, IInv, IdsInOrder
  <2>2. \A c \in log' \ log : cursor.at.tx < c.tx /\ \A p \in Pullers : task[p].next.at.tx < c.tx
    BY <2>1 DEF IInv, AllBehind, TaskBehind, CursorBehind, Behind
  <2> QED BY <2>2 DEF Ahead, Before
<1>2. CASE UNCHANGED log
  BY <1>2 DEF Ahead
<1>3. ASSUME Next PROVE (\E r \in Requests : Commit(r)) \/ UNCHANGED log
  <2>1. ASSUME NEW r \in Requests, Begin(r) \/ Abort(r) PROVE UNCHANGED log
    BY <2>1 DEF Begin, Abort
  <2>2. ASSUME NEW r \in Requests, NEW e \in Entities, Upsert(r, e) \/ Delete(r, e) \/ DeleteAtOnce(r, e) PROVE UNCHANGED log
    BY <2>2 DEF Upsert, Delete, DeleteAtOnce
  <2>3. CASE SignIn \/ SignOut \/ \E c \in Companies : Join(c)
    BY <2>3 DEF SignIn, SignOut, Join, server
  <2>4. CASE StartRun \/ StartReload \/ Apply \/ ApplyReload \/ CloseBetween
    BY <2>4 DEF StartRun, StartReload, Apply, DropLate, ApplyCompanyPage, ApplyPage, ApplyReload, CloseBetween, server
  <2>5. ASSUME NEW p \in Pullers, PullLost(p) \/ ReadEntities(p) \/ \E c \in task[p].rows : ReadFails(p, c)
        PROVE  UNCHANGED log
    BY <2>5 DEF PullLost, ReadEntities, ReadFails, server
  <2>6. ASSUME NEW p \in Pullers, PullChanges(p) \/ PullSnapshot(p) PROVE UNCHANGED log
    BY <2>6 DEF PullChanges, PullSnapshot, Chosen, server
  <2> QED BY <1>3, <2>1, <2>2, <2>3, <2>4, <2>5, <2>6 DEF Next, Finishes, Pull
<1>4. CASE UNCHANGED vars
  BY <1>2, <1>4 DEF vars, server
<1> QED BY <1>1, <1>2, <1>3, <1>4

LEMMA Invariant == ASSUME Sane PROVE Spec => []IInv
<1>1. Init => IInv
  BY InitIInv
<1>2. IInv /\ [Next]_vars => IInv'
  BY StepIInv
<1> QED BY <1>1, <1>2, PTL DEF Spec

(* The rows, the log, the transactions under way and all the device holds are of their types: what a page or *)
(* a copy is made of is a version some transaction wrote.                                                    *)
THEOREM TypeCorrect == ASSUME Sane PROVE Spec => []TypeOK
  BY Invariant, PTL DEF IInv

(* handlers.ts:194 "a change committing late is never passed over": whatever commits, and in whatever order, *)
(* is still ahead of the device's cursor and of the one an answer under way will give it, after pages,       *)
(* failures, reloads, sign-outs and lost answers.                                                            *)
THEOREM NothingPassedOver == ASSUME Sane PROVE Spec => NoChangePassedOver
<1>1. IInv /\ [Next]_vars => [Ahead]_vars
  BY StepAhead
<1>2. Spec => [][Ahead]_vars
  BY <1>1, Invariant, PTL DEF Spec
<1> QED BY <1>2 DEF NoChangePassedOver, Ahead

-----------------------------------------------------------------------------
(* What the log says of a row *)

(* Ids of businesses are told from the word for all of them, and a business is its own. *)
Apart ==
  /\ All \notin Companies /\ \A c \in Companies : CompanyOf[c] = c
  /\ Limit \in Nat

(* A delete is the last change of its row, wherever it committed; what is not there was never, or is deleted. *)
LogIs(lg, st) ==
  /\ IsFiniteSet(lg)
  /\ \A c \in lg : c.tx >= 1
  /\ \A c, x \in lg : c.tx = x.tx /\ c.n = x.n => c = x
  /\ \A c, x \in lg : c.e = x.e /\ c.op = "delete" /\ x # c => Before(x, c)
  /\ \A c \in lg : c.op = "delete" => st[c.e] = Absent
  /\ \A e \in Entities : st[e] # Absent => \E c \in lg : c.e = e
  /\ \A e \in Entities : st[e] = Absent /\ (\E c \in lg : c.e = e) => \E c \in lg : c.e = e /\ c.op = "delete"

Rows(t, e) == {c \in t.rows : c.e = e}
Older(lg, e, i) == \A c \in lg : c.e = e => c.tx < i
(* A row an open transaction has deleted is as it was when it began; one that it wrote is newer than the committed one. *)
TxIs(t, lg, st) ==
  /\ \A c \in lg : c.tx # t.id
  /\ \A c, x \in t.rows : c.n = x.n => c = x
  /\ \A c \in t.rows :
       IF c.op = "delete" THEN Rows(t, c.e) = {c} /\ st[c.e] # Absent /\ Older(lg, c.e, t.id)
       ELSE c.version > st[c.e] /\ (st[c.e] = Absent => \A x \in lg : x.e # c.e)
  /\ \A e \in Entities : t.seen[e] # Absent =>
       /\ \E c \in lg : c.e = e
       /\ st[e] = Absent \/ t.seen[e] <= st[e]
       /\ st[e] = t.seen[e] => Older(lg, e, t.id)
TellApart(s, t) == s.id # t.id /\ \A e \in Entities : Rows(s, e) = {} \/ Rows(t, e) = {}
ServerInv ==
  /\ LogIs(log, store)
  /\ \A r \in Requests : tx[r].id = 0 => tx[r].rows = {}
  /\ \A q, r \in Open : q # r => TellApart(tx[q], tx[r])
  /\ \A r \in Open : TxIs(tx[r], log, store)

LEMMA CurrentIs ==
  ASSUME IInv, NEW r \in Requests, NEW e \in Entities
  PROVE  IF Rows(tx[r], e) = {} THEN Current(r, e) = store[e]
         ELSE \E c \in Rows(tx[r], e) : Current(r, e) = IF c.op = "delete" THEN Absent ELSE c.version
<1> DEFINE W == Rows(tx[r], e)
<1>0. Written(r, e) = W
  BY DEF Written, Rows
<1>1. tx[r] \in [id : Nat, seen : [Entities -> Nat], rows : SUBSET Change]
  BY DEF IInv, TypeOK
<1>2. CASE W = {}
  BY <1>0, <1>2 DEF Current
<1>3. CASE W # {}
  <2>1. Cardinality(tx[r].rows) \in Nat
    BY FS_CardinalityType DEF IInv, IdsInOrder
  <2>2. \A c \in W : c \in Change /\ c.tx = tx[r].id /\ c.n \in Nat /\ c.n <= Cardinality(tx[r].rows)
    BY <1>1 DEF Rows, IInv, IdsInOrder, Change
  <2>3. \E c \in W : IsLast(c, W)
    <3> HIDE DEF W
    <3> QED BY <1>1, <1>3, <2>1, <2>2, LastExists
  <2> DEFINE c == CHOOSE c \in W : IsLast(c, W)
  <2>4. c \in W
    BY <2>3
  <2>5. Current(r, e) = IF c.op = "delete" THEN Absent ELSE c.version
    BY <1>0, <1>3 DEF Current
  <2> HIDE DEF c
  <2> QED BY <1>3, <2>4, <2>5
<1> QED BY <1>2, <1>3

(* The types of what is written *)
LEMMA ServerTypes ==
  ASSUME IInv
  PROVE  /\ store \in [Entities -> Nat] /\ nextTx \in Nat \ {0} /\ log \subseteq Change
         /\ tx \in [Requests -> [id : Nat, seen : [Entities -> Nat], rows : SUBSET Change]]
         /\ \A c \in log : c.tx \in Nat /\ c.n \in Nat /\ c.e \in Entities /\ c.tx < nextTx /\ c.op \in {"upsert", "delete"}
         /\ \A r \in Requests : tx[r].id \in Nat /\ tx[r].id < nextTx /\ tx[r].seen \in [Entities -> Nat]
         /\ \A r \in Requests : \A c \in tx[r].rows :
              c.tx = tx[r].id /\ c.n \in Nat /\ c.e \in Entities /\ c.version \in Nat /\ c.op \in {"upsert", "delete"}
  BY DEF IInv, TypeOK, IdsInOrder, Change

LEMMA InitServer == ASSUME Sane, Init PROVE ServerInv
<1>1. PICK f \in Foundings :
        /\ store = [e \in Entities |-> IF \E i \in DOMAIN f : f[i] = e THEN 1 ELSE Absent]
        /\ log = {[tx |-> 1, n |-> i, e |-> f[i], op |-> "upsert", version |-> 1] : i \in DOMAIN f}
  BY DEF Init
<1>2. f \in Seq(Entities)
  BY DEF Sane
<1>3. IsFiniteSet(log)
  <2>1. DOMAIN f = 1 .. Len(f) /\ Len(f) \in Nat
    BY <1>2
  <2>2. IsFiniteSet(DOMAIN f)
    BY <2>1, FS_Interval
  <2> DEFINE g == [i \in DOMAIN f |-> [tx |-> 1, n |-> i, e |-> f[i], op |-> "upsert", version |-> 1]]
  <2>3. g \in Surjection(DOMAIN f, log)
    BY <1>1 DEF Surjection
  <2> QED BY <2>2, <2>3, FS_Surjection
<1>4. \A c \in log : c.tx = 1 /\ c.op = "upsert" /\ c.n \in DOMAIN f /\ c.e = f[c.n] /\ c = [tx |-> 1, n |-> c.n, e |-> f[c.n], op |-> "upsert", version |-> 1]
  BY <1>1
<1>5. \A i \in DOMAIN f : \E c \in log : c.e = f[i]
  <2> TAKE i \in DOMAIN f
  <2> DEFINE c == [tx |-> 1, n |-> i, e |-> f[i], op |-> "upsert", version |-> 1]
  <2>1. c \in log /\ c.e = f[i]
    BY <1>1
  <2> QED BY <2>1
<1>6. LogIs(log, store)
  <2>1. \A e \in Entities : store[e] = IF \E i \in DOMAIN f : f[i] = e THEN 1 ELSE Absent
    BY <1>1
  <2>2. \A c, x \in log : c.n = x.n => c = x
    BY <1>4
  <2>3. \A c \in log : c.tx >= 1 /\ c.op # "delete"
    BY <1>4
  <2>4. \A e \in Entities : store[e] # Absent <=> \E c \in log : c.e = e
    BY <1>4, <1>5, <2>1 DEF Absent
  <2> QED BY <1>3, <2>2, <2>3, <2>4 DEF LogIs
<1>7. Open = {} /\ \A r \in Requests : tx[r].rows = {}
  BY DEF Init, Open, NoTx
<1> QED BY <1>6, <1>7 DEF ServerInv

(* What one transaction does leaves the others as they are, if it keeps off their rows. *)
LEMMA OneWrites ==
  ASSUME IInv, ServerInv, NEW r \in Requests, NEW t \in [id : Nat, seen : [Entities -> Nat], rows : SUBSET Change],
         UNCHANGED <<store, log>>, tx' = [tx EXCEPT ![r] = t], t.id # 0,
         \A q \in Open \ {r} : TellApart(tx[q], t), TxIs(t, log, store)
  PROVE  ServerInv'
<1>1. tx'[r] = t /\ \A q \in Requests \ {r} : tx'[q] = tx[q]
  BY ServerTypes
<1>2. \A q \in Open' : q = r \/ (q \in Open /\ q # r)
  BY <1>1 DEF Open
<1>3. \A p, q \in Open' : p # q => TellApart(tx'[p], tx'[q])
  <2>1. \A q \in Open \ {r} : TellApart(t, tx[q])
    BY DEF TellApart
  <2>2. \A p, q \in Open : p # q => TellApart(tx[p], tx[q])
    BY DEF ServerInv
  <2>3. \A q \in Open : q # r => tx'[q] = tx[q]
    BY <1>1 DEF Open
  <2> QED BY <1>1, <1>2, <2>1, <2>2, <2>3
<1>4. \A q \in Open' : TxIs(tx'[q], log, store)
  <2>1. \A q \in Open : q # r => tx'[q] = tx[q]
    BY <1>1 DEF Open
  <2> QED BY <1>1, <1>2, <2>1 DEF ServerInv
<1>5. \A q \in Requests : tx'[q].id = 0 => tx'[q].rows = {}
  BY <1>1 DEF ServerInv
<1> QED BY <1>3, <1>4, <1>5 DEF ServerInv

LEMMA ServerBegins ==
  ASSUME IInv, ServerInv, NEW r \in Requests, tx[r].id = 0, UNCHANGED <<store, log>>, NEW new \in SUBSET Change,
         tx' = [tx EXCEPT ![r] = [id |-> nextTx, seen |-> store, rows |-> new]],
         \/ new = {}
         \/ \E c \in Change : /\ new = {c} /\ c.op = "delete" /\ store[c.e] # Absent
                              /\ \A q \in Requests \ {r} : Rows(tx[q], c.e) = {}
  PROVE  ServerInv'
<1> DEFINE t == [id |-> nextTx, seen |-> store, rows |-> new]
<1>1. t \in [id : Nat, seen : [Entities -> Nat], rows : SUBSET Change] /\ t.id # 0
  BY ServerTypes
<1>2. t.id = nextTx /\ t.seen = store /\ t.rows = new
  OBVIOUS
<1> HIDE DEF t
<1>3. ASSUME NEW q \in Open \ {r} PROVE TellApart(tx[q], t)
  <2>1. tx[q].id # t.id
    BY <1>2, ServerTypes DEF Open
  <2>2. \A e \in Entities : Rows(tx[q], e) = {} \/ Rows(t, e) = {}
    BY <1>2 DEF Rows, Open
  <2> QED BY <2>1, <2>2 DEF TellApart
<1>4. TxIs(t, log, store)
  <2>1. \A e \in Entities : Older(log, e, nextTx)
    BY ServerTypes DEF Older
  <2>2. \A c \in log : c.tx # nextTx
    BY ServerTypes
  <2>3. \A c \in new : c.op = "delete" /\ Rows(t, c.e) = {c} /\ store[c.e] # Absent /\ c.e \in Entities
    BY <1>2 DEF Rows, Change
  <2>4. \A e \in Entities : store[e] # Absent => \E c \in log : c.e = e
    BY DEF ServerInv, LogIs
  <2>5. \A e \in Entities : store[e] <= store[e]
    BY ServerTypes
  <2> QED BY <1>2, <2>1, <2>2, <2>3, <2>4, <2>5 DEF TxIs
<1>5. tx' = [tx EXCEPT ![r] = t]
  BY DEF t
<1> QED BY <1>1, <1>3, <1>4, <1>5, OneWrites

LEMMA ServerLogs ==
  ASSUME IInv, ServerInv, NEW r \in Open, NEW e \in Entities, NEW op \in {"upsert", "delete"}, NEW v \in Nat,
         Logged(r, e, op, v), UNCHANGED <<store, log>>,
         \A q \in Requests \ {r} : Rows(tx[q], e) = {},
         IF op = "delete" THEN Rows(tx[r], e) = {} /\ store[e] # Absent /\ Older(log, e, tx[r].id)
         ELSE /\ v > store[e] /\ (store[e] = Absent => \A x \in log : x.e # e)
              /\ \A c \in Rows(tx[r], e) : c.op # "delete"
  PROVE  ServerInv'
<1> DEFINE k == Cardinality(tx[r].rows)
           new == [tx |-> tx[r].id, n |-> k + 1, e |-> e, op |-> op, version |-> v]
           t == [tx[r] EXCEPT !.rows = @ \cup {new}]
<1>1. r \in Requests /\ tx[r] \in [id : Nat, seen : [Entities -> Nat], rows : SUBSET Change]
  BY ServerTypes DEF Open
<1>2. k \in Nat /\ \A c \in tx[r].rows : c.n \in Nat /\ c.n <= k /\ c.e \in Entities
  BY <1>1, FS_CardinalityType, ServerTypes DEF IInv, IdsInOrder
<1>3. new \in Change /\ new.n = k + 1 /\ new.e = e /\ new.op = op /\ new.version = v
  BY <1>1, <1>2 DEF Change
<1>4. \A c \in tx[r].rows : c.n # new.n
  <2> HIDE DEF new, k
  <2> QED BY <1>2, <1>3
<1>5. tx' = [tx EXCEPT ![r] = t]
  BY <1>1, ServerTypes DEF Logged
<1> HIDE DEF new, k
<1>6. /\ t \in [id : Nat, seen : [Entities -> Nat], rows : SUBSET Change]
      /\ t.id = tx[r].id /\ t.seen = tx[r].seen /\ t.rows = tx[r].rows \cup {new}
  BY <1>1, <1>3
<1> HIDE DEF t
<1>7. t.id # 0
  BY <1>6 DEF Open
<1>8. \A d \in Entities : Rows(t, d) = IF d = e THEN Rows(tx[r], d) \cup {new} ELSE Rows(tx[r], d)
  BY <1>3, <1>6 DEF Rows
<1>9. ASSUME NEW q \in Open \ {r} PROVE TellApart(tx[q], t)
  <2>1. TellApart(tx[q], tx[r]) /\ Rows(tx[q], e) = {}
    BY DEF ServerInv, Open
  <2> QED BY <1>6, <1>8, <2>1 DEF TellApart
<1>10. TxIs(t, log, store)
  <2>1. TxIs(tx[r], log, store)
    BY DEF ServerInv
  <2>2. \A c \in log : c.tx # t.id
    BY <1>6, <2>1 DEF TxIs
  <2>3. \A c, x \in t.rows : c.n = x.n => c = x
    BY <1>4, <1>6, <2>1 DEF TxIs
  <2>4. ASSUME NEW c \in t.rows
        PROVE  IF c.op = "delete" THEN Rows(t, c.e) = {c} /\ store[c.e] # Absent /\ Older(log, c.e, t.id)
               ELSE c.version > store[c.e] /\ (store[c.e] = Absent => \A x \in log : x.e # c.e)
    <3>1. CASE c = new
      BY <1>3, <1>6, <1>8, <3>1
    <3>2. CASE c \in tx[r].rows /\ c.op # "delete"
      BY <2>1, <3>2 DEF TxIs
    <3>3. CASE c \in tx[r].rows /\ c.op = "delete"
      <4>1. Rows(tx[r], c.e) = {c} /\ store[c.e] # Absent /\ Older(log, c.e, t.id)
        BY <1>6, <2>1, <3>3 DEF TxIs
      <4>2. c.e # e
        BY <3>3, <4>1
      <4> QED BY <1>2, <1>8, <3>3, <4>1, <4>2
    <3> QED BY <1>6, <3>1, <3>2, <3>3
  <2>5. \A d \in Entities : t.seen[d] # Absent =>
       /\ \E c \in log : c.e = d
       /\ store[d] = Absent \/ t.seen[d] <= store[d]
       /\ store[d] = t.seen[d] => Older(log, d, t.id)
    BY <1>6, <2>1 DEF TxIs
  <2> QED BY <2>2, <2>3, <2>4, <2>5 DEF TxIs
<1> QED BY <1>1, <1>5, <1>6, <1>7, <1>9, <1>10, OneWrites

(* What a transaction wrote before is newer than what is committed. *)
LEMMA UpsertLogs ==
  ASSUME IInv, ServerInv, NEW r \in Requests, NEW e \in Entities, Upsert(r, e)
  PROVE  ServerInv'
<1> DEFINE v == Current(r, e) + 1
<1>1. r \in Open /\ v \in Nat /\ Current(r, e) \in Nat /\ Logged(r, e, "upsert", v) /\ UNCHANGED <<store, log>>
  BY CurrentType DEF Upsert, CanWrite
<1>2. \A q \in Requests \ {r} : Rows(tx[q], e) = {}
  BY DEF Upsert, Lockable, Written, Rows
<1>3. TxIs(tx[r], log, store)
  BY <1>1 DEF ServerInv
<1>4. \A c \in Rows(tx[r], e) : c \in tx[r].rows /\ c.e = e /\ c.version \in Nat /\ store[c.e] \in Nat
  BY ServerTypes DEF Rows
<1>5. store[e] \in Nat
  BY ServerTypes
<1>6. ASSUME NEW c \in Rows(tx[r], e) PROVE c.op # "delete"
  <2> SUFFICES ASSUME c.op = "delete" PROVE FALSE
    OBVIOUS
  <2>1. Rows(tx[r], e) = {c}
    BY <1>3, <1>4 DEF TxIs
  <2>2. Current(r, e) = Absent
    BY <2>1, CurrentIs
  <2>3. Unused(e)
    BY <2>2 DEF Upsert
  <2> QED BY <2>1, <2>3 DEF Unused, Written, Rows
<1>7. v > store[e] /\ (store[e] = Absent => \A x \in log : x.e # e)
  <2>1. CASE Rows(tx[r], e) = {}
    <3>1. Current(r, e) = store[e]
      BY <2>1, CurrentIs
    <3>2. store[e] = Absent => \A x \in log : x.e # e
      BY <3>1 DEF Upsert, Unused
    <3> QED BY <1>5, <3>1, <3>2
  <2>2. CASE Rows(tx[r], e) # {}
    <3>1. PICK c \in Rows(tx[r], e) : Current(r, e) = c.version
      BY <1>6, <2>2, CurrentIs
    <3>2. c.version > store[e] /\ (store[e] = Absent => \A x \in log : x.e # e)
      BY <1>3, <1>4, <1>6 DEF TxIs
    <3> QED BY <1>4, <1>5, <3>1, <3>2
  <2> QED BY <2>1, <2>2
<1> HIDE DEF v
<1> QED BY <1>1, <1>2, <1>6, <1>7, ServerLogs

LEMMA DeleteLogs ==
  ASSUME IInv, ServerInv, NEW r \in Requests, NEW e \in Entities, Delete(r, e)
  PROVE  ServerInv'
<1> DEFINE v == Current(r, e) + 1
<1>1. r \in Open /\ v \in Nat /\ Current(r, e) \in Nat /\ Logged(r, e, "delete", v) /\ UNCHANGED <<store, log>>
  BY CurrentType DEF Delete, CanWrite
<1>2. \A q \in Requests \ {r} : Rows(tx[q], e) = {}
  BY DEF Delete, Lockable, Written, Rows
<1>3. TxIs(tx[r], log, store)
  BY <1>1 DEF ServerInv
<1>4. \A c \in Rows(tx[r], e) : c \in tx[r].rows /\ c.e = e /\ c.version \in Nat /\ store[c.e] \in Nat
  BY ServerTypes DEF Rows
<1>5. Current(r, e) # Absent /\ Current(r, e) = tx[r].seen[e] /\ store[e] \in Nat
  BY ServerTypes DEF Delete
<1>6. /\ \E c \in log : c.e = e
      /\ store[e] = Absent \/ tx[r].seen[e] <= store[e]
      /\ store[e] = tx[r].seen[e] => Older(log, e, tx[r].id)
  BY <1>3, <1>5 DEF TxIs
<1>7. Rows(tx[r], e) = {}
  <2> SUFFICES ASSUME Rows(tx[r], e) # {} PROVE FALSE
    OBVIOUS
  <2>1. PICK c \in Rows(tx[r], e) : Current(r, e) = IF c.op = "delete" THEN Absent ELSE c.version
    BY CurrentIs
  <2>2. Current(r, e) = c.version
    BY <1>5, <2>1
  <2>3. c.version > store[e] /\ (store[e] = Absent => \A x \in log : x.e # e)
    BY <1>3, <1>4, <1>5, <2>1 DEF TxIs
  <2> QED BY <1>4, <1>5, <1>6, <2>2, <2>3
<1>8. Current(r, e) = store[e]
  BY <1>7, CurrentIs
<1> HIDE DEF v
<1> QED BY <1>1, <1>2, <1>5, <1>6, <1>7, <1>8, ServerLogs

(* What a commit does to one row: nothing, or what its transaction wrote last. *)
LEMMA RowCommits ==
  ASSUME IInv, ServerInv, NEW r \in Requests, Commit(r), NEW e \in Entities
  PROVE  /\ Rows(tx[r], e) = {} => store'[e] = store[e]
         /\ Rows(tx[r], e) # {} =>
              \/ /\ \E c \in Rows(tx[r], e) : c.op = "delete"
                 /\ store'[e] = Absent /\ store[e] # Absent /\ Older(log, e, tx[r].id)
              \/ /\ \A c \in Rows(tx[r], e) : c.op # "delete"
                 /\ store'[e] > store[e] /\ (store[e] = Absent => \A x \in log : x.e # e)
<1>1. r \in Open /\ TxIs(tx[r], log, store) /\ store'[e] = Current(r, e)
  BY DEF Commit, ServerInv
<1>2. \A c \in Rows(tx[r], e) : c \in tx[r].rows /\ c.e = e
  BY DEF Rows
<1>3. \A c \in Rows(tx[r], e) : c.op = "delete" => Rows(tx[r], e) = {c} /\ store[e] # Absent /\ Older(log, e, tx[r].id)
  BY <1>1, <1>2 DEF TxIs
<1>4. \A c \in Rows(tx[r], e) : c.op # "delete" => c.version > store[e] /\ (store[e] = Absent => \A x \in log : x.e # e)
  BY <1>1, <1>2 DEF TxIs
<1>5. CASE Rows(tx[r], e) # {}
  <2>1. PICK c \in Rows(tx[r], e) : Current(r, e) = IF c.op = "delete" THEN Absent ELSE c.version
    BY <1>5, CurrentIs
  <2>2. CASE c.op = "delete"
    BY <1>1, <1>3, <2>1, <2>2
  <2>3. CASE c.op # "delete"
    <3>1. \A d \in Rows(tx[r], e) : d.op # "delete"
      BY <1>3, <2>3
    <3> QED BY <1>1, <1>4, <2>1, <2>3, <3>1
  <2> QED BY <2>2, <2>3
<1> QED BY <1>1, <1>5, CurrentIs

LEMMA LogCommits ==
  ASSUME IInv, ServerInv, NEW r \in Requests, Commit(r)
  PROVE  LogIs(log, store)'
<1> DEFINE i == tx[r].id
           W == tx[r].rows
<1>1. r \in Open /\ log' = log \cup W /\ TxIs(tx[r], log, store) /\ LogIs(log, store)
  BY DEF Commit, ServerInv
<1>2. /\ i \in Nat /\ i >= 1
      /\ \A c \in log : c.tx \in Nat /\ c.n \in Nat /\ c.e \in Entities
      /\ \A c \in W : c.tx = i /\ c.n \in Nat /\ c.e \in Entities /\ c \in Rows(tx[r], c.e)
  BY <1>1, ServerTypes DEF Open, Rows
<1>3. /\ \A c \in log : c.tx # i
      /\ \A c, x \in W : c.n = x.n => c = x
      /\ \A c \in W : c.op = "delete" => Rows(tx[r], c.e) = {c} /\ store[c.e] # Absent /\ Older(log, c.e, i)
      /\ \A c \in W : c.op # "delete" /\ store[c.e] = Absent => \A x \in log : x.e # c.e
  BY <1>1 DEF TxIs
<1>4. /\ IsFiniteSet(log) /\ \A c \in log : c.tx >= 1
      /\ \A c, x \in log : c.tx = x.tx /\ c.n = x.n => c = x
      /\ \A c, x \in log : c.e = x.e /\ c.op = "delete" /\ x # c => Before(x, c)
      /\ \A c \in log : c.op = "delete" => store[c.e] = Absent
      /\ \A e \in Entities : store[e] # Absent => \E c \in log : c.e = e
      /\ \A e \in Entities : store[e] = Absent /\ (\E c \in log : c.e = e) => \E c \in log : c.e = e /\ c.op = "delete"
  BY <1>1 DEF LogIs
<1>5. \A e \in Entities : Rows(tx[r], e) = {} => store'[e] = store[e]
  BY RowCommits
<1>6. \A c \in W :
        \/ c.op = "delete" /\ store'[c.e] = Absent
        \/ /\ \A d \in Rows(tx[r], c.e) : d.op # "delete"
           /\ store'[c.e] > store[c.e]
  <2> TAKE c \in W
  <2>1. c.e \in Entities /\ c \in Rows(tx[r], c.e)
    BY <1>2
  <2>2. (\E d \in Rows(tx[r], c.e) : d.op = "delete") => c.op = "delete"
    BY <1>3, <2>1 DEF Rows
  <2> QED BY <2>1, <2>2, RowCommits
<1>7. \A e \in Entities : store[e] \in Nat
  BY ServerTypes
<1>8. \A c \in W, x \in log : x.e = c.e => x.op # "delete"
  BY <1>3, <1>4
<1>9. IsFiniteSet(log')
  BY <1>1, <1>4, FS_Union DEF IInv, IdsInOrder
<1> HIDE DEF i, W
<1>10. \A c \in log' : c.tx >= 1
  BY <1>1, <1>2, <1>4
<1>11. \A c, x \in log' : c.tx = x.tx /\ c.n = x.n => c = x
  BY <1>1, <1>2, <1>3, <1>4
<1>12. ASSUME NEW c \in log', NEW x \in log', c.e = x.e, c.op = "delete", x # c PROVE Before(x, c)
  <2>1. CASE c \in log
    BY <1>1, <1>4, <1>8, <1>12, <2>1
  <2>2. CASE c \in W /\ x \in W
    BY <1>2, <1>3, <1>12, <2>2
  <2>3. CASE c \in W /\ x \in log
    BY <1>2, <1>3, <1>12, <2>3 DEF Older, Before
  <2> QED BY <1>1, <2>1, <2>2, <2>3
<1>13. ASSUME NEW c \in log', c.op = "delete" PROVE store'[c.e] = Absent
  <2>1. CASE c \in W
    <3>1. c \in Rows(tx[r], c.e)
      BY <1>2, <2>1
    <3> QED BY <1>6, <1>13, <2>1, <3>1
  <2>2. CASE c \in log
    <3>1. Rows(tx[r], c.e) = {}
      BY <1>8, <1>13, <2>2 DEF Rows, W
    <3> QED BY <1>2, <1>4, <1>5, <1>13, <2>2, <3>1
  <2> QED BY <1>1, <2>1, <2>2
<1>14. ASSUME NEW e \in Entities, store'[e] # Absent PROVE \E c \in log' : c.e = e
  <2>1. CASE Rows(tx[r], e) = {}
    BY <1>1, <1>4, <1>5, <1>14, <2>1
  <2>2. CASE Rows(tx[r], e) # {}
    BY <1>1, <2>2 DEF Rows, W
  <2> QED BY <2>1, <2>2
<1>15. ASSUME NEW e \in Entities, store'[e] = Absent, NEW d \in log', d.e = e PROVE \E c \in log' : c.e = e /\ c.op = "delete"
  <2>1. CASE Rows(tx[r], e) = {}
    <3>1. d \in log
      BY <1>1, <1>15, <2>1 DEF Rows, W
    <3> QED BY <1>1, <1>4, <1>5, <1>15, <2>1, <3>1
  <2>2. ASSUME NEW c \in Rows(tx[r], e) PROVE c \in log' /\ c.e = e /\ c.op = "delete"
    <3>1. c \in W /\ c.e = e
      BY DEF Rows, W
    <3>2. ~(store'[e] > store[e])
      BY <1>7, <1>15 DEF Absent
    <3> QED BY <1>1, <1>6, <3>1, <3>2
  <2> QED BY <2>1, <2>2
<1>16. /\ \A c, x \in log' : c.e = x.e /\ c.op = "delete" /\ x # c => Before(x, c)
       /\ \A c \in log' : c.op = "delete" => store'[c.e] = Absent
       /\ \A e \in Entities : store'[e] # Absent => \E c \in log' : c.e = e
       /\ \A e \in Entities : store'[e] = Absent /\ (\E c \in log' : c.e = e) => \E c \in log' : c.e = e /\ c.op = "delete"
  BY <1>12, <1>13, <1>14, <1>15
<1> QED BY <1>9, <1>10, <1>11, <1>16 DEF LogIs

LEMMA ServerFinishes ==
  ASSUME IInv, ServerInv, NEW r \in Requests, Commit(r) \/ Abort(r)
  PROVE  ServerInv'
<1>1. r \in Open /\ tx' = [tx EXCEPT ![r] = NoTx]
  BY DEF Commit, Abort
<1>2. tx'[r].id = 0 /\ tx'[r].rows = {} /\ \A q \in Requests \ {r} : tx'[q] = tx[q]
  BY <1>1, ServerTypes DEF NoTx
<1>3. \A q \in Open' : q \in Open /\ q # r /\ tx'[q] = tx[q]
  BY <1>2 DEF Open
<1>4. \A p, q \in Open' : p # q => TellApart(tx'[p], tx'[q])
  BY <1>3 DEF ServerInv
<1>5. \A q \in Requests : tx'[q].id = 0 => tx'[q].rows = {}
  BY <1>2 DEF ServerInv
<1>6. CASE Abort(r)
  <2>1. log' = log /\ store' = store
    BY <1>6 DEF Abort
  <2>2. \A q \in Open' : TxIs(tx'[q], log', store')
    BY <1>3, <2>1 DEF ServerInv
  <2> QED BY <1>4, <1>5, <2>1, <2>2 DEF ServerInv
<1>7. CASE Commit(r)
  <2>1. log' = log \cup tx[r].rows
    BY <1>7 DEF Commit
  <2>2. ASSUME NEW q \in Open, q # r PROVE TxIs(tx[q], log', store')
    <3> DEFINE t == tx[q]
    <3>1. TxIs(t, log, store) /\ TellApart(t, tx[r]) /\ q \in Requests
      BY <1>1, <2>2 DEF ServerInv, Open
    <3>2. \A c \in tx[r].rows : c.tx = tx[r].id /\ c.e \in Entities /\ c \in Rows(tx[r], c.e)
      BY ServerTypes DEF Rows
    <3>3. \A c \in log' : c.tx # t.id
      BY <2>1, <3>1, <3>2 DEF TxIs, TellApart
    <3>4. ASSUME NEW c \in t.rows
          PROVE  store'[c.e] = store[c.e] /\ (\A x \in log' : x.e = c.e => x \in log)
      <4>1. c.e \in Entities /\ Rows(t, c.e) # {}
        BY <3>1, ServerTypes DEF Rows
      <4>2. Rows(tx[r], c.e) = {}
        BY <3>1, <4>1 DEF TellApart
      <4>3. store'[c.e] = store[c.e]
        BY <1>7, <4>1, <4>2, RowCommits
      <4> QED BY <2>1, <4>2, <4>3 DEF Rows
    <3>5. ASSUME NEW e \in Entities, t.seen[e] # Absent
          PROVE  /\ \E c \in log' : c.e = e
                 /\ store'[e] = Absent \/ t.seen[e] <= store'[e]
                 /\ store'[e] = t.seen[e] => Older(log', e, t.id)
      <4>1. /\ \E c \in log : c.e = e
            /\ store[e] = Absent \/ t.seen[e] <= store[e]
            /\ store[e] = t.seen[e] => Older(log, e, t.id)
        BY <3>1, <3>5 DEF TxIs
      <4>2. \E c \in log' : c.e = e
        BY <2>1, <4>1
      <4>3. CASE Rows(tx[r], e) = {}
        <5>1. store'[e] = store[e]
          BY <1>7, <4>3, RowCommits
        <5>2. \A x \in log' : x.e = e => x \in log
          BY <2>1, <4>3 DEF Rows
        <5> QED BY <4>1, <4>2, <5>1, <5>2 DEF Older
      <4>4. CASE Rows(tx[r], e) # {}
        <5>1. \/ store'[e] = Absent
              \/ store'[e] > store[e] /\ (store[e] = Absent => \A x \in log : x.e # e)
          BY <1>7, <4>4, RowCommits
        <5>2. store[e] \in Nat /\ t.seen[e] \in Nat /\ store'[e] \in Nat
          <6>1. store' \in [Entities -> Nat]
            BY <1>7, CurrentType DEF Commit
          <6> QED BY <3>1, <6>1, ServerTypes
        <5> QED BY <3>5, <4>1, <4>2, <5>1, <5>2
      <4> QED BY <4>3, <4>4
    <3>6. \A c, x \in t.rows : c.n = x.n => c = x
      BY <3>1 DEF TxIs
    <3>7. ASSUME NEW c \in t.rows
          PROVE  IF c.op = "delete" THEN Rows(t, c.e) = {c} /\ store'[c.e] # Absent /\ Older(log', c.e, t.id)
                 ELSE c.version > store'[c.e] /\ (store'[c.e] = Absent => \A x \in log' : x.e # c.e)
      <4>1. IF c.op = "delete" THEN Rows(t, c.e) = {c} /\ store[c.e] # Absent /\ Older(log, c.e, t.id)
            ELSE c.version > store[c.e] /\ (store[c.e] = Absent => \A x \in log : x.e # c.e)
        BY <3>1 DEF TxIs
      <4>2. store'[c.e] = store[c.e] /\ (\A x \in log' : x.e = c.e => x \in log)
        BY <3>4
      <4> HIDE DEF t
      <4> QED BY <4>1, <4>2 DEF Older
    <3> QED BY <3>3, <3>5, <3>6, <3>7 DEF TxIs
  <2>3. \A q \in Open' : TxIs(tx'[q], log', store')
    BY <1>3, <2>2
  <2> QED BY <1>4, <1>5, <1>7, <2>3, LogCommits DEF ServerInv
<1> QED BY <1>6, <1>7

(* Only a commit changes what is committed: every row it changes has a change of its own in the log, and *)
(* these are ahead of what the device has or is being given.                                            *)
Grew(lg, lg2, st, st2) == lg \subseteq lg2 /\ \A e \in Entities : st2[e] # st[e] => \E c \in lg2 \ lg : c.e = e
NewAhead(lg, lg2, at) == \A c \in lg2 \ lg : Before(at, c)
Held(p) == {cursor.at, cursor.upTo, task[p].since.at, task[p].since.upTo, task[p].next.at, task[p].upTo}

LEMMA ServerSteps ==
  ASSUME IInv, ServerInv,
         \/ \E r \in Requests : Begin(r) \/ Finishes(r)
         \/ \E r \in Requests, e \in Entities : Upsert(r, e) \/ Delete(r, e) \/ DeleteAtOnce(r, e)
  PROVE  /\ ServerInv' /\ UNCHANGED device /\ Grew(log, log', store, store')
         /\ \A p \in Pullers : \A at \in Held(p) : NewAhead(log, log', at)
<1>1. CASE \E r \in Requests : Commit(r)
  <2>1. PICK r \in Requests : Commit(r)
    BY <1>1
  <2>2. ServerInv'
    BY <2>1, ServerFinishes
  <2>3. r \in Open /\ log' = log \cup tx[r].rows /\ UNCHANGED device
    BY <2>1 DEF Commit
  <2>4. \A c \in log' \ log : c \in tx[r].rows /\ c.tx = tx[r].id
    BY <2>3 DEF IInv, IdsInOrder
  <2>5. \A p \in Pullers : \A at \in Held(p) : at.tx < tx[r].id
    BY <2>3 DEF Held, IInv, AllBehind, TaskBehind, CursorBehind, Behind
  <2>6. \A p \in Pullers : \A at \in Held(p) : NewAhead(log, log', at)
    BY <2>4, <2>5 DEF NewAhead, Before
  <2>7. ASSUME NEW e \in Entities, store'[e] # store[e] PROVE \E c \in log' \ log : c.e = e
    <3>1. Rows(tx[r], e) # {}
      BY <2>1, <2>7, RowCommits
    <3>2. \A c \in tx[r].rows : c \notin log
      <4>1. TxIs(tx[r], log, store)
        BY <2>3 DEF ServerInv
      <4> QED BY <2>3, <4>1, ServerTypes DEF TxIs, Open
    <3> QED BY <2>3, <3>1, <3>2 DEF Rows
  <2> QED BY <2>2, <2>3, <2>6, <2>7 DEF Grew
<1>2. ASSUME \A r \in Requests : ~Commit(r) PROVE ServerInv' /\ UNCHANGED <<store, log, device>>
  <2>1. ASSUME NEW r \in Requests, Begin(r) PROVE ServerInv' /\ UNCHANGED <<store, log, device>>
    BY <2>1, ServerBegins DEF Begin
  <2>2. ASSUME NEW r \in Requests, Abort(r) PROVE ServerInv' /\ UNCHANGED <<store, log, device>>
    BY <2>2, ServerFinishes DEF Abort
  <2>3. ASSUME NEW r \in Requests, NEW e \in Entities, Upsert(r, e) PROVE ServerInv' /\ UNCHANGED <<store, log, device>>
    BY <2>3, UpsertLogs DEF Upsert
  <2>4. ASSUME NEW r \in Requests, NEW e \in Entities, Delete(r, e) PROVE ServerInv' /\ UNCHANGED <<store, log, device>>
    BY <2>4, DeleteLogs DEF Delete
  <2>5. ASSUME NEW r \in Requests, NEW e \in Entities, DeleteAtOnce(r, e) PROVE ServerInv' /\ UNCHANGED <<store, log, device>>
    <3> DEFINE c == [tx |-> nextTx, n |-> 1, e |-> e, op |-> "delete", version |-> store[e] + 1]
    <3>1. c \in Change /\ c.e = e /\ c.op = "delete"
      BY ServerTypes DEF Change
    <3>2. /\ tx[r].id = 0 /\ UNCHANGED <<store, log, device>> /\ store[e] # Absent
          /\ tx' = [tx EXCEPT ![r] = [id |-> nextTx, seen |-> store, rows |-> {c}]]
      BY <2>5 DEF DeleteAtOnce
    <3>3. \A q \in Requests \ {r} : Rows(tx[q], e) = {}
      BY <2>5 DEF DeleteAtOnce, Lockable, Written, Rows
    <3> HIDE DEF c
    <3>4. {c} \in SUBSET Change
      BY <3>1
    <3> QED BY <3>1, <3>2, <3>3, <3>4, ServerBegins
  <2> QED BY <1>2, <2>1, <2>2, <2>3, <2>4, <2>5 DEF Finishes
<1>3. UNCHANGED <<store, log>> => Grew(log, log', store, store') /\ \A at : NewAhead(log, log', at)
  BY DEF Grew, NewAhead
<1> QED BY <1>1, <1>2, <1>3

-----------------------------------------------------------------------------
(* The order of the log, and its pages *)

Placed(a) == a.tx \in Nat /\ a.n \in Nat
LEMMA Order ==
  \A a, b, c : Placed(a) /\ Placed(b) /\ Placed(c) =>
    /\ Before(a, b) /\ Before(b, c) => Before(a, c)
    /\ Before(a, b) /\ ~Before(c, b) => Before(a, c)
    /\ ~Before(b, a) /\ Before(b, c) => Before(a, c)
    /\ ~Before(b, a) /\ ~Before(c, b) => ~Before(c, a)
    /\ Before(a, b) => ~Before(b, a)
    /\ ~Before(a, a)
  BY DEF Placed, Before

(* Among finitely many changes there is a latest. *)
LEMMA LatestExists ==
  ASSUME NEW S, IsFiniteSet(S), S # {}, \A c \in S : Placed(c)
  PROVE  \E c \in S : IsLast(c, S)
<1> DEFINE T == {n \in Nat : \A s \in SUBSET S : Cardinality(s) = n /\ s # {} => \E c \in s : IsLast(c, s)}
<1>1. \A s \in SUBSET S : IsFiniteSet(s) /\ Cardinality(s) \in Nat
  BY FS_Subset, FS_CardinalityType
<1>2. 0 \in T
  BY <1>1, FS_EmptySet
<1>3. ASSUME NEW n \in T PROVE n + 1 \in T
  <2>1. ASSUME NEW s \in SUBSET S, Cardinality(s) = n + 1, s # {} PROVE \E c \in s : IsLast(c, s)
    <3>1. PICK x \in s : TRUE
      BY <2>1
    <3>2. Cardinality(s \ {x}) = n
      <4>1. IsFiniteSet(s) /\ n \in Nat /\ Cardinality(s) = n + 1 /\ x \in s
        BY <1>1, <2>1, <3>1
      <4>2. Cardinality(s \ {x}) = Cardinality(s) - 1
        BY <4>1, FS_RemoveElement
      <4> HIDE DEF T
      <4> QED BY <4>1, <4>2
    <3>3. CASE s \ {x} = {}
      <4>1. s = {x}
        BY <3>3
      <4> QED BY <4>1, Order DEF IsLast
    <3>4. CASE s \ {x} # {}
      <4>1. PICK y \in s \ {x} : IsLast(y, s \ {x})
        BY <3>2, <3>4
      <4>2. CASE Before(y, x)
        <5>1. IsLast(x, s)
          BY <4>1, <4>2, Order DEF IsLast
        <5> QED BY <5>1
      <4>3. CASE ~Before(y, x)
        <5>1. IsLast(y, s)
          BY <4>1, <4>3 DEF IsLast
        <5> QED BY <5>1
      <4> QED BY <4>2, <4>3
    <3> QED BY <3>3, <3>4
  <2> QED BY <2>1
<1>4. T = Nat
  <2> HIDE DEF T
  <2>1. T \in SUBSET Nat
    BY DEF T
  <2> QED BY <1>2, <1>3, <2>1, NatInd
<1> QED BY <1>1, <1>4

(* A page takes the first of what is found. *)
LEMMA PageIsFirst ==
  ASSUME Apart, NEW found, IsFiniteSet(found), \A c \in found : Placed(c), NEW c \in Page(found), NEW d \in found, ~Before(c, d)
  PROVE  d \in Page(found)
<1> DEFINE A == {x \in found : Before(x, d)}
           B == {x \in found : Before(x, c)}
<1>1. c \in found /\ Cardinality(B) < Limit
  BY DEF Page
<1>2. A \subseteq B
  BY <1>1, Order
<1>3. IsFiniteSet(B)
  <2>1. B \subseteq found
    OBVIOUS
  <2> HIDE DEF B
  <2> QED BY <2>1, FS_Subset
<1>4. Cardinality(A) \in Nat /\ Cardinality(B) \in Nat /\ Cardinality(A) <= Cardinality(B)
  <2> HIDE DEF A, B
  <2> QED BY <1>2, <1>3, FS_Subset, FS_CardinalityType
<1>5. Limit \in Nat
  BY DEF Apart
<1>6. Cardinality(A) < Limit
  <2> HIDE DEF A, B
  <2> QED BY <1>1, <1>4, <1>5
<1> QED BY <1>6 DEF Page

(* Where a change of a row is on a page, so is the latest of them. *)
LEMMA CollapsedKeepsLatest ==
  ASSUME NEW page, IsFiniteSet(page), \A c \in page : Placed(c), NEW d \in page
  PROVE  \E c \in Collapsed(page) : c.e = d.e /\ ~Before(c, d)
<1> DEFINE S == {c \in page : c.e = d.e}
<1>1. IsFiniteSet(S) /\ S # {} /\ \A c \in S : Placed(c)
  <2>1. S \subseteq page /\ d \in S
    OBVIOUS
  <2> HIDE DEF S
  <2> QED BY <2>1, FS_Subset
<1>2. PICK c \in S : IsLast(c, S)
  <2> HIDE DEF S
  <2> QED BY <1>1, LatestExists
<1>3. c \in Collapsed(page)
  BY <1>2 DEF Collapsed, IsLast
<1> QED BY <1>2, <1>3 DEF IsLast

-----------------------------------------------------------------------------
(* What the device has, and what it is being told *)

After(lg, at, e) == \E c \in lg : c.e = e /\ Before(at, c)
Buried(lg, upTo, e) == \E c \in lg : c.e = e /\ c.op = "delete" /\ ~Before(upTo, c)

CursorIs(c) == c.snapshot => ~Before(c.upTo, c.at)

(* Where an answer begins and ends *)
CutIs(t) ==
  /\ t.snapshot = t.since.snapshot
  /\ ~Before(t.next.at, t.since.at)
  /\ t.snapshot => ~Before(t.upTo, t.next.at)
  /\ t.snapshot /\ t.since # Fresh => t.upTo = t.since.upTo
  /\ t.next.snapshot => t.snapshot /\ t.next.upTo = t.upTo /\ t.next # Fresh
  /\ t.snapshot => (t.more <=> t.next.snapshot)
  /\ t.snapshot /\ ~t.more => t.next.at = t.upTo

(* A page is of the log, and what came after one of its changes is after the whole answer. *)
PageIs(t, lg, mb) ==
  \A c \in t.rows :
    /\ c \in lg /\ CompanyOf[c.e] \in mb /\ Before(t.since.at, c) /\ ~Before(t.next.at, c)
    /\ \A x \in lg : x.e = c.e /\ Before(c, x) => Before(t.next.at, x) /\ Before(t.upTo, x)

(* A row that changed and is not on the page changes after it as well, or is not alive in the snapshot. *)
OnPage(t, e) == \E c \in t.rows : c.e = e
Reached(t, lg, S) ==
  \A e \in S : After(lg, t.since.at, e) /\ ~OnPage(t, e) =>
    After(lg, t.next.at, e) \/ (t.snapshot /\ Buried(lg, t.upTo, e))

(* The data of a page are the committed ones, or the row has changed since. *)
DataIs(t, lg, st, marks) ==
  \A e \in Entities :
    /\ t.data[e] # Absent => OnPage(t, e)
    /\ t.data[e] \notin {Absent, st[e]} => \E c \in lg : c.e = e /\ \A m \in marks : Before(m, c)
    /\ t.data[e] = Absent /\ (\E c \in t.rows : c.e = e /\ c.op = "upsert") => st[e] = Absent

(* Where a copy is not the committed one, a change is still to come: of what is alive, *)
Follows(have, lg, st, at, S) ==
  \A e \in Entities : CompanyOf[e] \in S /\ have[e] # st[e] /\ st[e] # Absent => After(lg, at, e)
(* of what is not, *)
Buries(have, lg, st, at, but) ==
  \A e \in Entities : have[e] # Absent /\ st[e] = Absent => After(lg, at, e) \/ e \in but
(* and what a snapshot leaves out for dead is not there. *)
Spares(have, lg, upTo, but) ==
  \A e \in Entities : Buried(lg, upTo, e) => have[e] = Absent \/ e \in but

Answering(t) == t.st \in {"read", "answer"}
InSession(t) == t.st # "idle" /\ t.session = session
Of(t) == IF t.of = All THEN t.covers ELSE {t.of}
(* The rows of which an answer must leave out nothing *)
Minded(p, t) ==
  {e \in Entities :
     \/ CompanyOf[e] \in Of(t)
     \/ p = "reload" /\ t.held[e] # Absent
     \/ p = "sync" /\ t.of = All /\ InSession(t) /\ ~mixed /\ (CompanyOf[e] \in whole \/ copy[e] # Absent)}
Marks(p, t) == {t.next.at, t.upTo} \cup IF p = "sync" /\ ~mixed THEN {cursor.at, cursor.upTo} ELSE {}

AnswerIs(p, t) ==
  /\ Answering(t) => CutIs(t) /\ PageIs(t, log, member) /\ Reached(t, log, Minded(p, t))
  /\ t.st = "answer" => DataIs(t, log, store, Marks(p, t))
TaskIs(p, t) ==
  /\ t.session <= session /\ t.covers \subseteq member /\ t.todo \subseteq member
  /\ t.of # All => t.of \in member
  /\ p = "reload" => t.of = All
  /\ t.st # "idle" => CursorIs(t.since) /\ (p = "reload" \/ t.of # All => t.since.snapshot)
  /\ InSession(t) => signedIn
  /\ AnswerIs(p, t)

Mid(c) == c.snapshot /\ c # Fresh
UpTo(t) == IF t.st = "ask" THEN t.since.upTo ELSE t.upTo
Taking(t) == IF t.st = "ask" THEN Mid(t.since) ELSE t.st # "idle" /\ t.snapshot

ReloadIs(t) ==
  t.st # "idle" =>
    /\ Follows(t.held, log, store, t.since.at, t.covers)
    /\ Buries(t.held, log, store, t.since.at, {})
    /\ Taking(t) => Spares(t.held, log, UpTo(t), {})
    /\ t.since = Fresh => t.held = Nothing

(* A company's history reaches at least to where the device's cursor is. *)
Joins(lg, c, upTo, at) == \A x \in lg : CompanyOf[x.e] = c /\ Before(upTo, x) => Before(at, x)
SyncIs(t) ==
  InSession(t) /\ ~mixed =>
    /\ Follows(copy, log, store, t.since.at, Of(t))
    /\ t.of = All => t.since = cursor
    /\ t.of = All /\ Taking(t) => Spares(copy, log, UpTo(t), gone)
    /\ t.of # All /\ Taking(t) => Joins(log, t.of, UpTo(t), cursor.at)

CopyIs ==
  /\ Follows(copy, log, store, cursor.at, whole)
  /\ Buries(copy, log, store, cursor.at, gone)
  /\ Mid(cursor) => Spares(copy, log, cursor.upTo, gone)
  /\ ~signedIn => copy = Nothing
DeviceIs ==
  /\ whole \subseteq member /\ CursorIs(cursor)
  /\ \A e \in Entities : copy[e] # Absent => CompanyOf[e] \in member
  /\ \A e \in Entities : task["reload"].held[e] # Absent => CompanyOf[e] \in member
  /\ ~mixed => CopyIs

FeedInv ==
  /\ ServerInv /\ DeviceIs /\ \A p \in Pullers : TaskIs(p, task[p])
  /\ ReloadIs(task["reload"]) /\ SyncIs(task["sync"])

(* The types of what a device has and is told *)
LEMMA FeedTypes ==
  ASSUME IInv
  PROVE  /\ cursor \in Cursor /\ copy \in [Entities -> Nat] /\ session \in Nat /\ signedIn \in BOOLEAN
         /\ task \in [Pullers -> Tasks]
         /\ \A c \in Cursor : Placed(c.at) /\ Placed(c.upTo)
         /\ \A c \in Change : Placed(c)
         /\ \A p \in Pullers : LET t == task[p] IN
              /\ t \in Tasks /\ t.st \in {"idle", "ask", "read", "answer"} /\ t.since \in Cursor /\ t.next \in Cursor
              /\ t.upTo \in Position /\ Placed(t.upTo) /\ t.rows \subseteq Change
              /\ t.data \in [Entities -> Nat] /\ t.held \in [Entities -> Nat]
              /\ t.snapshot \in BOOLEAN /\ t.more \in BOOLEAN /\ t.session \in Nat /\ t.of \in {All} \cup Companies
  BY DEF IInv, TypeOK, Tasks, Cursor, Position, Change, Placed

LEMMA FreshIs == Fresh \in Cursor /\ Fresh.at = Start /\ Fresh.upTo = Start /\ Fresh.snapshot /\ Placed(Start)
                 /\ Start \in Position /\ Start.tx = 0
  BY DEF Fresh, Start, Cursor, Position, Placed

(* What grows ahead of a position keeps what is said of it. *)
LEMMA GrewSays ==
  ASSUME NEW lg, NEW lg2, NEW st, NEW st2, Grew(lg, lg2, st, st2), LogIs(lg, st), LogIs(lg2, st2), NEW have, NEW but
  PROVE  /\ \A at, S : NewAhead(lg, lg2, at) /\ Follows(have, lg, st, at, S) => Follows(have, lg2, st2, at, S)
         /\ \A at : NewAhead(lg, lg2, at) /\ Buries(have, lg, st, at, but) => Buries(have, lg2, st2, at, but)
         /\ \A upTo : NewAhead(lg, lg2, upTo) /\ Spares(have, lg, upTo, but) => Spares(have, lg2, upTo, but)
         /\ \A c, upTo, at : NewAhead(lg, lg2, at) /\ Joins(lg, c, upTo, at) => Joins(lg2, c, upTo, at)
<1>1. \A at, e : NewAhead(lg, lg2, at) /\ (After(lg, at, e) \/ \E c \in lg2 \ lg : c.e = e) => After(lg2, at, e)
  BY DEF Grew, NewAhead, After
<1>2. \A upTo, e : NewAhead(lg, lg2, upTo) /\ Buried(lg2, upTo, e) => Buried(lg, upTo, e)
  BY DEF NewAhead, Buried
<1>3. \A e \in Entities : st2[e] = st[e] \/ \E c \in lg2 \ lg : c.e = e
  BY DEF Grew
<1>4. ASSUME NEW at, NEW S, NewAhead(lg, lg2, at), Follows(have, lg, st, at, S) PROVE Follows(have, lg2, st2, at, S)
  BY <1>1, <1>3, <1>4 DEF Follows
<1>5. ASSUME NEW at, NewAhead(lg, lg2, at), Buries(have, lg, st, at, but) PROVE Buries(have, lg2, st2, at, but)
  BY <1>1, <1>3, <1>5 DEF Buries
<1>6. ASSUME NEW upTo, NewAhead(lg, lg2, upTo), Spares(have, lg, upTo, but) PROVE Spares(have, lg2, upTo, but)
  BY <1>2, <1>6 DEF Spares
<1>7. ASSUME NEW c, NEW upTo, NEW at, NewAhead(lg, lg2, at), Joins(lg, c, upTo, at) PROVE Joins(lg2, c, upTo, at)
  BY <1>7 DEF Joins, NewAhead
<1> QED BY <1>4, <1>5, <1>6, <1>7

LEMMA GrewAnswers ==
  ASSUME NEW lg, NEW lg2, NEW st, NEW st2, Grew(lg, lg2, st, st2), LogIs(lg, st), LogIs(lg2, st2), NEW t,
         NewAhead(lg, lg2, t.since.at), NewAhead(lg, lg2, t.next.at), NewAhead(lg, lg2, t.upTo), NEW mb, PageIs(t, lg, mb)
  PROVE  /\ PageIs(t, lg2, mb)
         /\ \A S : Reached(t, lg, S) => Reached(t, lg2, S)
         /\ \A marks : (\A m \in marks : NewAhead(lg, lg2, m)) /\ DataIs(t, lg, st, marks) => DataIs(t, lg2, st2, marks)
<1>1. PageIs(t, lg2, mb)
  BY DEF PageIs, NewAhead, Grew
<1>2. ASSUME NEW S, Reached(t, lg, S) PROVE Reached(t, lg2, S)
  <2>1. ASSUME NEW e \in S, After(lg2, t.since.at, e), ~OnPage(t, e)
        PROVE  After(lg2, t.next.at, e) \/ (t.snapshot /\ Buried(lg2, t.upTo, e))
    <3>1. PICK c \in lg2 : c.e = e /\ Before(t.since.at, c)
      BY <2>1 DEF After
    <3>2. CASE c \in lg
      <4>1. After(lg, t.since.at, e)
        BY <3>1, <3>2 DEF After
      <4>2. After(lg, t.next.at, e) \/ (t.snapshot /\ Buried(lg, t.upTo, e))
        BY <1>2, <2>1, <4>1 DEF Reached
      <4> QED BY <4>2 DEF After, Buried, Grew
    <3>3. CASE c \notin lg
      BY <3>1, <3>3 DEF NewAhead, After
    <3> QED BY <3>2, <3>3
  <2> QED BY <2>1 DEF Reached
<1>3. ASSUME NEW marks, \A m \in marks : NewAhead(lg, lg2, m), DataIs(t, lg, st, marks) PROVE DataIs(t, lg2, st2, marks)
  <2> SUFFICES ASSUME NEW e \in Entities
               PROVE  /\ t.data[e] # Absent => OnPage(t, e)
                      /\ t.data[e] \notin {Absent, st2[e]} => \E c \in lg2 : c.e = e /\ \A m \in marks : Before(m, c)
                      /\ t.data[e] = Absent /\ (\E c \in t.rows : c.e = e /\ c.op = "upsert") => st2[e] = Absent
    BY DEF DataIs
  <2>1. /\ t.data[e] # Absent => OnPage(t, e)
        /\ t.data[e] \notin {Absent, st[e]} => \E c \in lg : c.e = e /\ \A m \in marks : Before(m, c)
        /\ t.data[e] = Absent /\ (\E c \in t.rows : c.e = e /\ c.op = "upsert") => st[e] = Absent
    BY <1>3 DEF DataIs
  <2>2. ASSUME t.data[e] \notin {Absent, st2[e]} PROVE \E c \in lg2 : c.e = e /\ \A m \in marks : Before(m, c)
    <3>1. CASE st2[e] = st[e]
      BY <2>1, <2>2, <3>1 DEF Grew
    <3>2. CASE st2[e] # st[e]
      <4>1. PICK c \in lg2 \ lg : c.e = e
        BY <3>2 DEF Grew
      <4>2. \A m \in marks : Before(m, c)
        BY <1>3, <4>1 DEF NewAhead
      <4> QED BY <4>1, <4>2
    <3> QED BY <3>1, <3>2
  <2>3. ASSUME t.data[e] = Absent, NEW c \in t.rows, c.e = e, c.op = "upsert" PROVE st2[e] = Absent
    <3>1. st[e] = Absent /\ c \in lg
      BY <2>1, <2>3 DEF PageIs
    <3>2. PICK x \in lg : x.e = e /\ x.op = "delete"
      BY <2>3, <3>1 DEF LogIs
    <3>3. x \in lg2
      BY DEF Grew
    <3> QED BY <3>2, <3>3 DEF LogIs
  <2> QED BY <2>1, <2>2, <2>3
<1> QED BY <1>1, <1>2, <1>3

(* A step of the server only leaves the device with more to come. *)
LEMMA ServerKeeps ==
  ASSUME IInv, FeedInv,
         \/ \E r \in Requests : Begin(r) \/ Finishes(r)
         \/ \E r \in Requests, e \in Entities : Upsert(r, e) \/ Delete(r, e) \/ DeleteAtOnce(r, e)
  PROVE  FeedInv'
<1>1. /\ ServerInv' /\ UNCHANGED device /\ Grew(log, log', store, store')
      /\ \A p \in Pullers : \A at \in Held(p) : NewAhead(log, log', at)
  BY ServerSteps DEF FeedInv
<1>2. /\ member' = member /\ signedIn' = signedIn /\ session' = session /\ cursor' = cursor /\ copy' = copy
      /\ task' = task /\ whole' = whole /\ gone' = gone /\ mixed' = mixed
  BY <1>1 DEF device
<1>3. LogIs(log, store) /\ LogIs(log', store')
  BY <1>1 DEF FeedInv, ServerInv
<1>4. NewAhead(log, log', cursor.at) /\ NewAhead(log, log', cursor.upTo)
  BY <1>1 DEF Held, Pullers
<1>5. DeviceIs'
  <2>1. ~mixed => CopyIs'
    BY <1>1, <1>2, <1>3, <1>4, GrewSays DEF FeedInv, DeviceIs, CopyIs
  <2> QED BY <1>2, <2>1 DEF FeedInv, DeviceIs
<1>6. ASSUME NEW p \in Pullers
      PROVE  /\ NewAhead(log, log', task[p].since.at) /\ NewAhead(log, log', task[p].since.upTo)
             /\ NewAhead(log, log', task[p].next.at) /\ NewAhead(log, log', task[p].upTo)
             /\ NewAhead(log, log', UpTo(task[p]))
  BY <1>1 DEF Held, UpTo
<1>7. ASSUME NEW p \in Pullers PROVE TaskIs(p, task[p])'
  <2> DEFINE t == task[p]
  <2>1. TaskIs(p, t) /\ task'[p] = t
    BY <1>2 DEF FeedInv
  <2>2. Minded(p, t)' = Minded(p, t) /\ Marks(p, t)' = Marks(p, t)
    BY <1>2 DEF Minded, Marks, Of, InSession
  <2>3. \A m \in Marks(p, t) : NewAhead(log, log', m)
    BY <1>4, <1>6 DEF Marks
  <2>4. Answering(t) => CutIs(t) /\ PageIs(t, log', member) /\ Reached(t, log', Minded(p, t))
    BY <1>1, <1>3, <1>6, <2>1, GrewAnswers DEF TaskIs, AnswerIs
  <2>5. t.st = "answer" => DataIs(t, log', store', Marks(p, t))
    BY <1>1, <1>3, <1>6, <2>1, <2>3, GrewAnswers DEF TaskIs, AnswerIs, Answering
  <2>6. AnswerIs(p, t)'
    BY <1>2, <2>2, <2>4, <2>5 DEF AnswerIs, Answering
  <2> QED BY <1>2, <2>1, <2>6 DEF TaskIs, InSession
<1>8. ReloadIs(task["reload"])'
  <2>1. ReloadIs(task["reload"]) /\ "reload" \in Pullers
    BY DEF FeedInv, Pullers
  <2> QED BY <1>1, <1>2, <1>3, <1>6, <2>1, GrewSays DEF ReloadIs
<1>9. SyncIs(task["sync"])'
  <2>1. SyncIs(task["sync"]) /\ "sync" \in Pullers
    BY DEF FeedInv, Pullers
  <2> QED BY <1>1, <1>2, <1>3, <1>4, <1>6, <2>1, GrewSays DEF SyncIs, InSession
<1> QED BY <1>1, <1>5, <1>7, <1>8, <1>9 DEF FeedInv

-----------------------------------------------------------------------------
(* An answer is begun *)

ServedRows(p) == {e \in Entities : IF task[p].of = All THEN CompanyOf[e] \in member ELSE CompanyOf[e] = task[p].of}

LEMMA EverythingToCome ==
  ASSUME IInv, ServerInv, NEW e \in Entities, store[e] # Absent
  PROVE  After(log, Start, e)
<1>1. PICK c \in log : c.e = e
  BY DEF ServerInv, LogIs
<1>2. c.tx >= 1 /\ c.tx \in Nat
  BY ServerTypes DEF ServerInv, LogIs
<1> QED BY <1>1, <1>2, FreshIs DEF After, Before

LEMMA ServerAsIs == ASSUME ServerInv, UNCHANGED server PROVE ServerInv'
  BY DEF ServerInv, server, Open

(* A task that stays as it is, on a copy that does *)
LEMMA TaskAsIs ==
  ASSUME NEW p \in Pullers, NEW t, TaskIs(p, t), UNCHANGED <<server, signedIn, session, cursor, copy, whole, mixed>>,
         member \subseteq member'
  PROVE  TaskIs(p, t)'
<1>1. Minded(p, t)' = Minded(p, t) /\ Marks(p, t)' = Marks(p, t) /\ log' = log /\ store' = store
  BY DEF Minded, Marks, Of, InSession, server
<1>2. PageIs(t, log, member) => PageIs(t, log, member')
  BY DEF PageIs
<1>3. AnswerIs(p, t)'
  BY <1>1, <1>2 DEF TaskIs, AnswerIs, Answering
<1> QED BY <1>3 DEF TaskIs, InSession

LEMMA MindedIsServed ==
  ASSUME FeedInv, NEW p \in Pullers, NEW u, u.of = task[p].of, u.held = task[p].held, u.covers \subseteq member
  PROVE  Minded(p, u) \subseteq ServedRows(p)
<1>1. p = "reload" => u.of = All
  BY DEF FeedInv, TaskIs
<1> QED BY <1>1 DEF Minded, ServedRows, Of, FeedInv, DeviceIs

(* The answer that is begun *)
Begun(u, p) ==
  /\ task' = [task EXCEPT ![p] = u]
  /\ u.st = "read" /\ u.of = task[p].of /\ u.todo = task[p].todo /\ u.session = task[p].session
  /\ u.since = task[p].since /\ u.held = task[p].held
  /\ u.covers = (IF task[p].since = Fresh THEN member ELSE task[p].covers)
  /\ gone' = (IF p = "sync" /\ task[p].of = All /\ task[p].since = Fresh THEN {e \in Entities : copy[e] # Absent} ELSE gone)
  /\ UNCHANGED <<server, member, signedIn, session, cursor, copy, whole, mixed>>
Has(u, rows, snapshot, upTo, next, more) ==
  u.rows = rows /\ u.snapshot = snapshot /\ u.upTo = upTo /\ u.next = next /\ u.more = more

LEMMA AnswerBegins ==
  ASSUME IInv, FeedInv, NEW p \in Pullers, task[p].st = "ask", signedIn, NEW u \in Tasks, Begun(u, p),
         CutIs(u), PageIs(u, log, member), Reached(u, log, ServedRows(p)),
         u.of # All /\ u.since = Fresh => Joins(log, u.of, u.upTo, cursor.at)
  PROVE  FeedInv'
<1> USE DEF Begun
<1> DEFINE t == task[p]
<1>0. task'[p] = u /\ \A q \in Pullers \ {p} : task'[q] = task[q]
  BY FeedTypes
<1>1. ServerInv'
  BY ServerAsIs DEF FeedInv
<1>2. log' = log /\ store' = store
  BY DEF server
<1>3. TaskIs(p, t) /\ t.covers \subseteq member
  BY DEF FeedInv, TaskIs
<1>4. DeviceIs'
  <2>1. task'["reload"].held = task["reload"].held
    BY <1>0 DEF Pullers
  <2>2. ~mixed => CopyIs'
    BY <1>2 DEF FeedInv, DeviceIs, CopyIs, Buries, Spares
  <2> QED BY <2>1, <2>2 DEF FeedInv, DeviceIs
<1>5. TaskIs(p, u)'
  <2>1. u.covers \subseteq member
    BY <1>3
  <2>2. Minded(p, u) \subseteq ServedRows(p)
    BY <2>1, MindedIsServed
  <2>3. Minded(p, u)' = Minded(p, u)
    BY DEF Minded, Of, InSession
  <2>4. Reached(u, log, Minded(p, u))
    BY <2>2 DEF Reached
  <2>5. AnswerIs(p, u)'
    BY <1>2, <2>3, <2>4 DEF AnswerIs
  <2> QED BY <1>3, <2>1, <2>5 DEF TaskIs, InSession
<1>6. \A q \in Pullers \ {p} : TaskIs(q, task[q])'
  <2> TAKE q \in Pullers \ {p}
  <2>1. TaskIs(q, task[q]) /\ task'[q] = task[q]
    BY <1>0 DEF FeedInv
  <2> QED BY <2>1, TaskAsIs
<1>7. \A q \in Pullers : TaskIs(q, task[q])'
  BY <1>0, <1>5, <1>6
<1>8. ASSUME u.snapshot, u.since # Fresh PROVE Taking(t) /\ UpTo(t) = u.upTo
  <2>1. u.upTo = u.since.upTo /\ u.snapshot = u.since.snapshot
    BY <1>8 DEF CutIs
  <2>2. Mid(t.since)
    BY <1>8, <2>1 DEF Mid
  <2> QED BY <2>1, <2>2 DEF Taking, UpTo
<1>9. (Taking(u) <=> u.snapshot) /\ UpTo(u) = u.upTo
  BY DEF Taking, UpTo
<1>10. \A e \in Entities : store[e] # Absent => After(log, Fresh.at, e)
  BY EverythingToCome, FreshIs DEF FeedInv
<1>11. ASSUME p = "reload" PROVE ReloadIs(u)'
  <2>1. ReloadIs(t) /\ t.st # "idle"
    BY <1>11 DEF FeedInv
  <2>2. Follows(u.held, log, store, u.since.at, u.covers)
    BY <1>10, <2>1 DEF ReloadIs, Follows
  <2>3. Buries(u.held, log, store, u.since.at, {})
    BY <2>1 DEF ReloadIs
  <2>4. ASSUME u.snapshot PROVE Spares(u.held, log, u.upTo, {})
    <3>1. CASE u.since = Fresh
      BY <2>1, <3>1 DEF ReloadIs, Spares, Nothing
    <3>2. CASE u.since # Fresh
      BY <1>8, <2>1, <2>4, <3>2 DEF ReloadIs
    <3> QED BY <3>1, <3>2
  <2>5. u.since = Fresh => u.held = Nothing
    BY <2>1 DEF ReloadIs
  <2> QED BY <1>2, <1>9, <2>2, <2>3, <2>4, <2>5 DEF ReloadIs
<1>12. ASSUME p = "sync" PROVE SyncIs(u)'
  <2> SUFFICES ASSUME InSession(u), ~mixed
               PROVE  /\ Follows(copy, log, store, u.since.at, Of(u))
                      /\ u.of = All => u.since = cursor
                      /\ u.of = All /\ u.snapshot => Spares(copy, log, u.upTo, gone')
                      /\ u.of # All /\ u.snapshot => Joins(log, u.of, u.upTo, cursor.at)
    BY <1>2, <1>9 DEF SyncIs, InSession
  <2>1. /\ Follows(copy, log, store, t.since.at, Of(t))
        /\ t.of = All => t.since = cursor
        /\ t.of = All /\ Taking(t) => Spares(copy, log, UpTo(t), gone)
        /\ t.of # All /\ Taking(t) => Joins(log, t.of, UpTo(t), cursor.at)
    BY <1>12 DEF FeedInv, SyncIs, InSession
  <2>2. Follows(copy, log, store, u.since.at, Of(u))
    BY <1>10, <2>1 DEF Follows, Of
  <2>3. u.of = All => u.since = cursor
    BY <2>1
  <2>4. ASSUME u.of = All, u.snapshot PROVE Spares(copy, log, u.upTo, gone')
    <3>1. CASE u.since = Fresh
      BY <1>12, <2>4, <3>1 DEF Spares
    <3>2. CASE u.since # Fresh
      BY <1>8, <2>1, <2>4, <3>2
    <3> QED BY <3>1, <3>2
  <2>5. u.of # All /\ u.snapshot => Joins(log, u.of, u.upTo, cursor.at)
    BY <1>8, <2>1
  <2> QED BY <2>2, <2>3, <2>4, <2>5
<1>13. ReloadIs(task["reload"])'
  <2>1. CASE p = "reload"
    BY <1>0, <1>11, <2>1
  <2>2. CASE p # "reload"
    <3>1. task'["reload"] = task["reload"]
      BY <1>0, <2>2 DEF Pullers
    <3> QED BY <1>2, <3>1 DEF FeedInv, ReloadIs
  <2> QED BY <2>1, <2>2
<1>14. SyncIs(task["sync"])'
  <2>1. CASE p = "sync"
    BY <1>0, <1>12, <2>1
  <2>2. CASE p # "sync"
    <3>1. task'["sync"] = task["sync"] /\ gone' = gone
      BY <1>0, <2>2 DEF Pullers
    <3> QED BY <1>2, <3>1 DEF FeedInv, SyncIs, InSession
  <2> QED BY <2>1, <2>2
<1> QED BY <1>1, <1>4, <1>7, <1>13, <1>14 DEF FeedInv

LEMMA ChosenRecord ==
  ASSUME IInv, NEW p \in Pullers, NEW rows \in SUBSET Change, NEW snapshot \in BOOLEAN, NEW upTo \in Position,
         NEW next \in Cursor, NEW more \in BOOLEAN, Chosen(p, rows, snapshot, upTo, next, more)
  PROVE  \E u \in Tasks : Begun(u, p) /\ Has(u, rows, snapshot, upTo, next, more)
<1> DEFINE u == [task[p] EXCEPT !.st = "read", !.rows = rows, !.snapshot = snapshot, !.upTo = upTo, !.next = next,
                                !.more = more, !.covers = IF task[p].since = Fresh THEN member ELSE task[p].covers]
<1>1. task[p] \in Tasks /\ member \subseteq Companies
  BY DEF IInv, TypeOK
<1>2. u \in Tasks
  BY <1>1 DEF Tasks
<1>3. /\ u.st = "read" /\ u.of = task[p].of /\ u.todo = task[p].todo /\ u.session = task[p].session
      /\ u.since = task[p].since /\ u.held = task[p].held
      /\ u.covers = (IF task[p].since = Fresh THEN member ELSE task[p].covers)
      /\ u.rows = rows /\ u.snapshot = snapshot /\ u.upTo = upTo /\ u.next = next /\ u.more = more
  BY <1>1 DEF Tasks
<1>4. task' = [task EXCEPT ![p] = u]
  BY DEF Chosen
<1>5. /\ gone' = (IF p = "sync" /\ task[p].of = All /\ task[p].since = Fresh THEN {e \in Entities : copy[e] # Absent} ELSE gone)
      /\ UNCHANGED <<server, member, signedIn, session, cursor, copy, whole, mixed>>
  BY DEF Chosen
<1> HIDE DEF u
<1>6. Begun(u, p)
  BY <1>3, <1>4, <1>5 DEF Begun
<1>7. Has(u, rows, snapshot, upTo, next, more)
  BY <1>3 DEF Has
<1> QED BY <1>2, <1>6, <1>7

LEMMA ServedIs ==
  ASSUME IInv, FeedInv, NEW p \in Pullers
  PROVE  /\ \A c \in Served(p) : c \in log /\ c \in Change /\ Placed(c) /\ c.e \in Entities /\ CompanyOf[c.e] \in member
         /\ \A c \in log : c.e \in ServedRows(p) => c \in Served(p)
         /\ \A S : S \subseteq Served(p) => IsFiniteSet(S)
<1>1. task[p].of # All => task[p].of \in member
  BY DEF FeedInv, TaskIs
<1>2. \A c \in log : c \in Change /\ Placed(c) /\ c.e \in Entities
  BY ServerTypes DEF Placed
<1>3. IsFiniteSet(log)
  BY DEF FeedInv, ServerInv, LogIs
<1>4. \A S : S \subseteq Served(p) => S \subseteq log
  BY DEF Served
<1>5. \A S : S \subseteq Served(p) => IsFiniteSet(S)
  BY <1>3, <1>4, FS_Subset
<1> QED BY <1>1, <1>2, <1>5 DEF Served, ServedRows

LEMMA ChangesKeep ==
  ASSUME Apart, IInv, FeedInv, NEW p \in Pullers, PullChanges(p)
  PROVE  FeedInv'
<1> DEFINE since == task[p].since
           found == {c \in Served(p) : Settled(c) /\ Before(since.at, c)}
           page == Page(found)
<1>1. /\ task[p].st = "ask" /\ signedIn /\ ~since.snapshot /\ since \in Cursor /\ since # Fresh
      /\ since.snapshot = FALSE /\ Placed(since.at)
  <2>1. since \in Cursor /\ since.snapshot \in BOOLEAN /\ Placed(since.at)
    BY FeedTypes DEF Cursor
  <2>2. task[p].st = "ask" /\ signedIn /\ ~since.snapshot
    BY DEF PullChanges
  <2> QED BY <2>1, <2>2, FreshIs
<1>2. CASE found = {} /\ Chosen(p, {}, FALSE, Start, since, FALSE)
  <2>0. PICK u \in Tasks : Begun(u, p) /\ Has(u, {}, FALSE, Start, since, FALSE)
    <3>1. {} \in SUBSET Change /\ FALSE \in BOOLEAN
      OBVIOUS
    <3> HIDE DEF found, since
    <3> QED BY <1>1, <1>2, <3>1, FreshIs, ChosenRecord
  <2>1. u.since = since /\ u.rows = {} /\ u.snapshot = FALSE /\ u.next = since
    BY <2>0 DEF Begun, Has
  <2>2. CutIs(u)
    <3>1. u.snapshot = u.since.snapshot /\ ~u.snapshot /\ ~u.next.snapshot /\ u.next.at = u.since.at
      BY <1>1, <2>1
    <3>2. ~Before(u.next.at, u.since.at)
      BY <1>1, <2>1, Order
    <3> QED BY <3>1, <3>2 DEF CutIs
  <2>3. PageIs(u, log, member)
    BY <2>1 DEF PageIs
  <2>4. Reached(u, log, ServedRows(p))
    BY <2>1 DEF Reached
  <2>5. u.since # Fresh
    BY <1>1, <2>1
  <2> HIDE DEF found, since
  <2> QED BY <1>1, <2>0, <2>2, <2>3, <2>4, <2>5, AnswerBegins
<1>3. ASSUME NEW last \in page, IsLast(last, page),
             Chosen(p, Collapsed(page), FALSE, Start, [at |-> Pos(last), snapshot |-> FALSE, upTo |-> Start], page # found)
      PROVE  FeedInv'
  <2> DEFINE next == [at |-> Pos(last), snapshot |-> FALSE, upTo |-> Start]
             rows == Collapsed(page)
             more == page # found
  <2>1. found \subseteq Served(p) /\ page \subseteq found /\ rows \subseteq page
    BY DEF Page, Collapsed
  <2>2. \A c \in found : c \in log /\ c \in Change /\ Placed(c) /\ c.e \in Entities /\ CompanyOf[c.e] \in member
    BY <2>1, ServedIs
  <2>3. IsFiniteSet(found) /\ IsFiniteSet(page)
    <3> HIDE DEF found, page
    <3> QED BY <2>1, ServedIs
  <2>4. \A c \in found : Settled(c) /\ Before(since.at, c)
    OBVIOUS
  <2>5. Pos(last) \in Position /\ Pos(last).tx = last.tx /\ Pos(last).n = last.n
    <3>1. last \in Change
      BY <2>1, <2>2
    <3> QED BY <3>1 DEF Change, Pos, Position
  <2>6. next \in Cursor /\ next.at = Pos(last) /\ ~next.snapshot /\ more \in BOOLEAN
    BY <2>5, FreshIs DEF Cursor
  <2>7. rows \in SUBSET Change
    BY <2>1, <2>2
  <2>8. \A c : Before(Pos(last), c) <=> Before(last, c)
    BY <2>5 DEF Before
  <2>9. last \in found /\ last \in log /\ Placed(last) /\ Before(since.at, last) /\ Settled(last) /\ Placed(Pos(last))
    BY <2>1, <2>2, <2>4, <2>5 DEF Placed
  \* What is not after the page's last change and is of interest is on it.
  <2>10. ASSUME NEW x \in log, x.e \in ServedRows(p), Before(since.at, x), ~Before(last, x) PROVE x \in page
    <3>1. x \in Served(p) /\ Placed(x)
      BY <2>10, ServedIs, ServerTypes DEF Placed
    <3>2. Settled(x)
      <4>1. x.tx \in Nat /\ last.tx \in Nat /\ \A r \in Requests : tx[r].id \in Nat
        BY <2>9, ServerTypes
      <4>2. x.tx <= last.tx
        BY <2>10, <4>1 DEF Before
      <4> QED BY <2>9, <4>1, <4>2 DEF Settled, Open
    <3>3. x \in found
      BY <2>10, <3>1, <3>2
    <3> HIDE DEF found
    <3> QED BY <2>2, <2>3, <2>10, <3>3, PageIsFirst DEF page
  <2> HIDE DEF found, page, rows, next, more
  <2>11. Chosen(p, rows, FALSE, Start, next, more)
    BY <1>3 DEF next, rows, more
  <2>12. PICK u \in Tasks : Begun(u, p) /\ Has(u, rows, FALSE, Start, next, more)
    <3>1. FALSE \in BOOLEAN
      OBVIOUS
    <3> QED BY <2>6, <2>7, <2>11, <3>1, FreshIs, ChosenRecord
  <2>13. /\ u.next.at = Pos(last) /\ ~u.next.snapshot /\ u.since = since
         /\ u.rows = rows /\ u.snapshot = FALSE /\ u.upTo = Start
    BY <2>6, <2>12 DEF Begun, Has, since
  <2>14. CutIs(u)
    <3>1. ~Before(Pos(last), since.at)
      BY <1>1, <2>8, <2>9, Order
    <3>2. u.snapshot = u.since.snapshot /\ ~u.snapshot
      BY <1>1, <2>13
    <3> QED BY <2>13, <3>1, <3>2 DEF CutIs
  <2>15. PageIs(u, log, member)
    <3>1. ASSUME NEW c \in rows
          PROVE  /\ c \in log /\ CompanyOf[c.e] \in member /\ Before(since.at, c) /\ ~Before(Pos(last), c)
                 /\ \A x \in log : x.e = c.e /\ Before(c, x) => Before(Pos(last), x) /\ Before(Start, x)
      <4>1. c \in page /\ c \in found
        BY <2>1
      <4>2. ~Before(last, c)
        BY <1>3, <4>1 DEF IsLast
      <4>3. c.e \in ServedRows(p)
        BY <2>1, <2>2, <4>1 DEF Served, ServedRows
      <4>4. ASSUME NEW x \in log, x.e = c.e, Before(c, x) PROVE Before(last, x) /\ Before(Start, x)
        <5>1. Placed(x) /\ Placed(c) /\ Placed(since.at)
          BY <1>1, <2>2, <4>1, ServerTypes DEF Placed
        <5>2. Before(since.at, x)
          BY <2>4, <4>1, <4>4, <5>1, Order
        <5>3. x \notin page
          BY <4>4 DEF rows, Collapsed
        <5>4. Before(last, x)
          BY <2>10, <4>3, <4>4, <5>2, <5>3
        <5>5. x.tx >= 1
          BY DEF FeedInv, ServerInv, LogIs
        <5>6. Before(Start, x)
          BY <5>1, <5>5, FreshIs DEF Before, Placed
        <5> QED BY <5>4, <5>6
      <4> QED BY <2>2, <2>4, <2>8, <4>1, <4>2, <4>4
    <3> QED BY <2>13, <3>1 DEF PageIs
  <2>16. Reached(u, log, ServedRows(p))
    <3>1. ASSUME NEW e \in ServedRows(p), After(log, since.at, e), ~OnPage(u, e) PROVE After(log, Pos(last), e)
      <4>1. PICK x \in log : x.e = e /\ Before(since.at, x)
        BY <3>1 DEF After
      <4>2. x \notin page
        <5> SUFFICES ASSUME x \in page PROVE FALSE
          OBVIOUS
        <5>1. \A c \in page : Placed(c)
          BY <2>1, <2>2
        <5>2. PICK c \in rows : c.e = x.e
          BY <2>3, <5>1, CollapsedKeepsLatest DEF rows
        <5> QED BY <2>13, <3>1, <4>1, <5>2 DEF OnPage
      <4>3. Before(last, x)
        BY <2>10, <3>1, <4>1, <4>2
      <4> QED BY <2>8, <4>1, <4>3 DEF After
    <3> QED BY <2>13, <3>1 DEF Reached
  <2>17. u.since # Fresh
    BY <1>1, <2>13
  <2> HIDE DEF since
  <2> QED BY <1>1, <2>12, <2>14, <2>15, <2>16, <2>17, AnswerBegins
<1> QED BY <1>1, <1>2, <1>3 DEF PullChanges

(* A page of a snapshot, wherever it ends *)
LEMMA SnapshotAnswer ==
  ASSUME Apart, IInv, FeedInv, NEW p \in Pullers, task[p].st = "ask", signedIn, task[p].since.snapshot,
         NEW upTo \in Position, AsOf(p, upTo), NEW next \in Cursor, NEW more \in BOOLEAN, NEW page,
         page \subseteq InSnapshot(p, upTo), Chosen(p, page, TRUE, upTo, next, more),
         ~Before(upTo, next.at), ~Before(next.at, task[p].since.at),
         \A c \in page : ~Before(next.at, c),
         \A c \in InSnapshot(p, upTo) : ~Before(next.at, c) => c \in page,
         next.snapshot => next.upTo = upTo /\ next # Fresh, more <=> next.snapshot, ~more => next.at = upTo
  PROVE  FeedInv'
<1> DEFINE since == task[p].since
           part == {c \in Served(p) : ~Before(upTo, c)}
<1>1. /\ since \in Cursor /\ since.snapshot \in BOOLEAN /\ Placed(since.at) /\ Placed(upTo) /\ Placed(next.at)
      /\ since.snapshot = TRUE
  <2>1. since \in Cursor /\ since.snapshot \in BOOLEAN /\ Placed(since.at) /\ Placed(next.at)
    BY FeedTypes DEF Cursor
  <2>2. Placed(upTo)
    BY DEF Placed, Position
  <2> QED BY <2>1, <2>2
<1>2. \A c \in InSnapshot(p, upTo) : c \in Collapsed(part) /\ c \in part /\ c.op # "delete" /\ Before(since.at, c)
  BY DEF InSnapshot, Collapsed
<1>3. \A c \in part : c \in log /\ c \in Change /\ Placed(c) /\ c.e \in Entities /\ CompanyOf[c.e] \in member /\ ~Before(upTo, c)
  BY ServedIs
<1>4. IsFiniteSet(part)
  <2>1. part \subseteq Served(p)
    OBVIOUS
  <2> HIDE DEF part
  <2> QED BY <2>1, ServedIs
<1>5. \A x \in log : x.e \in ServedRows(p) /\ ~Before(upTo, x) => x \in part
  BY ServedIs
<1>6. \A c \in Collapsed(part), x \in part : x.e = c.e => ~Before(c, x)
  BY DEF Collapsed
<1>7. \A c \in Collapsed(part) : c \in part /\ c.e \in ServedRows(p)
  <2>1. \A c \in part : c.e \in ServedRows(p)
    BY <1>3 DEF Served, ServedRows
  <2> QED BY <2>1 DEF Collapsed
<1>8. \A x \in log : Placed(x) /\ x \in Change
  BY ServerTypes DEF Placed
<1>9. \A c \in Collapsed(part) : c.op # "delete" /\ Before(since.at, c) => c \in InSnapshot(p, upTo)
  BY DEF InSnapshot
<1>10. \A x \in part : \E c \in Collapsed(part) : c.e = x.e /\ ~Before(c, x)
  <2>1. \A c \in part : Placed(c)
    BY <1>3
  <2> HIDE DEF part
  <2> QED BY <1>4, <2>1, CollapsedKeepsLatest
<1> HIDE DEF part
<1>11. PICK u \in Tasks : Begun(u, p) /\ Has(u, page, TRUE, upTo, next, more)
  <2>1. page \in SUBSET Change /\ TRUE \in BOOLEAN
    BY <1>2, <1>3
  <2> QED BY <2>1, ChosenRecord
<1>12. /\ u.rows = page /\ u.snapshot = TRUE /\ u.upTo = upTo /\ u.next = next /\ u.more = more /\ u.since = since
       /\ u.of = task[p].of
  BY <1>11 DEF Begun, Has
<1>13. CutIs(u)
  <2>1. u.snapshot = u.since.snapshot /\ u.snapshot
    BY <1>1, <1>12
  <2>2. u.since # Fresh => u.upTo = u.since.upTo
    BY <1>12 DEF AsOf
  <2>3. ~Before(u.next.at, u.since.at) /\ ~Before(u.upTo, u.next.at)
    BY <1>12
  <2>4. /\ u.next.snapshot => u.next.upTo = u.upTo /\ u.next # Fresh
        /\ u.more <=> u.next.snapshot
        /\ ~u.more => u.next.at = u.upTo
    BY <1>12
  <2> QED BY <2>1, <2>2, <2>3, <2>4 DEF CutIs
<1>14. PageIs(u, log, member)
  <2>1. ASSUME NEW c \in page
        PROVE  /\ c \in log /\ CompanyOf[c.e] \in member /\ Before(since.at, c) /\ ~Before(next.at, c)
               /\ \A x \in log : x.e = c.e /\ Before(c, x) => Before(next.at, x) /\ Before(upTo, x)
    <3>1. c \in Collapsed(part) /\ c \in part /\ Before(since.at, c)
      BY <1>2, <2>1
    <3>2. ASSUME NEW x \in log, x.e = c.e, Before(c, x) PROVE Before(next.at, x) /\ Before(upTo, x)
      <4>1. x \notin part
        BY <1>6, <3>1, <3>2
      <4>2. Before(upTo, x)
        BY <1>5, <1>7, <3>1, <3>2, <4>1
      <4>3. Before(next.at, x)
        BY <1>1, <1>8, <4>2, Order
      <4> QED BY <4>2, <4>3
    <3> QED BY <1>3, <2>1, <3>1, <3>2
  <2> QED BY <1>12, <2>1 DEF PageIs
<1>15. Reached(u, log, ServedRows(p))
  <2> SUFFICES ASSUME NEW e \in ServedRows(p), After(log, since.at, e), ~OnPage(u, e), ~After(log, next.at, e), ~Buried(log, upTo, e)
               PROVE  FALSE
    BY <1>12 DEF Reached
  <2>1. PICK x \in log : x.e = e /\ Before(since.at, x)
    BY DEF After
  <2>2. ~Before(upTo, x)
    <3>1. ~Before(next.at, x)
      BY <2>1 DEF After
    <3> QED BY <1>1, <1>8, <3>1, Order
  <2>3. x \in part
    BY <1>5, <2>1, <2>2
  <2>4. PICK c \in Collapsed(part) : c.e = x.e /\ ~Before(c, x)
    BY <1>10, <2>3
  <2>5. c \in log /\ Placed(c) /\ Placed(x) /\ ~Before(upTo, c)
    BY <1>3, <1>7, <1>8, <2>4
  <2>6. Before(since.at, c)
    BY <1>1, <2>1, <2>4, <2>5, Order
  <2>7. c.op # "delete" /\ ~Before(next.at, c)
    BY <2>1, <2>4, <2>5 DEF Buried, After
  <2>8. c \in page
    BY <1>9, <2>6, <2>7
  <2> QED BY <1>12, <2>1, <2>4, <2>8 DEF OnPage
<1>16. ASSUME u.of # All, u.since = Fresh PROVE Joins(log, u.of, u.upTo, cursor.at)
  <2> SUFFICES ASSUME NEW x \in log, CompanyOf[x.e] = task[p].of, Before(upTo, x) PROVE Before(cursor.at, x)
    BY <1>12 DEF Joins
  <2>1. x \in Served(p)
    BY <1>12, <1>16 DEF Served
  <2>2. ~Settled(x)
    <3>1. CASE {c \in Served(p) : Settled(c)} = {}
      BY <2>1, <3>1
    <3>2. CASE \E c \in log : IsLast(c, {d \in Served(p) : Settled(d)}) /\ upTo = Pos(c)
      <4>1. PICK c \in log : IsLast(c, {d \in Served(p) : Settled(d)}) /\ upTo = Pos(c)
        BY <3>2
      <4>2. upTo.tx = c.tx /\ upTo.n = c.n
        BY <1>8, <4>1 DEF Pos
      <4>3. Before(c, x)
        BY <4>2 DEF Before
      <4> QED BY <2>1, <4>1, <4>3 DEF IsLast
    <3> QED BY <1>12, <1>16, <3>1, <3>2 DEF AsOf
  <2>3. PICK r \in Open : ~(x.tx < tx[r].id)
    BY <2>2 DEF Settled
  <2>4. cursor.at.tx < tx[r].id /\ cursor.at.tx \in Nat /\ tx[r].id \in Nat /\ x.tx \in Nat
    BY <1>8, ServerTypes, FeedTypes DEF IInv, AllBehind, CursorBehind, Behind, Open, Placed
  <2> QED BY <2>3, <2>4 DEF Before
<1> HIDE DEF since
<1> QED BY <1>11, <1>13, <1>14, <1>15, <1>16, AnswerBegins

LEMMA SnapshotKeeps ==
  ASSUME Apart, IInv, FeedInv, NEW p \in Pullers, PullSnapshot(p)
  PROVE  FeedInv'
<1> DEFINE since == task[p].since
<1>1. PICK upTo \in {Start} \cup {Pos(c) : c \in log} :
        /\ AsOf(p, upTo)
        /\ LET found == InSnapshot(p, upTo)
               page == Page(found)
           IN \/ /\ page = found
                 /\ Chosen(p, page, TRUE, upTo, [at |-> upTo, snapshot |-> FALSE, upTo |-> Start], FALSE)
              \/ /\ page # found
                 /\ \E last \in page :
                      /\ IsLast(last, page)
                      /\ Chosen(p, page, TRUE, upTo, [at |-> Pos(last), snapshot |-> TRUE, upTo |-> upTo], TRUE)
  BY DEF PullSnapshot
<1>2. task[p].st = "ask" /\ signedIn /\ since.snapshot /\ since \in Cursor /\ Placed(since.at) /\ CursorIs(since)
  <2>1. task[p].st = "ask" /\ signedIn /\ since.snapshot
    BY DEF PullSnapshot
  <2>2. TaskIs(p, task[p])
    BY DEF FeedInv
  <2> QED BY <2>1, <2>2, FeedTypes DEF TaskIs
<1>3. \A c \in log : Pos(c) \in Position /\ Pos(c).tx = c.tx /\ Pos(c).n = c.n /\ Placed(c) /\ c.tx >= 1 /\ c.tx \in Nat
  <2>1. \A c \in log : c \in Change /\ c.tx >= 1
    BY ServerTypes DEF FeedInv, ServerInv, LogIs
  <2> QED BY <2>1 DEF Pos, Position, Change, Placed
<1>4. upTo \in Position /\ Placed(upTo)
  <2>1. upTo \in Position
    BY <1>3, FreshIs
  <2> QED BY <2>1 DEF Position, Placed
<1>5. ~Before(upTo, since.at)
  <2>1. CASE since = Fresh
    BY <1>4, <2>1, FreshIs DEF Before, Start, Placed
  <2>2. CASE since # Fresh
    BY <1>1, <1>2, <2>2 DEF AsOf, CursorIs
  <2> QED BY <2>1, <2>2
<1> DEFINE found == InSnapshot(p, upTo)
           page == Page(found)
<1>6. \A c \in found : c \in log /\ ~Before(upTo, c) /\ Before(since.at, c)
  BY DEF InSnapshot, Collapsed, Served
<1>7. page \subseteq found
  BY DEF Page
<1>8. IsFiniteSet(found)
  <2>1. IsFiniteSet(log)
    BY DEF FeedInv, ServerInv, LogIs
  <2> HIDE DEF found
  <2> QED BY <1>6, <2>1, FS_Subset
<1> HIDE DEF found
<1>9. CASE page = found /\ Chosen(p, page, TRUE, upTo, [at |-> upTo, snapshot |-> FALSE, upTo |-> Start], FALSE)
  <2> DEFINE next == [at |-> upTo, snapshot |-> FALSE, upTo |-> Start]
  <2>1. next \in Cursor /\ next.at = upTo /\ ~next.snapshot
    BY <1>4, FreshIs DEF Cursor
  <2>2. FALSE \in BOOLEAN
    OBVIOUS
  <2> HIDE DEF next, page
  <2>3. Chosen(p, page, TRUE, upTo, next, FALSE)
    BY <1>9 DEF next
  <2>4. ~Before(upTo, next.at)
    BY <1>4, <2>1, Order
  <2>5. \A c \in page : ~Before(next.at, c)
    BY <1>6, <1>7, <2>1
  <2>6. \A c \in InSnapshot(p, upTo) : ~Before(next.at, c) => c \in page
    BY <1>9 DEF found
  <2>7. page \subseteq InSnapshot(p, upTo)
    BY <1>7 DEF found
  <2>8. ~Before(next.at, task[p].since.at)
    BY <1>5, <2>1
  <2> QED BY <1>1, <1>2, <1>4, <2>1, <2>2, <2>3, <2>4, <2>5, <2>6, <2>7, <2>8, SnapshotAnswer
<1>10. ASSUME NEW last \in page, IsLast(last, page),
              Chosen(p, page, TRUE, upTo, [at |-> Pos(last), snapshot |-> TRUE, upTo |-> upTo], TRUE)
       PROVE  FeedInv'
  <2> DEFINE next == [at |-> Pos(last), snapshot |-> TRUE, upTo |-> upTo]
  <2>0. last \in log /\ ~Before(upTo, last) /\ Before(since.at, last)
    BY <1>6, <1>7
  <2>1. next \in Cursor /\ next.at = Pos(last) /\ next.snapshot /\ next.upTo = upTo /\ next.at.tx = last.tx /\ next.at.n = last.n
    BY <1>3, <1>4, <2>0 DEF Cursor
  <2>2. TRUE \in BOOLEAN
    OBVIOUS
  <2> HIDE DEF next, page
  <2>3. Chosen(p, page, TRUE, upTo, next, TRUE)
    BY <1>10 DEF next
  <2>4. \A c : /\ Before(next.at, c) <=> Before(last, c)
               /\ Before(c, next.at) <=> Before(c, last)
    BY <2>1 DEF Before
  <2>5. ~Before(upTo, next.at)
    BY <2>0, <2>4
  <2>6. \A c \in page : ~Before(next.at, c)
    BY <1>10, <2>4 DEF IsLast
  <2>7. \A c \in InSnapshot(p, upTo) : ~Before(next.at, c) => c \in page
    <3>1. \A c \in found : Placed(c)
      BY <1>3, <1>6
    <3> QED BY <1>8, <2>4, <3>1, PageIsFirst DEF page, found
  <2>8. page \subseteq InSnapshot(p, upTo)
    BY <1>7 DEF found
  <2>9. ~Before(next.at, task[p].since.at)
    BY <1>2, <1>3, <2>0, <2>4, Order
  <2>10. next # Fresh
    BY <1>3, <2>0, <2>1, FreshIs
  <2> QED BY <1>1, <1>2, <1>4, <2>1, <2>2, <2>3, <2>5, <2>6, <2>7, <2>8, <2>9, <2>10, SnapshotAnswer
<1> QED BY <1>1, <1>9, <1>10 DEF page, found

-----------------------------------------------------------------------------
(* A task moves on while the copy stays. *)

LEMMA TaskReplaced ==
  ASSUME IInv, FeedInv, NEW p \in Pullers, NEW u, task' = [task EXCEPT ![p] = u],
         UNCHANGED <<server, member, signedIn, session, cursor, copy, whole, gone, mixed>>,
         TaskIs(p, u),
         p = "reload" => ReloadIs(u) /\ \A e \in Entities : u.held[e] # Absent => CompanyOf[e] \in member,
         p = "sync" => SyncIs(u)
  PROVE  FeedInv'
<1>0. task'[p] = u /\ \A q \in Pullers \ {p} : task'[q] = task[q]
  BY FeedTypes
<1>1. ServerInv' /\ log' = log /\ store' = store
  BY ServerAsIs DEF FeedInv, server
<1>2. \A q \in Pullers : TaskIs(q, task[q])'
  <2>1. \A q \in Pullers : TaskIs(q, task'[q])
    BY <1>0 DEF FeedInv
  <2>2. ASSUME NEW q \in Pullers, NEW v, TaskIs(q, v) PROVE TaskIs(q, v)'
    BY <2>2, TaskAsIs
  <2>3. ASSUME NEW q \in Pullers, NEW v, v = task'[q] PROVE TaskIs(q, task[q])'
    <3>1. TaskIs(q, v)'
      BY <2>1, <2>2, <2>3
    <3> QED BY <2>3, <3>1
  <2> QED BY <2>3
<1>3. ReloadIs(task["reload"])' /\ \A e \in Entities : task'["reload"].held[e] # Absent => CompanyOf[e] \in member
  <2>1. "reload" \in Pullers
    BY DEF Pullers
  <2>2. ReloadIs(task'["reload"])
    BY <1>0, <2>1 DEF FeedInv
  <2>3. \A e \in Entities : task'["reload"].held[e] # Absent => CompanyOf[e] \in member
    BY <1>0, <2>1 DEF FeedInv, DeviceIs
  <2> QED BY <1>1, <2>2, <2>3 DEF ReloadIs
<1>4. SyncIs(task["sync"])'
  <2>1. "sync" \in Pullers
    BY DEF Pullers
  <2>2. SyncIs(task'["sync"])
    BY <1>0, <2>1 DEF FeedInv
  <2> QED BY <1>1, <2>2 DEF SyncIs, InSession
<1>5. DeviceIs'
  BY <1>1, <1>3 DEF FeedInv, DeviceIs, CopyIs
<1> QED BY <1>1, <1>2, <1>3, <1>4, <1>5 DEF FeedInv

LEMMA NothingIs == \A e \in Entities : Nothing[e] = Absent
  BY DEF Nothing

LEMMA Idle ==
  ASSUME IInv, NEW p
  PROVE  TaskIs(p, NoTask) /\ ReloadIs(NoTask) /\ SyncIs(NoTask) /\ NoTask.held = Nothing
<1>1. /\ NoTask.st = "idle" /\ NoTask.of = All /\ NoTask.session = 0 /\ NoTask.covers = {} /\ NoTask.todo = {}
      /\ NoTask.held = Nothing
  BY DEF NoTask
<1>2. 0 <= session
  BY FeedTypes
<1> HIDE DEF NoTask
<1> QED BY <1>1, <1>2 DEF TaskIs, ReloadIs, SyncIs, AnswerIs, Answering, InSession

LEMMA TaskEnds ==
  ASSUME IInv, FeedInv, NEW p \in Pullers, task' = [task EXCEPT ![p] = NoTask],
         UNCHANGED <<server, member, signedIn, session, cursor, copy, whole, gone, mixed>>
  PROVE  FeedInv'
BY Idle, NothingIs, TaskReplaced

LEMMA AnswerRead ==
  ASSUME IInv, FeedInv, NEW p \in Pullers, NEW u, task[p].st = "read", task' = [task EXCEPT ![p] = u],
         UNCHANGED <<server, member, signedIn, session, cursor, copy, whole, gone, mixed>>,
         u.st = "answer", u.of = task[p].of, u.todo = task[p].todo, u.session = task[p].session, u.since = task[p].since,
         u.held = task[p].held, u.covers = task[p].covers, u.snapshot = task[p].snapshot, u.upTo = task[p].upTo,
         CutIs(u), PageIs(u, log, member), Reached(u, log, Minded(p, task[p])), DataIs(u, log, store, Marks(p, u))
  PROVE  FeedInv'
<1> DEFINE t == task[p]
<1>1. TaskIs(p, t)
  BY DEF FeedInv
<1>2. Minded(p, u) = Minded(p, t) /\ (InSession(u) <=> InSession(t)) /\ Of(u) = Of(t)
  BY DEF Minded, InSession, Of
<1>3. (Taking(u) <=> Taking(t)) /\ UpTo(u) = UpTo(t)
  BY DEF Taking, UpTo
<1>4. TaskIs(p, u)
  BY <1>1, <1>2 DEF TaskIs, AnswerIs, Answering
<1>5. p = "reload" => ReloadIs(u) /\ \A e \in Entities : u.held[e] # Absent => CompanyOf[e] \in member
  BY <1>3 DEF FeedInv, DeviceIs, ReloadIs
<1>6. p = "sync" => SyncIs(u)
  BY <1>2, <1>3 DEF FeedInv, SyncIs
<1> QED BY <1>4, <1>5, <1>6, TaskReplaced

LEMMA DataRead ==
  ASSUME NEW u, u.data = DataOf(u.rows), NEW marks
  PROVE  DataIs(u, log, store, marks)
BY DEF DataIs, DataOf, OnPage

LEMMA ReadKeeps ==
  ASSUME IInv, FeedInv, NEW p \in Pullers, ReadEntities(p)
  PROVE  FeedInv'
<1> DEFINE u == [task[p] EXCEPT !.st = "answer", !.data = DataOf(task[p].rows)]
           t == task[p]
<1>1. task[p] \in Tasks /\ task[p].st = "read"
  BY FeedTypes DEF ReadEntities
<1>2. /\ u.st = "answer" /\ u.of = t.of /\ u.todo = t.todo /\ u.session = t.session /\ u.since = t.since
      /\ u.held = t.held /\ u.covers = t.covers /\ u.snapshot = t.snapshot /\ u.upTo = t.upTo
      /\ u.next = t.next /\ u.more = t.more /\ u.rows = t.rows /\ u.data = DataOf(t.rows)
  BY <1>1 DEF Tasks
<1>3. task' = [task EXCEPT ![p] = u] /\ UNCHANGED <<server, member, signedIn, session, cursor, copy, whole, gone, mixed>>
  BY DEF ReadEntities
<1> HIDE DEF u
<1>4. CutIs(t) /\ PageIs(t, log, member) /\ Reached(t, log, Minded(p, t))
  BY <1>1 DEF FeedInv, TaskIs, AnswerIs, Answering
<1>5. CutIs(u) /\ PageIs(u, log, member) /\ Reached(u, log, Minded(p, t))
  BY <1>2, <1>4 DEF CutIs, PageIs, Reached, OnPage
<1>6. DataIs(u, log, store, Marks(p, u))
  BY <1>2, DataRead
<1> HIDE DEF t
<1> QED BY <1>1, <1>2, <1>3, <1>5, <1>6, AnswerRead DEF t

LEMMA ReadFailsKeeps ==
  ASSUME IInv, FeedInv, NEW p \in Pullers, NEW bad \in task[p].rows, ReadFails(p, bad)
  PROVE  FeedInv'
<1> DEFINE rows == {c \in task[p].rows : Before(c, bad)}
           t == task[p]
<1>1. /\ task[p] \in Tasks /\ task[p].st = "read"
      /\ UNCHANGED <<server, member, signedIn, session, cursor, copy, whole, gone, mixed>>
  BY FeedTypes DEF ReadFails
<1>2. CASE task' = [task EXCEPT ![p] = NoTask]
  BY <1>1, <1>2, TaskEnds
<1>3. ASSUME NEW last \in rows, IsLast(last, rows),
             task' = [task EXCEPT ![p] = [@ EXCEPT !.st = "answer", !.rows = rows, !.data = DataOf(rows), !.more = TRUE,
                        !.next = [at |-> Pos(last), snapshot |-> task[p].snapshot, upTo |-> task[p].upTo]]]
      PROVE  FeedInv'
  <2> DEFINE next == [at |-> Pos(last), snapshot |-> t.snapshot, upTo |-> t.upTo]
             u == [t EXCEPT !.st = "answer", !.rows = rows, !.data = DataOf(rows), !.more = TRUE, !.next = next]
  <2>1. task' = [task EXCEPT ![p] = u]
    BY <1>3
  <2>2. /\ u.st = "answer" /\ u.of = t.of /\ u.todo = t.todo /\ u.session = t.session /\ u.since = t.since
        /\ u.held = t.held /\ u.covers = t.covers /\ u.snapshot = t.snapshot /\ u.upTo = t.upTo
        /\ u.rows = rows /\ u.data = DataOf(rows) /\ u.next = next
    BY <1>1 DEF Tasks
  <2>3. u.more = TRUE
    BY <1>1 DEF Tasks
  <2>4. last \in t.rows /\ last \in Change /\ bad \in Change /\ Before(last, bad) /\ t.rows \subseteq Change
    BY FeedTypes
  <2>5. next.at = Pos(last) /\ next.snapshot = t.snapshot /\ next.upTo = t.upTo
    OBVIOUS
  <2> HIDE DEF u, next
  <2>6. CutIs(t) /\ PageIs(t, log, member) /\ Reached(t, log, Minded(p, t))
    BY <1>1 DEF FeedInv, TaskIs, AnswerIs, Answering
  <2>7. /\ Placed(last) /\ Placed(bad) /\ Placed(t.next.at) /\ Placed(t.upTo) /\ Placed(t.since.at) /\ Placed(next.at)
        /\ \A c \in t.rows : Placed(c)
        /\ \A c \in log : Placed(c)
    <3>1. Placed(last) /\ Placed(bad) /\ \A c \in t.rows : Placed(c)
      BY <2>4, FeedTypes
    <3>2. Placed(t.next.at) /\ Placed(t.upTo) /\ Placed(t.since.at)
      BY FeedTypes
    <3> QED BY <2>5, <3>1, <3>2, ServerTypes DEF Placed, Pos
  <2>8. \A c : /\ Before(next.at, c) <=> Before(last, c)
               /\ Before(c, next.at) <=> Before(c, last)
    BY <2>5 DEF Before, Pos
  <2>9. last \in log /\ Before(t.since.at, last) /\ ~Before(t.next.at, last)
    BY <2>4, <2>6 DEF PageIs
  <2>10. last.tx >= 1
    BY <2>9 DEF FeedInv, ServerInv, LogIs
  <2>11. next # Fresh
    BY <2>5, <2>7, <2>10, FreshIs DEF Pos, Placed
  <2>12. CutIs(u)
    <3>1. ~Before(next.at, t.since.at)
      BY <2>7, <2>8, <2>9, Order
    <3>2. t.snapshot => ~Before(t.upTo, next.at)
      <4>1. t.snapshot => ~Before(t.upTo, t.next.at)
        BY <2>6 DEF CutIs
      <4> QED BY <2>7, <2>8, <2>9, <4>1, Order
    <3>3. t.snapshot = t.since.snapshot /\ (t.snapshot /\ t.since # Fresh => t.upTo = t.since.upTo)
      BY <2>6 DEF CutIs
    <3> QED BY <2>2, <2>3, <2>5, <2>11, <3>1, <3>2, <3>3 DEF CutIs
  <2>13. PageIs(u, log, member)
    <3>1. ASSUME NEW c \in rows
          PROVE  /\ c \in log /\ CompanyOf[c.e] \in member /\ Before(t.since.at, c) /\ ~Before(next.at, c)
                 /\ \A x \in log : x.e = c.e /\ Before(c, x) => Before(next.at, x) /\ Before(t.upTo, x)
      <4>1. /\ c \in t.rows /\ c \in log /\ CompanyOf[c.e] \in member /\ Before(t.since.at, c)
            /\ \A x \in log : x.e = c.e /\ Before(c, x) => Before(t.next.at, x) /\ Before(t.upTo, x)
        BY <2>6 DEF PageIs
      <4>2. ~Before(next.at, c)
        BY <1>3, <2>8 DEF IsLast
      <4>3. \A x \in log : Before(t.next.at, x) => Before(next.at, x)
        BY <2>7, <2>8, <2>9, Order
      <4> QED BY <4>1, <4>2, <4>3
    <3> HIDE DEF rows
    <3> QED BY <2>2, <3>1 DEF PageIs
  <2>14. Reached(u, log, Minded(p, t))
    <3>1. ASSUME NEW e \in Minded(p, t), After(log, t.since.at, e), \A c \in rows : c.e # e
          PROVE  After(log, next.at, e) \/ (t.snapshot /\ Buried(log, t.upTo, e))
      <4>1. CASE OnPage(t, e)
        <5>1. PICK c \in t.rows : c.e = e /\ ~Before(c, bad)
          BY <3>1, <4>1 DEF OnPage
        <5>2. c \in log /\ Before(last, c)
          BY <2>4, <2>6, <2>7, <5>1, Order DEF PageIs
        <5> QED BY <2>8, <5>1, <5>2 DEF After
      <4>2. CASE ~OnPage(t, e)
        <5>1. After(log, t.next.at, e) \/ (t.snapshot /\ Buried(log, t.upTo, e))
          BY <2>6, <3>1, <4>2 DEF Reached
        <5>2. \A x \in log : Before(t.next.at, x) => Before(next.at, x)
          BY <2>7, <2>8, <2>9, Order
        <5> QED BY <5>1, <5>2 DEF After
      <4> QED BY <4>1, <4>2
    <3> HIDE DEF rows
    <3> QED BY <2>2, <3>1 DEF Reached, OnPage
  <2>15. DataIs(u, log, store, Marks(p, u))
    <3> HIDE DEF rows
    <3> QED BY <2>2, DataRead
  <2> HIDE DEF rows
  <2>16. task[p] = t
    OBVIOUS
  <2> HIDE DEF t
  <2> QED BY <1>1, <2>1, <2>2, <2>12, <2>13, <2>14, <2>15, <2>16, AnswerRead
<1> QED BY <1>2, <1>3 DEF ReadFails

-----------------------------------------------------------------------------
(* An answer is applied *)

LEMMA AppliedCases ==
  ASSUME NEW lg, lg \subseteq Change, NEW st, LogIs(lg, st), NEW t, NEW mb, PageIs(t, lg, mb), NEW marks, DataIs(t, lg, st, marks),
         NEW have, NEW e \in Entities, NEW h, h = Applied(have, t)[e]
  PROVE  \/ h = Absent /\ st[e] = Absent
         \/ h # Absent /\ OnPage(t, e) /\ (h = st[e] \/ \E c \in lg : c.e = e /\ \A m \in marks : Before(m, c))
         \/ /\ h = have[e] /\ OnPage(t, e) /\ st[e] = Absent
            /\ \E c \in t.rows : c.e = e /\ c.op # "delete"
         \/ h = have[e] /\ ~OnPage(t, e)
<1>1. h = IF \E c \in t.rows : c.e = e /\ c.op = "delete" THEN Absent
          ELSE IF t.data[e] # Absent THEN t.data[e] ELSE have[e]
  BY DEF Applied
<1>2. CASE \E c \in t.rows : c.e = e /\ c.op = "delete"
  BY <1>1, <1>2 DEF PageIs, LogIs
<1>3. CASE (\A c \in t.rows : c.e = e => c.op # "delete") /\ t.data[e] # Absent
  BY <1>1, <1>3 DEF DataIs
<1>4. CASE (\A c \in t.rows : c.e = e => c.op # "delete") /\ t.data[e] = Absent
  <2>1. h = have[e]
    BY <1>1, <1>4
  <2>2. CASE OnPage(t, e)
    <3>1. PICK c \in t.rows : c.e = e /\ c.op # "delete"
      BY <1>4, <2>2 DEF OnPage
    <3>2. c.op = "upsert"
      BY <3>1 DEF PageIs, Change
    <3>3. st[e] = Absent
      BY <1>4, <3>1, <3>2 DEF DataIs
    <3> QED BY <2>1, <2>2, <3>1, <3>3
  <2> QED BY <2>1, <2>2
<1> QED BY <1>2, <1>3, <1>4

(* What the log says of a row that is gone: its last change is the delete. *)
LEMMA GoneIs ==
  ASSUME NEW lg, NEW st, LogIs(lg, st), NEW e \in Entities, NEW upTo, Buried(lg, upTo, e), \A c \in lg : Placed(c), Placed(upTo)
  PROVE  st[e] = Absent /\ \A c \in lg : c.e = e => ~Before(upTo, c)
<1>1. PICK x \in lg : x.e = e /\ x.op = "delete" /\ ~Before(upTo, x)
  BY DEF Buried
<1>2. \A c \in lg : c.e = e => c = x \/ Before(c, x)
  BY <1>1 DEF LogIs
<1> QED BY <1>1, <1>2, Order DEF LogIs

LEMMA AppliedSpares ==
  ASSUME NEW lg, lg \subseteq Change, NEW st, LogIs(lg, st), NEW t, NEW mb, PageIs(t, lg, mb), NEW marks, DataIs(t, lg, st, marks),
         NEW have, NEW upTo \in marks, NEW but, Spares(have, lg, upTo, but), \A c \in lg : Placed(c), Placed(upTo)
  PROVE  Spares(Applied(have, t), lg, upTo, but)
<1> SUFFICES ASSUME NEW e \in Entities, Buried(lg, upTo, e) PROVE Applied(have, t)[e] = Absent \/ e \in but
  BY DEF Spares
<1>1. st[e] = Absent /\ \A c \in lg : c.e = e => ~Before(upTo, c)
  BY GoneIs
<1>2. have[e] = Absent \/ e \in but
  BY DEF Spares
<1>3. PICK h : h = Applied(have, t)[e]
  OBVIOUS
<1> QED BY <1>1, <1>2, <1>3, AppliedCases

(* At the cursor the answer gives *)
LEMMA AppliedFollows ==
  ASSUME NEW lg, lg \subseteq Change, NEW st, LogIs(lg, st), NEW t, NEW mb, PageIs(t, lg, mb), NEW marks, DataIs(t, lg, st, marks),
         NEW have, t.next.at \in marks, NEW S, Reached(t, lg, S), NEW C, \A e \in Entities : CompanyOf[e] \in C => e \in S,
         Follows(have, lg, st, t.since.at, C)
  PROVE  Follows(Applied(have, t), lg, st, t.next.at, C)
<1> SUFFICES ASSUME NEW e \in Entities, CompanyOf[e] \in C, Applied(have, t)[e] # st[e], st[e] # Absent
             PROVE  After(lg, t.next.at, e)
  BY DEF Follows
<1>1. PICK h : h = Applied(have, t)[e]
  OBVIOUS
<1>2. \/ \E c \in lg : c.e = e /\ \A m \in marks : Before(m, c)
      \/ h = have[e] /\ ~OnPage(t, e)
  BY <1>1, AppliedCases
<1>3. CASE \E c \in lg : c.e = e /\ \A m \in marks : Before(m, c)
  BY <1>3 DEF After
<1>4. CASE h = have[e] /\ ~OnPage(t, e)
  <2>1. After(lg, t.since.at, e)
    BY <1>1, <1>4 DEF Follows
  <2>2. After(lg, t.next.at, e) \/ Buried(lg, t.upTo, e)
    BY <1>4, <2>1 DEF Reached
  <2>3. ~Buried(lg, t.upTo, e)
    BY DEF Buried, LogIs
  <2> QED BY <2>2, <2>3
<1> QED BY <1>2, <1>3, <1>4

LEMMA AppliedBuries ==
  ASSUME NEW lg, lg \subseteq Change, NEW st, LogIs(lg, st), NEW t, NEW mb, PageIs(t, lg, mb), NEW marks, DataIs(t, lg, st, marks),
         NEW have, t.next.at \in marks, NEW S, Reached(t, lg, S), \A e \in Entities : have[e] # Absent => e \in S,
         NEW but, Buries(have, lg, st, t.since.at, but), t.snapshot => Spares(have, lg, t.upTo, but)
  PROVE  Buries(Applied(have, t), lg, st, t.next.at, but)
<1> SUFFICES ASSUME NEW e \in Entities, Applied(have, t)[e] # Absent, st[e] = Absent
             PROVE  After(lg, t.next.at, e) \/ e \in but
  BY DEF Buries
<1>1. PICK h : h = Applied(have, t)[e]
  OBVIOUS
<1>2. \/ \E c \in lg : c.e = e /\ \A m \in marks : Before(m, c)
      \/ h = have[e] /\ \E c \in t.rows : c.e = e /\ c.op # "delete"
      \/ h = have[e] /\ ~OnPage(t, e)
  BY <1>1, AppliedCases
<1>3. CASE \E c \in lg : c.e = e /\ \A m \in marks : Before(m, c)
  BY <1>3 DEF After
<1>4. ASSUME NEW c \in t.rows, c.e = e, c.op # "delete" PROVE After(lg, t.next.at, e)
  <2>1. c \in lg /\ \A x \in lg : x.e = c.e /\ Before(c, x) => Before(t.next.at, x)
    BY DEF PageIs
  <2>2. PICK x \in lg : x.e = e /\ x.op = "delete"
    BY <1>4, <2>1 DEF LogIs
  <2>3. Before(c, x)
    BY <1>4, <2>1, <2>2 DEF LogIs
  <2> QED BY <1>4, <2>1, <2>2, <2>3 DEF After
<1>5. CASE h = have[e] /\ ~OnPage(t, e)
  <2>1. After(lg, t.since.at, e) \/ e \in but
    BY <1>1, <1>5 DEF Buries
  <2>2. After(lg, t.since.at, e) => After(lg, t.next.at, e) \/ (t.snapshot /\ Buried(lg, t.upTo, e))
    BY <1>1, <1>5 DEF Reached
  <2>3. t.snapshot /\ Buried(lg, t.upTo, e) => e \in but
    BY <1>1, <1>5 DEF Spares
  <2> QED BY <2>1, <2>2, <2>3
<1> QED BY <1>2, <1>3, <1>4, <1>5

(* At a cursor that stays where it is *)
LEMMA AppliedAside ==
  ASSUME NEW lg, lg \subseteq Change, NEW st, LogIs(lg, st), NEW t, NEW mb, PageIs(t, lg, mb), NEW marks, DataIs(t, lg, st, marks),
         NEW have, NEW at \in marks, NEW C, NEW but
  PROVE  /\ Follows(have, lg, st, at, C) => Follows(Applied(have, t), lg, st, at, C)
         /\ Buries(have, lg, st, at, but) => Buries(Applied(have, t), lg, st, at, but)
<1>1. ASSUME NEW e \in Entities
      PROVE  \/ Applied(have, t)[e] = st[e]
             \/ Applied(have, t)[e] = have[e]
             \/ \E c \in lg : c.e = e /\ \A m \in marks : Before(m, c)
  <2>1. PICK h : h = Applied(have, t)[e]
    OBVIOUS
  <2> QED BY <2>1, AppliedCases
<1>2. \A e : (\E c \in lg : c.e = e /\ \A m \in marks : Before(m, c)) => After(lg, at, e)
  BY DEF After
<1> QED BY <1>1, <1>2 DEF Follows, Buries

LEMMA AppliedOf ==
  ASSUME NEW lg, lg \subseteq Change, NEW st, LogIs(lg, st), NEW t, NEW mb, PageIs(t, lg, mb), NEW marks, DataIs(t, lg, st, marks),
         NEW have, \A e \in Entities : have[e] # Absent => CompanyOf[e] \in mb
  PROVE  \A e \in Entities : Applied(have, t)[e] # Absent => CompanyOf[e] \in mb
<1> SUFFICES ASSUME NEW e \in Entities, Applied(have, t)[e] # Absent PROVE CompanyOf[e] \in mb
  OBVIOUS
<1>1. PICK h : h = Applied(have, t)[e]
  OBVIOUS
<1>2. OnPage(t, e) => CompanyOf[e] \in mb
  BY DEF OnPage, PageIs
<1>3. h = Absent \/ OnPage(t, e) \/ h = have[e]
  BY <1>1, AppliedCases
<1> QED BY <1>1, <1>2, <1>3

(* A task that stays, on a copy that does not: what it must leave out nothing of has not grown. *)
LEMMA TaskStays ==
  ASSUME IInv, ServerInv, NEW p \in Pullers, NEW t, TaskIs(p, t), UNCHANGED server, member \subseteq member', session \in Nat,
         session' \in {session, session + 1}, InSession(t)' => signedIn', t.session \in Nat,
         Minded(p, t)' \subseteq Minded(p, t),
         t.st = "answer" => \A m \in Marks(p, t)' : m = Start \/ m \in Marks(p, t)
  PROVE  TaskIs(p, t)'
<1>1. log' = log /\ store' = store
  BY DEF server
<1>2. PageIs(t, log, member) => PageIs(t, log, member')
  BY DEF PageIs
<1>3. Reached(t, log, Minded(p, t)) => Reached(t, log, Minded(p, t)')
  BY DEF Reached
<1>4. \A c \in log : Before(Start, c)
  BY ServerTypes, FreshIs DEF ServerInv, LogIs, Before
<1>5. ASSUME t.st = "answer" PROVE DataIs(t, log, store, Marks(p, t)')
  <2>1. DataIs(t, log, store, Marks(p, t))
    BY <1>5 DEF TaskIs, AnswerIs
  <2>2. \A m \in Marks(p, t)' : m = Start \/ m \in Marks(p, t)
    BY <1>5
  <2>3. \A c \in log : (\A m \in Marks(p, t) : Before(m, c)) => \A m \in Marks(p, t)' : Before(m, c)
    BY <1>4, <2>2
  <2> QED BY <2>1, <2>3 DEF DataIs
<1>6. AnswerIs(p, t)'
  BY <1>1, <1>2, <1>3, <1>5 DEF TaskIs, AnswerIs, Answering
<1> QED BY <1>6 DEF TaskIs

LEMMA IdleNext ==
  ASSUME session' \in Nat, NEW p
  PROVE  TaskIs(p, NoTask)' /\ ReloadIs(NoTask)' /\ SyncIs(NoTask)' /\ NoTask.held = Nothing
<1>1. /\ NoTask.st = "idle" /\ NoTask.of = All /\ NoTask.session = 0 /\ NoTask.covers = {} /\ NoTask.todo = {}
      /\ NoTask.held = Nothing
  BY DEF NoTask
<1>2. 0 <= session'
  OBVIOUS
<1>3. TaskIs(p, NoTask)'
  BY <1>1, <1>2 DEF TaskIs, AnswerIs, Answering, InSession
<1>4. ReloadIs(NoTask)' /\ SyncIs(NoTask)'
  BY <1>1 DEF ReloadIs, SyncIs, InSession
<1> QED BY <1>1, <1>3, <1>4

LEMMA AnswerFacts ==
  ASSUME IInv, FeedInv, NEW p \in Pullers, task[p].st = "answer"
  PROVE  /\ TaskIs(p, task[p]) /\ CutIs(task[p]) /\ PageIs(task[p], log, member) /\ Reached(task[p], log, Minded(p, task[p]))
         /\ DataIs(task[p], log, store, Marks(p, task[p]))
         /\ LogIs(log, store) /\ log \subseteq Change /\ (\A c \in log : Placed(c))
         /\ Placed(task[p].upTo) /\ Placed(cursor.upTo)
         /\ task[p].next.at \in Marks(p, task[p]) /\ task[p].upTo \in Marks(p, task[p])
         /\ p = "sync" /\ ~mixed => cursor.at \in Marks(p, task[p]) /\ cursor.upTo \in Marks(p, task[p])
         /\ CursorIs(task[p].next)
         /\ Taking(task[p]) <=> task[p].snapshot
         /\ UpTo(task[p]) = task[p].upTo
<1>1. /\ TaskIs(p, task[p]) /\ CutIs(task[p]) /\ PageIs(task[p], log, member) /\ Reached(task[p], log, Minded(p, task[p]))
      /\ DataIs(task[p], log, store, Marks(p, task[p]))
  BY DEF FeedInv, TaskIs, AnswerIs, Answering
<1>2. LogIs(log, store) /\ log \subseteq Change /\ \A c \in log : Placed(c)
  BY ServerTypes DEF FeedInv, ServerInv, Placed
<1>3. CursorIs(task[p].next)
  BY <1>1 DEF CutIs, CursorIs
<1>4. Placed(task[p].upTo) /\ Placed(cursor.upTo)
  BY FeedTypes
<1> QED BY <1>1, <1>2, <1>3, <1>4 DEF Marks, Taking, UpTo

(* The copy with an answer to another question than the cursor's, or with one whose cursor was not stored *)
LEMMA CopyAside ==
  ASSUME IInv, FeedInv, task["sync"].st = "answer", ~mixed, NEW have, have = Applied(copy, task["sync"])
  PROVE  /\ Follows(have, log, store, cursor.at, whole)
         /\ Buries(have, log, store, cursor.at, gone)
         /\ Mid(cursor) => Spares(have, log, cursor.upTo, gone)
<1> DEFINE t == task["sync"]
           marks == Marks("sync", t)
<1>1. "sync" \in Pullers
  BY DEF Pullers
<1>2. /\ PageIs(t, log, member) /\ DataIs(t, log, store, marks) /\ LogIs(log, store) /\ log \subseteq Change
      /\ (\A c \in log : Placed(c)) /\ Placed(cursor.upTo) /\ cursor.at \in marks /\ cursor.upTo \in marks
  BY <1>1, AnswerFacts
<1>3. CopyIs
  BY DEF FeedInv, DeviceIs
<1> HIDE DEF t, marks
<1>4. have = Applied(copy, t)
  BY DEF t
<1>5. Follows(have, log, store, cursor.at, whole) /\ Buries(have, log, store, cursor.at, gone)
  BY <1>2, <1>3, <1>4, AppliedAside DEF CopyIs
<1>6. Mid(cursor) => Spares(have, log, cursor.upTo, gone)
  BY <1>2, <1>3, <1>4, AppliedSpares DEF CopyIs
<1> QED BY <1>5, <1>6

LEMMA CopyOfMembers ==
  ASSUME IInv, FeedInv, task["sync"].st = "answer"
  PROVE  \A e \in Entities : Applied(copy, task["sync"])[e] # Absent => CompanyOf[e] \in member
<1>1. "sync" \in Pullers
  BY DEF Pullers
<1>2. \A e \in Entities : copy[e] # Absent => CompanyOf[e] \in member
  BY DEF FeedInv, DeviceIs
<1>3. PICK marks : marks = Marks("sync", task["sync"])
  OBVIOUS
<1>4. /\ PageIs(task["sync"], log, member) /\ DataIs(task["sync"], log, store, marks)
      /\ LogIs(log, store) /\ log \subseteq Change
  BY <1>1, <1>3, AnswerFacts
<1> QED BY <1>2, <1>4, AppliedOf

(* The next question of a sync run: the history of a business it does not know, or what follows the cursor *)
LEMMA GoesOn ==
  ASSUME Apart, IInv, ServerInv, NEW todo, todo \subseteq member, NEW u, u = GoOn([NoTask EXCEPT !.session = session], todo), NEW have
  PROVE  /\ u.st = "ask" /\ u.session = session /\ u.covers = {} /\ u.todo \subseteq member /\ u.held = Nothing
         /\ \/ u.of = All /\ u.since = cursor
            \/ u.of # All /\ u.of \in member /\ u.since = Fresh
         /\ Follows(have, log, store, u.since.at, Of(u))
<1>1. \/ u.of = All /\ u.since = cursor /\ u.todo = {}
      \/ u.of \in todo /\ u.since = Fresh /\ u.todo \subseteq todo
  BY DEF GoOn, NoTask, Onward
<1>2. u.st = "ask" /\ u.session = session /\ u.covers = {} /\ u.held = Nothing
  BY DEF GoOn, NoTask
<1>3. u.of \in todo => u.of \in member /\ u.of # All
  <2>1. member \subseteq Companies
    BY DEF IInv, TypeOK
  <2> QED BY <2>1 DEF Apart
<1>4. Follows(have, log, store, u.since.at, Of(u))
  <2>1. CASE u.of = All
    BY <1>2, <2>1 DEF Follows, Of
  <2>2. CASE u.since = Fresh
    BY <2>2, EverythingToCome, FreshIs DEF Follows
  <2> QED BY <1>1, <2>1, <2>2
<1> QED BY <1>1, <1>2, <1>3, <1>4

(* What a step of the run does, put together *)
LEMMA DeviceMoves ==
  ASSUME FeedInv, UNCHANGED server, NEW u, NEW v, task'["sync"] = u, task'["reload"] = v,
         TaskIs("sync", u)', TaskIs("reload", v)', ReloadIs(v)', SyncIs(u)', DeviceIs'
  PROVE  FeedInv'
<1>1. ServerInv'
  BY ServerAsIs DEF FeedInv
<1>2. \A p \in Pullers : TaskIs(p, task[p])'
  BY DEF Pullers
<1>3. ReloadIs(task["reload"])' /\ SyncIs(task["sync"])'
  OBVIOUS
<1> QED BY <1>1, <1>2, <1>3 DEF FeedInv

(* A reload under way does not mind what the run does. *)
LEMMA ReloadStays ==
  ASSUME IInv, FeedInv, UNCHANGED server, member \subseteq member', session' \in {session, session + 1},
         NEW v, v = task["reload"], InSession(v)' => signedIn'
  PROVE  TaskIs("reload", v)' /\ ReloadIs(v)'
<1>1. "reload" \in Pullers /\ log' = log /\ store' = store
  BY DEF Pullers, server
<1>2. TaskIs("reload", v) /\ ReloadIs(v)
  BY <1>1 DEF FeedInv
<1>3. v.session \in Nat /\ session \in Nat
  BY <1>1, FeedTypes
<1>4. Minded("reload", v)' \subseteq Minded("reload", v)
  BY DEF Minded, Of
<1>5. Marks("reload", v)' = Marks("reload", v)
  BY DEF Marks
<1>6. TaskIs("reload", v)'
  BY <1>1, <1>2, <1>3, <1>4, <1>5, TaskStays DEF FeedInv
<1>7. ReloadIs(v)'
  BY <1>1, <1>2 DEF ReloadIs
<1> QED BY <1>6, <1>7

(* A run that asks on: its question is of its own session. *)
LEMMA AsksOn ==
  ASSUME session' \in Nat, NEW u, u.st = "ask", u.session = session', u.covers \subseteq member', u.todo \subseteq member',
         u.of # All => u.of \in member' /\ u.since.snapshot, CursorIs(u.since), signedIn'
  PROVE  TaskIs("sync", u)'
BY DEF TaskIs, AnswerIs, Answering, InSession, CursorIs

LEMMA CompanyPageKeeps ==
  ASSUME Apart, IInv, FeedInv, ApplyCompanyPage
  PROVE  FeedInv'
<1>0. PICK t : t = task["sync"]
  OBVIOUS
<1>1. PICK v : v = task["reload"]
  OBVIOUS
<1>2. PICK marks : marks = Marks("sync", t)
  OBVIOUS
<1>3. /\ t.st = "answer" /\ t.of # All /\ t.session = session /\ copy' = Applied(copy, t)
      /\ UNCHANGED <<server, member, signedIn, session, cursor, gone, mixed>> /\ UNCHANGED server
      /\ log' = log /\ store' = store
  BY <1>0 DEF ApplyCompanyPage, OfThisSession, server
<1>4. "sync" \in Pullers /\ "reload" \in Pullers /\ t \in Tasks /\ session \in Nat /\ task \in [Pullers -> Tasks]
  BY <1>0, FeedTypes DEF Pullers
<1>5. /\ TaskIs("sync", t) /\ CutIs(t) /\ PageIs(t, log, member) /\ Reached(t, log, Minded("sync", t))
      /\ DataIs(t, log, store, marks)
      /\ LogIs(log, store) /\ log \subseteq Change /\ (\A c \in log : Placed(c)) /\ Placed(t.upTo)
      /\ t.next.at \in marks /\ CursorIs(t.next) /\ UpTo(t) = t.upTo /\ (Taking(t) <=> t.snapshot)
  BY <1>0, <1>2, <1>3, <1>4, AnswerFacts
<1>6. signedIn /\ t.since.snapshot /\ t.snapshot /\ t.of \in member /\ t.todo \subseteq member /\ t.covers \subseteq member
  BY <1>3, <1>5 DEF TaskIs, InSession, CutIs
<1>7. SyncIs(t) /\ InSession(t)
  BY <1>0, <1>3 DEF FeedInv, InSession
<1>8. TaskIs("reload", v)' /\ ReloadIs(v)'
  <2>1. InSession(v)' => signedIn'
    BY <1>3, <1>6
  <2> QED BY <1>1, <1>3, <1>4, <2>1, ReloadStays
<1>9. ~mixed => /\ Follows(copy', log, store, cursor.at, whole)
                /\ Buries(copy', log, store, cursor.at, gone)
                /\ Mid(cursor) => Spares(copy', log, cursor.upTo, gone)
                /\ Follows(copy', log, store, t.next.at, {t.of})
  <2>1. SUFFICES ASSUME ~mixed PROVE Follows(copy', log, store, t.next.at, {t.of})
    BY <1>0, <1>3, CopyAside
  <2>2. Follows(copy, log, store, t.since.at, {t.of})
    BY <1>3, <1>7, <2>1 DEF SyncIs, Of
  <2>3. \A e \in Entities : CompanyOf[e] \in {t.of} => e \in Minded("sync", t)
    BY <1>3 DEF Minded, Of
  <2>4. Follows(Applied(copy, t), log, store, t.next.at, {t.of})
    BY <1>5, <2>2, <2>3, AppliedFollows
  <2> QED BY <1>3, <2>4
<1>10. \A e \in Entities : copy'[e] # Absent => CompanyOf[e] \in member
  BY <1>0, <1>3, CopyOfMembers
<1>11. task'["reload"] = v => \A e \in Entities : task'["reload"].held[e] # Absent => CompanyOf[e] \in member
  BY <1>1 DEF FeedInv, DeviceIs
<1>12. CASE t.more
  <2>1. PICK u : u = [t EXCEPT !.st = "ask", !.since = t.next]
    OBVIOUS
  <2>2. task' = [task EXCEPT !["sync"] = u] /\ whole' = whole
    BY <1>0, <1>12, <2>1 DEF ApplyCompanyPage
  <2>3. task'["sync"] = u /\ task'["reload"] = v
    BY <1>1, <1>4, <2>2
  <2>4. /\ u.st = "ask" /\ u.since = t.next /\ u.of = t.of /\ u.session = session /\ u.covers = t.covers /\ u.todo = t.todo
    BY <1>3, <1>4, <2>1 DEF Tasks
  <2>5. t.next.snapshot /\ t.next.upTo = t.upTo
    BY <1>5, <1>6, <1>12 DEF CutIs
  <2>6. TaskIs("sync", u)'
    BY <1>3, <1>4, <1>5, <1>6, <2>4, <2>5, AsksOn
  <2>7. SyncIs(u)'
    <3> SUFFICES ASSUME ~mixed
                 PROVE  Follows(copy', log, store, t.next.at, {t.of}) /\ Joins(log, t.of, t.next.upTo, cursor.at)
      BY <1>3, <2>4 DEF SyncIs, Of, UpTo
    <3> QED BY <1>3, <1>5, <1>6, <1>7, <1>9, <2>5 DEF SyncIs
  <2>8. DeviceIs'
    BY <1>3, <1>6, <1>9, <1>10, <1>11, <2>2, <2>3 DEF FeedInv, DeviceIs, CopyIs
  <2> QED BY <1>3, <1>8, <2>3, <2>6, <2>7, <2>8, DeviceMoves
<1>13. CASE ~t.more
  <2>1. PICK u : u = GoOn([NoTask EXCEPT !.session = session], t.todo)
    OBVIOUS
  <2>2. task' = [task EXCEPT !["sync"] = u] /\ whole' = whole \cup {t.of}
    BY <1>0, <1>13, <2>1 DEF ApplyCompanyPage
  <2>3. task'["sync"] = u /\ task'["reload"] = v
    BY <1>1, <1>4, <2>2
  <2>4. /\ u.st = "ask" /\ u.session = session /\ u.covers = {} /\ u.todo \subseteq member
        /\ \/ u.of = All /\ u.since = cursor
           \/ u.of # All /\ u.of \in member /\ u.since = Fresh
        /\ Follows(copy', log, store, u.since.at, Of(u))
    BY <1>6, <2>1, GoesOn DEF FeedInv
  <2>5. CursorIs(cursor) /\ CursorIs(Fresh) /\ Fresh.snapshot
    BY FreshIs DEF FeedInv, DeviceIs, CursorIs, Before, Placed
  <2>6. TaskIs("sync", u)'
    BY <1>3, <1>4, <1>6, <2>4, <2>5, AsksOn
  <2>7. SyncIs(u)'
    <3> SUFFICES ASSUME ~mixed
                 PROVE  /\ u.of = All => u.since = cursor
                        /\ u.of = All /\ Mid(u.since) => Spares(copy', log, u.since.upTo, gone)
                        /\ u.of # All => ~Mid(u.since)
      BY <1>3, <2>4 DEF SyncIs, Of, UpTo, Taking
    <3> QED BY <1>9, <2>4 DEF Mid
  <2>8. ~mixed => Follows(copy', log, store, cursor.at, whole \cup {t.of})
    <3> SUFFICES ASSUME ~mixed, NEW e \in Entities, CompanyOf[e] = t.of, copy'[e] # store[e], store[e] # Absent
                 PROVE  After(log, cursor.at, e)
      BY <1>9 DEF Follows
    <3>1. After(log, t.next.at, e)
      BY <1>9 DEF Follows
    <3>2. t.next.at = t.upTo
      BY <1>5, <1>6, <1>13 DEF CutIs
    <3>3. Joins(log, t.of, t.upTo, cursor.at)
      BY <1>3, <1>5, <1>6, <1>7 DEF SyncIs
    <3> QED BY <3>1, <3>2, <3>3 DEF After, Joins
  <2>9. DeviceIs'
    BY <1>3, <1>6, <1>9, <1>10, <1>11, <2>2, <2>3, <2>8 DEF FeedInv, DeviceIs, CopyIs
  <2> QED BY <1>3, <1>8, <2>3, <2>6, <2>7, <2>9, DeviceMoves
<1> QED BY <1>12, <1>13

LEMMA PageKeeps ==
  ASSUME Apart, IInv, FeedInv, ApplyPage
  PROVE  FeedInv'
<1>0. PICK t : t = task["sync"]
  OBVIOUS
<1>1. PICK v : v = task["reload"]
  OBVIOUS
<1>2. PICK marks : marks = Marks("sync", t)
  OBVIOUS
<1>3. /\ t.st = "answer" /\ t.of = All /\ t.session = session /\ copy' = Applied(copy, t) /\ cursor' = t.next
      /\ whole' = (IF t.snapshot /\ ~t.next.snapshot THEN whole \cup t.covers ELSE whole)
      /\ UNCHANGED <<server, member, signedIn, session, gone, mixed>> /\ UNCHANGED server
      /\ log' = log /\ store' = store
  BY <1>0 DEF ApplyPage, OfThisSession, server
<1>4. "sync" \in Pullers /\ "reload" \in Pullers /\ t \in Tasks /\ session \in Nat /\ task \in [Pullers -> Tasks]
  BY <1>0, FeedTypes DEF Pullers
<1>5. /\ TaskIs("sync", t) /\ CutIs(t) /\ PageIs(t, log, member) /\ Reached(t, log, Minded("sync", t))
      /\ DataIs(t, log, store, marks)
      /\ LogIs(log, store) /\ log \subseteq Change /\ (\A c \in log : Placed(c)) /\ Placed(t.upTo)
      /\ t.next.at \in marks /\ t.upTo \in marks /\ CursorIs(t.next) /\ UpTo(t) = t.upTo /\ (Taking(t) <=> t.snapshot)
  BY <1>0, <1>2, <1>3, <1>4, AnswerFacts
<1>6. signedIn /\ t.todo \subseteq member /\ t.covers \subseteq member
  BY <1>3, <1>5 DEF TaskIs, InSession
<1>7. SyncIs(t) /\ InSession(t)
  BY <1>0, <1>3 DEF FeedInv, InSession
<1>8. TaskIs("reload", v)' /\ ReloadIs(v)'
  <2>1. InSession(v)' => signedIn'
    BY <1>3, <1>6
  <2> QED BY <1>1, <1>3, <1>4, <2>1, ReloadStays
<1>9. ASSUME ~mixed
      PROVE  /\ Follows(copy', log, store, t.next.at, t.covers)
             /\ Follows(copy', log, store, t.next.at, whole)
             /\ Buries(copy', log, store, t.next.at, gone)
             /\ t.next.snapshot => Spares(copy', log, t.next.upTo, gone)
  <2>1. /\ Follows(copy, log, store, t.since.at, t.covers) /\ t.since = cursor
        /\ t.snapshot => Spares(copy, log, t.upTo, gone)
    BY <1>3, <1>5, <1>7, <1>9 DEF SyncIs, Of
  <2>2. Follows(copy, log, store, t.since.at, whole) /\ Buries(copy, log, store, t.since.at, gone)
    BY <1>9, <2>1 DEF FeedInv, DeviceIs, CopyIs
  <2>3. /\ \A e \in Entities : CompanyOf[e] \in t.covers => e \in Minded("sync", t)
        /\ \A e \in Entities : CompanyOf[e] \in whole => e \in Minded("sync", t)
        /\ \A e \in Entities : copy[e] # Absent => e \in Minded("sync", t)
    BY <1>3, <1>7, <1>9 DEF Minded, Of
  <2>4. Follows(Applied(copy, t), log, store, t.next.at, t.covers)
    BY <1>5, <2>1, <2>3, AppliedFollows
  <2>5. Follows(Applied(copy, t), log, store, t.next.at, whole)
    BY <1>5, <2>2, <2>3, AppliedFollows
  <2>6. Buries(Applied(copy, t), log, store, t.next.at, gone)
    BY <1>5, <2>1, <2>2, <2>3, AppliedBuries
  <2>7. t.snapshot => Spares(Applied(copy, t), log, t.upTo, gone)
    BY <1>5, <2>1, AppliedSpares
  <2>8. t.next.snapshot => t.snapshot /\ t.next.upTo = t.upTo
    BY <1>5 DEF CutIs
  <2> QED BY <1>3, <2>4, <2>5, <2>6, <2>7, <2>8
<1>10. \A e \in Entities : copy'[e] # Absent => CompanyOf[e] \in member
  BY <1>0, <1>3, CopyOfMembers
<1>11. task'["reload"] = v => \A e \in Entities : task'["reload"].held[e] # Absent => CompanyOf[e] \in member
  BY <1>1 DEF FeedInv, DeviceIs
<1>12. task'["reload"] = v => DeviceIs'
  <2>1. ~mixed => Follows(copy', log, store, t.next.at, whole')
    BY <1>3, <1>9 DEF Follows
  <2>2. ~mixed => CopyIs'
    BY <1>3, <1>6, <1>9, <2>1 DEF CopyIs, Mid
  <2>3. whole' \subseteq member
    BY <1>3, <1>6 DEF FeedInv, DeviceIs
  <2> QED BY <1>3, <1>5, <1>10, <1>11, <2>2, <2>3 DEF DeviceIs
<1>13. CASE t.more
  <2>1. PICK u : u = [t EXCEPT !.st = "ask", !.since = t.next]
    OBVIOUS
  <2>2. task' = [task EXCEPT !["sync"] = u]
    BY <1>0, <1>13, <2>1 DEF ApplyPage
  <2>3. task'["sync"] = u /\ task'["reload"] = v
    BY <1>1, <1>4, <2>2
  <2>4. /\ u.st = "ask" /\ u.since = t.next /\ u.of = All /\ u.session = session /\ u.covers = t.covers /\ u.todo = t.todo
    BY <1>3, <1>4, <2>1 DEF Tasks
  <2>5. TaskIs("sync", u)'
    BY <1>3, <1>4, <1>5, <1>6, <2>4, AsksOn
  <2>6. SyncIs(u)'
    <3> SUFFICES ASSUME ~mixed
                 PROVE  /\ Follows(copy', log, store, t.next.at, t.covers)
                        /\ Mid(t.next) => Spares(copy', log, t.next.upTo, gone)
      BY <1>3, <2>4 DEF SyncIs, Of, UpTo, Taking
    <3> QED BY <1>9 DEF Mid
  <2> QED BY <1>3, <1>8, <1>12, <2>3, <2>5, <2>6, DeviceMoves
<1>14. CASE ~t.more
  <2>1. PICK u : u = NoTask
    OBVIOUS
  <2>2. task' = [task EXCEPT !["sync"] = u]
    BY <1>0, <1>14, <2>1 DEF ApplyPage
  <2>3. task'["sync"] = u /\ task'["reload"] = v
    BY <1>1, <1>4, <2>2
  <2>4. TaskIs("sync", u)' /\ SyncIs(u)'
    BY <1>3, <1>4, <2>1, IdleNext
  <2> QED BY <1>3, <1>8, <1>12, <2>3, <2>4, DeviceMoves
<1> QED BY <1>13, <1>14

LEMMA CloseKeeps ==
  ASSUME IInv, FeedInv, CloseBetween
  PROVE  FeedInv'
<1>1. /\ task["sync"].st = "answer" /\ task["sync"].session = session /\ copy' = Applied(copy, task["sync"])
      /\ task' = [p \in Pullers |-> NoTask]
      /\ UNCHANGED <<server, member, signedIn, session, cursor, whole, gone, mixed>> /\ UNCHANGED server
      /\ log' = log /\ store' = store
  BY DEF CloseBetween, OfThisSession, server
<1>2. PICK u : u = NoTask
  OBVIOUS
<1>3. task'["sync"] = u /\ task'["reload"] = u
  BY <1>1, <1>2 DEF Pullers
<1>4. TaskIs("sync", u)' /\ SyncIs(u)' /\ TaskIs("reload", u)' /\ ReloadIs(u)' /\ u.held = Nothing
  BY <1>1, <1>2, FeedTypes, IdleNext
<1>5. signedIn
  BY <1>1 DEF FeedInv, TaskIs, InSession, Pullers
<1>6. ~mixed => /\ Follows(copy', log, store, cursor.at, whole)
                /\ Buries(copy', log, store, cursor.at, gone)
                /\ Mid(cursor) => Spares(copy', log, cursor.upTo, gone)
  BY <1>1, CopyAside
<1>7. \A e \in Entities : copy'[e] # Absent => CompanyOf[e] \in member
  BY <1>1, CopyOfMembers
<1>8. DeviceIs'
  BY <1>1, <1>3, <1>4, <1>5, <1>6, <1>7, NothingIs DEF FeedInv, DeviceIs, CopyIs
<1> QED BY <1>1, <1>3, <1>4, <1>8, DeviceMoves

LEMMA ReloadKeeps ==
  ASSUME IInv, FeedInv, ApplyReload
  PROVE  FeedInv'
<1>0. PICK t : t = task["reload"]
  OBVIOUS
<1>1. PICK s : s = task["sync"]
  OBVIOUS
<1>2. PICK marks : marks = Marks("reload", t)
  OBVIOUS
<1>3. PICK held : held = Applied(t.held, t)
  OBVIOUS
<1>4. t.st = "answer" /\ UNCHANGED <<server, member, signedIn, session, gone>> /\ UNCHANGED server /\ log' = log /\ store' = store
  BY <1>0 DEF ApplyReload, server
<1>5. /\ "sync" \in Pullers /\ "reload" \in Pullers /\ t \in Tasks /\ session \in Nat /\ task \in [Pullers -> Tasks]
      /\ s.session \in Nat
  BY <1>0, <1>1, FeedTypes DEF Pullers
<1>6. /\ TaskIs("reload", t) /\ CutIs(t) /\ PageIs(t, log, member) /\ Reached(t, log, Minded("reload", t))
      /\ DataIs(t, log, store, marks)
      /\ LogIs(log, store) /\ log \subseteq Change /\ (\A c \in log : Placed(c)) /\ Placed(t.upTo)
      /\ t.next.at \in marks /\ t.upTo \in marks /\ CursorIs(t.next) /\ UpTo(t) = t.upTo /\ (Taking(t) <=> t.snapshot)
  BY <1>0, <1>2, <1>4, <1>5, AnswerFacts
<1>7. t.of = All /\ t.since.snapshot /\ t.snapshot /\ t.covers \subseteq member /\ t.todo \subseteq member /\ t.session <= session
  BY <1>4, <1>6 DEF TaskIs, CutIs
<1>8. /\ Follows(t.held, log, store, t.since.at, t.covers) /\ Buries(t.held, log, store, t.since.at, {})
      /\ Spares(t.held, log, t.upTo, {})
  BY <1>0, <1>4, <1>6, <1>7 DEF FeedInv, ReloadIs
<1>9. /\ \A e \in Entities : CompanyOf[e] \in t.covers => e \in Minded("reload", t)
      /\ \A e \in Entities : t.held[e] # Absent => e \in Minded("reload", t)
  BY <1>7 DEF Minded, Of
<1>10. Follows(held, log, store, t.next.at, t.covers)
  BY <1>3, <1>6, <1>8, <1>9, AppliedFollows
<1>11. Buries(held, log, store, t.next.at, {})
  BY <1>3, <1>6, <1>8, <1>9, AppliedBuries
<1>12. Spares(held, log, t.upTo, {})
  BY <1>3, <1>6, <1>8, AppliedSpares
<1>13. \A e \in Entities : held[e] # Absent => CompanyOf[e] \in member
  <2>1. \A e \in Entities : t.held[e] # Absent => CompanyOf[e] \in member
    BY <1>0 DEF FeedInv, DeviceIs
  <2> QED BY <1>3, <1>6, <2>1, AppliedOf
<1>14. CASE t.more
  <2>1. PICK u : u = [t EXCEPT !.st = "ask", !.since = t.next, !.held = Applied(t.held, t)]
    OBVIOUS
  <2>2. task' = [task EXCEPT !["reload"] = u] /\ UNCHANGED <<cursor, copy, whole, mixed>>
    BY <1>0, <1>14, <2>1 DEF ApplyReload
  <2>3. /\ u.st = "ask" /\ u.since = t.next /\ u.of = All /\ u.session = t.session /\ u.covers = t.covers /\ u.todo = t.todo
        /\ u.held = held
    BY <1>3, <1>5, <1>7, <2>1 DEF Tasks
  <2>4. t.next.snapshot /\ t.next.upTo = t.upTo /\ t.next # Fresh
    BY <1>6, <1>7, <1>14 DEF CutIs
  <2>5. InSession(t) => signedIn
    BY <1>6 DEF TaskIs
  <2>6. TaskIs("reload", u)
    BY <1>4, <1>6, <1>7, <2>3, <2>4, <2>5 DEF TaskIs, AnswerIs, Answering, InSession
  <2>7. ReloadIs(u)
    BY <1>10, <1>11, <1>12, <2>3, <2>4 DEF ReloadIs, UpTo
  <2>8. \A e \in Entities : u.held[e] # Absent => CompanyOf[e] \in member
    BY <1>13, <2>3
  <2> QED BY <1>4, <1>5, <2>2, <2>6, <2>7, <2>8, TaskReplaced
<1>15. CASE ~t.more
  <2>1. PICK v : v = NoTask
    OBVIOUS
  <2>2. /\ task' = [task EXCEPT !["reload"] = v] /\ copy' = held /\ cursor' = t.next /\ whole' = t.covers
        /\ mixed' = (mixed \/ s.st # "idle" \/ t.session # session)
    BY <1>0, <1>1, <1>3, <1>15, <2>1 DEF ApplyReload
  <2>3. task'["reload"] = v /\ task'["sync"] = s
    BY <1>1, <1>5, <2>2
  <2>4. TaskIs("reload", v)' /\ ReloadIs(v)' /\ v.held = Nothing
    BY <1>4, <1>5, <2>1, IdleNext
  <2>5. TaskIs("sync", s)'
    <3>1. TaskIs("sync", s)
      BY <1>1, <1>5 DEF FeedInv
    <3>2. Minded("sync", s)' \subseteq Minded("sync", s)
      BY <1>4, <2>2 DEF Minded, Of, InSession
    <3>3. s.st = "answer" => \A m \in Marks("sync", s)' : m \in Marks("sync", s)
      BY <2>2 DEF Marks
    <3>4. InSession(s)' => signedIn'
      BY <1>4, <3>1 DEF TaskIs, InSession
    <3> QED BY <1>4, <1>5, <3>1, <3>2, <3>3, <3>4, TaskStays DEF FeedInv
  <2>6. SyncIs(s)'
    BY <2>2 DEF SyncIs, InSession
  <2>7. ~t.next.snapshot
    BY <1>6, <1>7, <1>15 DEF CutIs
  <2>8. ~mixed' => signedIn
    BY <1>4, <1>6, <2>2 DEF TaskIs, InSession
  <2>9. Buries(held, log, store, t.next.at, gone)
    BY <1>11 DEF Buries
  <2>10. ~mixed' => CopyIs'
    BY <1>4, <1>10, <2>2, <2>7, <2>8, <2>9 DEF CopyIs, Mid
  <2>11. DeviceIs'
    BY <1>4, <1>6, <1>7, <1>13, <2>2, <2>3, <2>4, <2>10, NothingIs DEF DeviceIs
  <2> QED BY <1>4, <2>3, <2>4, <2>5, <2>6, <2>11, DeviceMoves
<1> QED BY <1>14, <1>15

(* Signing in or out: nothing that is on its way is of the session that follows. *)
LEMMA SessionKeeps ==
  ASSUME IInv, FeedInv, UNCHANGED <<server, member, task, gone, mixed>>, session' \in {session, session + 1},
         cursor' = Fresh, whole' = {}, \A p \in Pullers : ~InSession(task[p])',
         \A e \in Entities : copy'[e] # Absent => CompanyOf[e] \in member /\ copy'[e] = store[e],
         ~signedIn' => copy' = Nothing
  PROVE  FeedInv'
<1>0. PICK s : s = task["sync"]
  OBVIOUS
<1>1. PICK v : v = task["reload"]
  OBVIOUS
<1>2. "sync" \in Pullers /\ "reload" \in Pullers /\ task'["sync"] = s /\ task'["reload"] = v /\ session \in Nat
  BY <1>0, <1>1, FeedTypes DEF Pullers
<1>3. s.session \in Nat /\ ~InSession(s)' /\ ~InSession(v)'
  BY <1>0, <1>1, <1>2, FeedTypes DEF InSession
<1>4. log' = log /\ store' = store
  BY DEF server
<1>5. TaskIs("reload", v)' /\ ReloadIs(v)'
  <2>1. UNCHANGED server /\ member \subseteq member'
    OBVIOUS
  <2> QED BY <1>1, <1>3, <2>1, ReloadStays
<1>6. TaskIs("sync", s)'
  <2>1. TaskIs("sync", s)
    BY <1>0, <1>2 DEF FeedInv
  <2>2. Minded("sync", s)' \subseteq Minded("sync", s)
    BY <1>3 DEF Minded, Of
  <2>3. \A m \in Marks("sync", s)' : m = Start \/ m \in Marks("sync", s)
    BY FreshIs DEF Marks
  <2>4. UNCHANGED server /\ member \subseteq member'
    OBVIOUS
  <2> QED BY <1>2, <1>3, <2>1, <2>2, <2>3, <2>4, TaskStays DEF FeedInv
<1>7. SyncIs(s)'
  BY <1>3 DEF SyncIs
<1>8. DeviceIs'
  <2>1. CursorIs(Fresh) /\ ~Mid(Fresh)
    BY FreshIs DEF CursorIs, Mid, Before, Placed
  <2>2. CopyIs'
    BY <1>4, <2>1 DEF CopyIs, Follows, Buries
  <2> QED BY <2>1, <2>2 DEF FeedInv, DeviceIs
<1> QED BY <1>2, <1>5, <1>6, <1>7, <1>8, DeviceMoves

LEMMA SignInKeeps ==
  ASSUME Apart, IInv, FeedInv, SignIn
  PROVE  FeedInv'
<1>1. /\ ~signedIn /\ signedIn' = TRUE /\ copy' = [e \in Entities |-> IF e \in member THEN store[e] ELSE Absent]
      /\ cursor' = Fresh /\ whole' = {} /\ UNCHANGED <<server, member, task, gone, mixed>> /\ session' = session
  BY DEF SignIn
<1>2. \A p \in Pullers : ~InSession(task[p])
  BY <1>1 DEF FeedInv, TaskIs
<1>3. \A p \in Pullers : ~InSession(task[p])'
  BY <1>1, <1>2 DEF InSession
<1>4. \A e \in Entities : e \in member => CompanyOf[e] = e
  BY DEF Apart, IInv, TypeOK
<1>5. \A e \in Entities : copy'[e] # Absent => CompanyOf[e] \in member /\ copy'[e] = store[e]
  BY <1>1, <1>4
<1> QED BY <1>1, <1>3, <1>5, SessionKeeps

LEMMA SignOutKeeps ==
  ASSUME IInv, FeedInv, SignOut
  PROVE  FeedInv'
<1>1. /\ copy' = Nothing /\ cursor' = Fresh /\ whole' = {} /\ UNCHANGED <<server, member, task, gone, mixed>>
      /\ session' = session + 1
  BY DEF SignOut
<1>2. \A p \in Pullers : task[p].session <= session /\ task[p].session \in Nat /\ session \in Nat
  BY FeedTypes DEF FeedInv, TaskIs
<1>3. \A p \in Pullers : ~InSession(task[p])'
  BY <1>1, <1>2 DEF InSession
<1> QED BY <1>1, <1>3, NothingIs, SessionKeeps

LEMMA JoinKeeps ==
  ASSUME IInv, FeedInv, NEW c \in Companies, Join(c)
  PROVE  FeedInv'
<1>1. /\ member \subseteq member' /\ UNCHANGED <<server, signedIn, session, cursor, copy, task, whole, gone, mixed>>
      /\ UNCHANGED server /\ log' = log /\ store' = store
  BY DEF Join, server
<1>2. PICK s : s = task["sync"]
  OBVIOUS
<1>3. PICK v : v = task["reload"]
  OBVIOUS
<1>4. "sync" \in Pullers /\ "reload" \in Pullers /\ task'["sync"] = s /\ task'["reload"] = v
  BY <1>1, <1>2, <1>3 DEF Pullers
<1>5. TaskIs("sync", s) /\ TaskIs("reload", v) /\ ReloadIs(v) /\ SyncIs(s)
  BY <1>2, <1>3, <1>4 DEF FeedInv
<1>6. TaskIs("sync", s)' /\ TaskIs("reload", v)'
  BY <1>1, <1>4, <1>5, TaskAsIs
<1>7. ReloadIs(v)' /\ SyncIs(s)'
  BY <1>1, <1>5 DEF ReloadIs, SyncIs, InSession
<1>8. DeviceIs'
  BY <1>1 DEF FeedInv, DeviceIs, CopyIs
<1> QED BY <1>1, <1>4, <1>6, <1>7, <1>8, DeviceMoves

LEMMA StartRunKeeps ==
  ASSUME Apart, IInv, FeedInv, StartRun
  PROVE  FeedInv'
<1>1. PICK todo : todo = {c \in member : copy[c] = Absent}
  OBVIOUS
<1>2. PICK u : u = GoOn([NoTask EXCEPT !.session = session], todo)
  OBVIOUS
<1>3. /\ task' = [task EXCEPT !["sync"] = u] /\ signedIn
      /\ UNCHANGED <<server, member, signedIn, session, cursor, copy, whole, gone, mixed>>
  BY <1>1, <1>2 DEF StartRun, MayRun
<1>4. /\ u.st = "ask" /\ u.session = session /\ u.covers = {} /\ u.todo \subseteq member
      /\ \/ u.of = All /\ u.since = cursor
         \/ u.of # All /\ u.of \in member /\ u.since = Fresh
      /\ Follows(copy, log, store, u.since.at, Of(u))
  <2>1. todo \subseteq member
    BY <1>1
  <2> QED BY <1>2, <2>1, GoesOn DEF FeedInv
<1>5. "sync" \in Pullers /\ session \in Nat
  BY FeedTypes DEF Pullers
<1>6. CursorIs(cursor) /\ CursorIs(Fresh) /\ Fresh.snapshot
  BY FreshIs DEF FeedInv, DeviceIs, CursorIs, Before, Placed
<1>7. TaskIs("sync", u)
  BY <1>3, <1>4, <1>5, <1>6 DEF TaskIs, AnswerIs, Answering, InSession
<1>8. SyncIs(u)
  <2> SUFFICES ASSUME ~mixed
               PROVE  /\ u.of = All /\ Mid(u.since) => Spares(copy, log, u.since.upTo, gone)
                      /\ u.of # All => ~Mid(u.since)
    BY <1>4 DEF SyncIs, UpTo, Taking
  <2>1. Mid(cursor) => Spares(copy, log, cursor.upTo, gone)
    BY DEF FeedInv, DeviceIs, CopyIs
  <2> QED BY <1>4, <2>1 DEF Mid
<1> QED BY <1>3, <1>5, <1>7, <1>8, TaskReplaced

LEMMA StartReloadKeeps ==
  ASSUME IInv, FeedInv, StartReload
  PROVE  FeedInv'
<1>1. PICK u : u = [NoTask EXCEPT !.st = "ask", !.session = session]
  OBVIOUS
<1>2. /\ task' = [task EXCEPT !["reload"] = u] /\ signedIn
      /\ UNCHANGED <<server, member, signedIn, session, cursor, copy, whole, gone, mixed>>
  BY <1>1 DEF StartReload
<1>3. /\ u.st = "ask" /\ u.session = session /\ u.of = All /\ u.covers = {} /\ u.todo = {} /\ u.since = Fresh
      /\ u.held = Nothing
  BY <1>1 DEF NoTask
<1>4. "reload" \in Pullers /\ session \in Nat
  BY FeedTypes DEF Pullers
<1>5. CursorIs(Fresh) /\ Fresh.snapshot /\ ~Mid(Fresh)
  BY FreshIs DEF CursorIs, Before, Placed, Mid
<1>6. TaskIs("reload", u)
  BY <1>2, <1>3, <1>4, <1>5 DEF TaskIs, AnswerIs, Answering, InSession
<1>7. ReloadIs(u)
  BY <1>3, <1>5, NothingIs DEF ReloadIs, Follows, Buries, Taking
<1> QED BY <1>2, <1>3, <1>4, <1>6, <1>7, NothingIs, TaskReplaced

LEMMA RunEndsKeeps ==
  ASSUME IInv, FeedInv, DropLate \/ \E p \in Pullers : PullLost(p)
  PROVE  FeedInv'
<1>1. CASE DropLate
  <2>1. "sync" \in Pullers
    BY DEF Pullers
  <2> QED BY <1>1, <2>1, TaskEnds DEF DropLate
<1>2. ASSUME NEW p \in Pullers, PullLost(p) PROVE FeedInv'
  BY <1>2, TaskEnds DEF PullLost
<1> QED BY <1>1, <1>2

LEMMA InitFeed == ASSUME Sane, Init PROVE FeedInv
<1>1. IInv /\ ServerInv
  BY InitIInv, InitServer
<1>2. \A p \in Pullers : task[p] = NoTask
  BY DEF Init
<1>3. "sync" \in Pullers /\ "reload" \in Pullers
  BY DEF Pullers
<1>4. PICK u : u = NoTask
  OBVIOUS
<1>5. \A p \in Pullers : TaskIs(p, u)
  BY <1>1, <1>4, Idle
<1>6. ReloadIs(u) /\ SyncIs(u) /\ u.held = Nothing
  BY <1>1, <1>4, Idle
<1>7. /\ member = Members0 /\ whole = {} /\ cursor = Fresh /\ copy = Nothing /\ signedIn = FALSE /\ mixed = FALSE
  BY DEF Init
<1>8. CursorIs(Fresh) /\ ~Mid(Fresh)
  BY FreshIs DEF CursorIs, Mid, Before, Placed
<1>9. CopyIs
  BY <1>7, <1>8, NothingIs DEF CopyIs, Follows, Buries
<1>10. DeviceIs
  BY <1>2, <1>3, <1>4, <1>6, <1>7, <1>8, <1>9, NothingIs DEF DeviceIs
<1> QED BY <1>1, <1>2, <1>3, <1>4, <1>5, <1>6, <1>10 DEF FeedInv

LEMMA StepFeed == ASSUME Apart, IInv, FeedInv, [Next]_vars PROVE FeedInv'
<1>1. CASE Next
  <2>1. CASE \/ \E r \in Requests : Begin(r) \/ Finishes(r)
             \/ \E r \in Requests, e \in Entities : Upsert(r, e) \/ Delete(r, e) \/ DeleteAtOnce(r, e)
    BY <2>1, ServerKeeps
  <2>2. CASE SignIn \/ SignOut \/ \E c \in Companies : Join(c)
    BY <2>2, SignInKeeps, SignOutKeeps, JoinKeeps
  <2>3. CASE StartRun \/ StartReload \/ ApplyReload \/ CloseBetween
    BY <2>3, StartRunKeeps, StartReloadKeeps, ReloadKeeps, CloseKeeps
  <2>4. CASE Apply
    BY <2>4, RunEndsKeeps, CompanyPageKeeps, PageKeeps DEF Apply
  <2>5. ASSUME NEW p \in Pullers, Pull(p) PROVE FeedInv'
    BY <2>5, ChangesKeep, SnapshotKeeps, ReadKeeps DEF Pull
  <2>6. ASSUME NEW p \in Pullers, PullLost(p) \/ \E c \in task[p].rows : ReadFails(p, c) PROVE FeedInv'
    BY <2>6, RunEndsKeeps, ReadFailsKeeps
  <2> QED BY <1>1, <2>1, <2>2, <2>3, <2>4, <2>5, <2>6 DEF Next
<1>2. CASE UNCHANGED vars
  <2>1. UNCHANGED <<server, signedIn, session, cursor, copy, whole, gone, mixed, member, task>>
    BY <1>2 DEF vars, device
  <2>2. ServerInv' /\ log' = log /\ store' = store
    BY <2>1, ServerAsIs DEF FeedInv, server
  <2>3. \A p \in Pullers : TaskIs(p, task[p])'
    <3> TAKE p \in Pullers
    <3>1. TaskIs(p, task[p]) /\ task'[p] = task[p]
      BY <2>1 DEF FeedInv
    <3> QED BY <2>1, <3>1, TaskAsIs
  <2>4. ReloadIs(task["reload"])' /\ SyncIs(task["sync"])'
    BY <2>1, <2>2 DEF FeedInv, ReloadIs, SyncIs, InSession
  <2>5. DeviceIs'
    BY <2>1, <2>2 DEF FeedInv, DeviceIs, CopyIs
  <2> QED BY <2>2, <2>3, <2>4, <2>5 DEF FeedInv
<1> QED BY <1>1, <1>2

LEMMA TellsTrue == FeedInv => CopyIsTrue
<1> SUFFICES ASSUME FeedInv, ~mixed PROVE CopyIsTrue
  BY DEF CopyIsTrue, StaleIsStillToCome, SignedOutIsEmpty
<1>1. CopyIs
  BY DEF FeedInv, DeviceIs
<1>2. SignedOutIsEmpty
  BY <1>1 DEF CopyIs, SignedOutIsEmpty
<1>3. StaleIsStillToCome
  <2> SUFFICES ASSUME NEW e \in Entities, CompanyOf[e] \in whole, copy[e] # store[e]
               PROVE  After(log, cursor.at, e) \/ (e \in gone /\ store[e] = Absent)
    BY DEF StaleIsStillToCome, After
  <2>1. CASE store[e] # Absent
    BY <1>1, <2>1 DEF CopyIs, Follows
  <2>2. CASE store[e] = Absent
    BY <1>1, <2>2 DEF CopyIs, Buries
  <2> QED BY <2>1, <2>2
<1> QED BY <1>2, <1>3 DEF CopyIsTrue

(* Wherever the copy of a device differs from the committed row, of a business whose history it was given to *)
(* the end, a change that says so is still after its cursor (or the row is gone and the device had it before *)
(* its first snapshot); and nothing is left on it when its user has signed out.  This for any businesses,    *)
(* rows and requests, any page size, any order of commits, any answers lost, late or cut short, any          *)
(* sign-outs, and reloads that no sync run overlaps (handlers.ts syncPull, sync.ts, apply.ts).               *)
THEOREM CopyStaysTrue == ASSUME Sane, Apart PROVE Spec => []CopyIsTrue
<1>1. Init => FeedInv
  BY InitFeed
<1>2. IInv /\ FeedInv /\ [Next]_vars => FeedInv'
  BY StepFeed
<1>3. Spec => []FeedInv
  BY <1>1, <1>2, Invariant, PTL DEF Spec
<1> QED BY <1>3, TellsTrue, PTL

-----------------------------------------------------------------------------
(* What a device has to send.  The names are those of Outbox, through Box. *)

-----------------------------------------------------------------------------
(* Queues *)

Distinct(q) == \A i, j \in DOMAIN q : q[i].id = q[j].id => i = j

\* w is what is left of q, in order; f says where each entry was.
Left(w, q, f) ==
  /\ f \in [DOMAIN w -> DOMAIN q]
  /\ \A i, j \in DOMAIN w : i < j => f[i] < f[j]

LEMMA InRange == ASSUME NEW q, NEW e PROVE e \in Box!Range(q) <=> \E i \in DOMAIN q : e = q[i]
BY DEF Box!Range

LEMMA Removed ==
  ASSUME NEW q \in Seq(Box!Entry), NEW k \in DOMAIN q
  PROVE  /\ Box!RemoveAt(q, k) \in Seq(Box!Entry) /\ Len(Box!RemoveAt(q, k)) = Len(q) - 1
         /\ \A i \in DOMAIN Box!RemoveAt(q, k) : Box!RemoveAt(q, k)[i] = q[IF i < k THEN i ELSE i + 1]
<1> DEFINE a == SubSeq(q, 1, k - 1)
           b == SubSeq(q, k + 1, Len(q))
<1>1. Len(q) \in Nat /\ DOMAIN q = 1 .. Len(q) /\ k \in 1 .. Len(q)
  OBVIOUS
<1>2. a \in Seq(Box!Entry) /\ Len(a) = k - 1 /\ \A i \in 1 .. k - 1 : a[i] = q[i]
  <2>1. \A i \in 1 .. k - 1 : q[i] \in Box!Entry
    BY <1>1, ElementOfSeq
  <2> QED BY <1>1, <2>1, SubSeqProperties
<1>3. b \in Seq(Box!Entry) /\ Len(b) = Len(q) - k /\ \A i \in 1 .. Len(q) - k : b[i] = q[k + i]
  <2>1. \A i \in k + 1 .. Len(q) : q[i] \in Box!Entry
    BY <1>1, ElementOfSeq
  <2> QED BY <1>1, <2>1, SubSeqProperties
<1>4. Box!RemoveAt(q, k) = a \o b
  BY DEF Box!RemoveAt
<1> HIDE DEF a, b
<1>5. a \o b \in Seq(Box!Entry) /\ Len(a \o b) = Len(q) - 1
  <2>1. a \o b \in Seq(Box!Entry) /\ Len(a \o b) = Len(a) + Len(b)
    BY <1>2, <1>3, ConcatProperties
  <2> QED BY <1>1, <1>2, <1>3, <2>1
<1>6. DOMAIN (a \o b) = 1 .. Len(q) - 1
  BY <1>5
<1>7. ASSUME NEW i \in 1 .. Len(q) - 1 PROVE (a \o b)[i] = q[IF i < k THEN i ELSE i + 1]
  <2>1. (a \o b)[i] = IF i <= Len(a) THEN a[i] ELSE b[i - Len(a)]
    BY <1>1, <1>2, <1>3, ConcatProperties
  <2> QED BY <1>1, <1>2, <1>3, <2>1
<1> QED BY <1>4, <1>5, <1>6, <1>7

Drops(w, q, id, f) ==
  /\ w \in Seq(Box!Entry) /\ Left(w, q, f)
  /\ \A i \in DOMAIN w : w[i] = q[f[i]] /\ w[i].id # id
  /\ \A j \in DOMAIN q : q[j].id # id => \E i \in DOMAIN w : f[i] = j

LEMMA Dropped ==
  ASSUME NEW q \in Seq(Box!Entry), NEW id, Distinct(q)
  PROVE  \E f : Drops(Box!Without(q, id), q, id, f)
<1>1. CASE \E i \in DOMAIN q : q[i].id = id
  <2> DEFINE k == CHOOSE i \in DOMAIN q : q[i].id = id
             w == Box!RemoveAt(q, k)
             f == [i \in DOMAIN w |-> IF i < k THEN i ELSE i + 1]
  <2>1. k \in DOMAIN q /\ q[k].id = id
    BY <1>1
  <2>2. Box!Without(q, id) = w
    BY <1>1 DEF Box!Without
  <2> HIDE DEF k
  <2>3. /\ w \in Seq(Box!Entry) /\ Len(w) = Len(q) - 1
        /\ \A i \in DOMAIN w : w[i] = q[IF i < k THEN i ELSE i + 1]
    BY <2>1, Removed
  <2> HIDE DEF w
  <2>4. DOMAIN q = 1 .. Len(q) /\ Len(q) \in Nat /\ DOMAIN w = 1 .. Len(q) - 1 /\ k \in 1 .. Len(q)
    BY <2>1, <2>3
  <2>5. Left(w, q, f)
    BY <2>4 DEF Left
  <2>6. ASSUME NEW i \in DOMAIN w PROVE w[i] = q[f[i]] /\ w[i].id # id
    <3>1. f[i] \in DOMAIN q /\ f[i] # k
      BY <2>4
    <3>2. w[i] = q[f[i]]
      BY <2>3
    <3> QED BY <2>1, <3>1, <3>2 DEF Distinct
  <2>7. ASSUME NEW j \in DOMAIN q, q[j].id # id PROVE \E i \in DOMAIN w : f[i] = j
    <3>1. j # k
      BY <2>1, <2>7
    <3>2. CASE j < k
      BY <2>4, <3>2
    <3>3. CASE j > k
      <4>1. j - 1 \in DOMAIN w /\ f[j - 1] = j
        BY <2>4, <3>3
      <4> QED BY <4>1
    <3> QED BY <2>4, <3>1, <3>2, <3>3
  <2> HIDE DEF f
  <2>8. Drops(w, q, id, f)
    BY <2>3, <2>5, <2>6, <2>7 DEF Drops
  <2> QED BY <2>2, <2>8
<1>2. CASE ~\E i \in DOMAIN q : q[i].id = id
  <2> DEFINE f == [i \in DOMAIN q |-> i]
  <2>1. Box!Without(q, id) = q
    BY <1>2 DEF Box!Without
  <2>2. Drops(q, q, id, f)
    BY <1>2 DEF Drops, Left
  <2> QED BY <2>1, <2>2
<1> QED BY <1>1, <1>2

LEMMA Put ==
  ASSUME NEW q \in Seq(Box!Entry), NEW i \in DOMAIN q, NEW e \in Box!Entry
  PROVE  /\ Box!Replaced(q, i, e) \in Seq(Box!Entry) /\ DOMAIN Box!Replaced(q, i, e) = DOMAIN q
         /\ \A j \in DOMAIN q : Box!Replaced(q, i, e)[j] = IF j = i THEN e ELSE q[j]
BY DEF Box!Replaced

LEMMA Moved ==
  ASSUME NEW q \in Seq(Box!Entry), NEW v \in Nat
  PROVE  /\ Box!Rebased(q, v) \in Seq(Box!Entry) /\ DOMAIN Box!Rebased(q, v) = DOMAIN q
         /\ \A i \in DOMAIN q : Box!Rebased(q, v)[i] = IF Box!Pending(q[i]) /\ q[i].base # Box!NoBase THEN [q[i] EXCEPT !.base = v] ELSE q[i]
<1>1. \A i \in DOMAIN q : q[i] \in Box!Entry
  OBVIOUS
<1>2. \A i \in DOMAIN q : Box!Rebased(q, v)[i] \in Box!Entry
  BY <1>1 DEF Box!Rebased, Box!Entry
<1>3. DOMAIN Box!Rebased(q, v) = 1 .. Len(q) /\ Len(q) \in Nat
  BY DEF Box!Rebased
<1>4. Box!Rebased(q, v) \in [1 .. Len(q) -> Box!Entry]
  BY <1>2 DEF Box!Rebased
<1> QED BY <1>3, <1>4 DEF Box!Rebased

-----------------------------------------------------------------------------
(* The invariant *)

Asks == IF oRun.st \in {"asked", "answered"} THEN {oRun.ask} ELSE {}
\* The copies of entries there are outside the queue
Out == oLate \cup Asks
Queued == Box!Range(oQueue)
Copies == Queued \cup Out
Done == DOMAIN oAnswers
MyBodies == {Box!Mine(n) : n \in Box!Edits}

(* Ids are given in order and edits numbered as they are made; nothing carries one not given yet. *)
Numbers ==
  /\ oMade <= MaxSaves /\ oNextId >= 1
  /\ Distinct(oQueue)
  /\ \A e \in Copies : e.id >= 1 /\ e.id < oNextId /\ e.n >= 1 /\ e.n <= oMade /\ (e.method = "POST" => e.base = Box!NoBase)
  /\ Done \subseteq 1 .. oNextId - 1 /\ oRun.tried \subseteq 1 .. oNextId - 1
  /\ oReached \subseteq 1 .. oMade
  /\ oMade = 0 /\ oKnown = 0 => oDoc.v = 0
  /\ \A n \in Box!Edits : n > oMade => oOutcome[n] = "none"

(* Copies of one entry agree; one not sent has no copy elsewhere and no answer; what failed was answered. *)
Same ==
  /\ \A e \in Queued : ~e.sent => e.id \notin Done /\ \A o \in Out : o.id # e.id
  /\ \A e \in Copies, o \in Out : e.id = o.id => e.n = o.n /\ e.method = o.method /\ e.saw = o.saw /\ (e.base = Box!NoBase <=> o.base = Box!NoBase)
  /\ \A e \in Queued : Box!Failed(e) => e.id \in Done /\ oAnswers[e.id].is # "applied" /\ e.tries
  /\ oRun.st = "answered" /\ oRun.got.is # "retry" => oRun.ask.id \in Done /\ oRun.got = oAnswers[oRun.ask.id]
  /\ oRun.st \in {"asked", "answered"} => \A e \in Queued : e.id \in oRun.tried => e.tries

(* The save that waits has its entry in the queue, still to be answered, and its edit is in no other. *)
Waiting ==
  oSaving # Box!NotSaving =>
    /\ oSaving.n \in Box!Edits /\ oOutcome[oSaving.n] = "none"
    /\ \E e \in Queued : e.id = oSaving.id /\ e.n = oSaving.n /\ Box!Pending(e)
    /\ \A e \in Copies : e.n = oSaving.n => e.id = oSaving.id
    /\ oSaving.n \in oReached => oSaving.id \in Done /\ oAnswers[oSaving.id].is = "applied"

(* Nothing of an edit that was refused or not kept is in the queue, or is on its way unanswered. *)
NothingBack ==
  \A n \in Box!Edits : oOutcome[n] \in {"refused", "unreachable"} =>
     n \notin oReached /\ (\A e \in Queued : e.n # n) /\ \A e \in Out : e.n = n => e.id \in Done

(* What was queued is in the queue apart from the save that waits, or the server has it, or it was discarded. *)
Kept ==
  oRevived = 0 => \A n \in Box!Edits : oOutcome[n] \in {"queued", "folded"} =>
    (\E e \in Queued : e.id # oSaving.id /\ e.n >= n) \/ \E k \in oReached \cup oDiscarded : k >= n

(* Until one is made anew there is one create: while it is not answered the server has no record. *)
Creates ==
  oRevived = 0 =>
    /\ \A e, o \in Queued : e.method = "POST" /\ o.method = "POST" => e.id = o.id
    /\ \A e, o \in Copies : e.method = "POST" /\ o.method = "POST" /\ o.id \notin Done =>
         oDoc.v = 0 /\ (e \in Queued \/ e.id \notin Done => e.id = o.id)
    /\ \A e \in Queued : e.method = "POST" /\ e.id \in Done /\ oAnswers[e.id].is # "applied" => oDoc.v = 0
    /\ \A e \in Copies : e.id \in Done /\ oAnswers[e.id].is = "applied" => e.n \in oReached
    /\ \A i \in Done : oAnswers[i].is = "applied" => oAnswers[i].body \in MyBodies

(* No version is ahead of the server's, and a copy of that version says what it says. *)
Versions ==
  /\ {oKnown, oShown, oSaving.shown, oRun.got.v} \subseteq 0 .. oDoc.v
  /\ \A e \in Copies : e.base <= oDoc.v
  /\ \A i \in Done : /\ oAnswers[i].v <= oDoc.v /\ (oAnswers[i].v = oDoc.v => oAnswers[i].body = oDoc.body)
                     /\ oAnswers[i].is # "retry" /\ (oAnswers[i].is # "rejected" => oAnswers[i].v >= 1)
  /\ oRun.st \in {"answered", "pulled"} /\ oRun.got.v = oDoc.v => oRun.got.body = oDoc.body

(* Where a version was passed on without being shown, the record of that version is one of this device. *)
Bases ==
  ~oOlder /\ oRevived = 0 =>
    /\ oKnown = oDoc.v /\ oShown < oKnown => oDoc.body \in MyBodies
    /\ \A e \in Copies : e.saw <= oShown /\ (e.base # Box!NoBase /\ e.base = oDoc.v /\ e.saw < e.base => oDoc.body \in MyBodies)

(* Entries are in the order of their edits, save where one took a newer edit; each goes after those ahead were tried. *)
Ordered ==
  /\ \A i, j \in DOMAIN oQueue : i < j =>
       /\ oQueue[i].n < oQueue[j].n \/ oQueue[j].n \in oOvertaken
       /\ oQueue[j].sent => oQueue[i].tries
  /\ \A q \in Queued : ~q.tries /\ q.n \notin oOvertaken =>
       /\ \A e \in Out : e.id \notin Done /\ (\A o \in Queued : o.id # e.id) => e.n < q.n
       /\ q.id \notin Done => \A k \in oReached : k < q.n

BoxInv == Box!TypeOK /\ Numbers /\ Same /\ Waiting /\ NothingBack /\ Kept /\ Creates /\ Versions /\ Bases /\ Ordered

-----------------------------------------------------------------------------
(* A run goes on *)

Keeps(g, e) ==
  /\ g.id = e.id /\ g.n = e.n /\ g.method = e.method /\ g.saw = e.saw
  /\ (e.sent => g.sent) /\ (e.tries => g.tries)
Refused(g) == g.id = oRun.ask.id /\ g.tries /\ (Box!Answered("conflict") \/ Box!Answered("rejected"))
\* The entry that was asked leaves the queue.
Leaves == \/ Box!Answered("applied")
          \/ (Box!Answered("conflict") \/ Box!Answered("rejected")) /\ oSaving.id = oRun.ask.id
\* What the answer does to the queue, before the next entry goes
Noted(q, f) ==
  /\ q \in Seq(Box!Entry) /\ Left(q, oQueue, f)
  /\ \A i \in DOMAIN q :
       /\ Keeps(q[i], oQueue[f[i]])
       /\ q[i].base = oQueue[f[i]].base \/ (Box!Answered("applied") /\ oQueue[f[i]].base # Box!NoBase /\ q[i].base = oRun.got.v)
       /\ Box!Failed(q[i]) => Box!Failed(oQueue[f[i]]) \/ Refused(q[i])
  /\ \A j \in DOMAIN oQueue : (\E i \in DOMAIN q : f[i] = j) \/ (Leaves /\ oQueue[j].id = oRun.ask.id)
  /\ Leaves => \A i \in DOMAIN q : q[i].id # oRun.ask.id
Prepared(q, tried, f) ==
  /\ Noted(q, f)
  /\ \A i \in DOMAIN q : q[i].sent => oQueue[f[i]].sent
  /\ \A i \in DOMAIN q : q[i].id \in tried => q[i].tries
  /\ \A i, j \in DOMAIN q : i < j /\ q[j].sent => q[i].tries
Goes(tried, f) ==
  /\ Noted(oQueue', f)
  /\ \A i \in DOMAIN oQueue' : oQueue'[i].sent => oQueue[f[i]].sent \/ (oRun'.st = "asked" /\ oRun'.ask = oQueue'[i])
  /\ \A i, j \in DOMAIN oQueue' : i < j /\ oQueue'[j].sent => oQueue'[i].tries
  /\ oRun'.st \in {"asked", "pull"} /\ oRun'.got = Box!NoRes /\ oRun'.tried \in {tried, {}}
  /\ oRun'.st = "asked" => /\ \E i \in DOMAIN oQueue' : oRun'.ask = oQueue'[i] /\ oQueue'[i].sent
                           /\ \A i \in DOMAIN oQueue' : oQueue'[i].id \in tried => oQueue'[i].tries

LEMMA RunsOn ==
  ASSUME NEW q, NEW tried, NEW f, Prepared(q, tried, f), Box!GoOn(q, tried)
  PROVE  Goes(tried, f)
<1>1. q \in Seq(Box!Entry) /\ \A i \in DOMAIN q : q[i] \in Box!Entry
  BY DEF Prepared, Noted
<1>2. CASE oQueue' = q /\ oRun' = [Box!Idle EXCEPT !.st = "pull"]
  BY <1>2 DEF Prepared, Goes, Box!Idle
<1>3. CASE \E i \in DOMAIN q :
       /\ Box!First(q, tried, i)
       /\ oQueue' = Box!Replaced(q, i, Box!AsSent(q[i]))
       /\ oRun' = [st |-> "asked", tried |-> tried, ask |-> oQueue'[i], got |-> Box!NoRes]
  <2>1. PICK k \in DOMAIN q :
       /\ Box!First(q, tried, k)
       /\ oQueue' = Box!Replaced(q, k, Box!AsSent(q[k]))
       /\ oRun' = [st |-> "asked", tried |-> tried, ask |-> oQueue'[k], got |-> Box!NoRes]
    BY <1>3
  <2>2. Box!AsSent(q[k]) \in Box!Entry
    BY <1>1 DEF Box!AsSent, Box!Entry
  <2>3. /\ oQueue' \in Seq(Box!Entry) /\ DOMAIN oQueue' = DOMAIN q
        /\ \A j \in DOMAIN q : oQueue'[j] = IF j = k THEN Box!AsSent(q[k]) ELSE q[j]
    BY <1>1, <2>1, <2>2, Put
  <2>4. /\ Box!AsSent(q[k]).sent /\ Box!AsSent(q[k]).id = q[k].id /\ Box!AsSent(q[k]).n = q[k].n /\ Box!AsSent(q[k]).method = q[k].method
        /\ Box!AsSent(q[k]).saw = q[k].saw /\ Box!AsSent(q[k]).tries = q[k].tries /\ Box!AsSent(q[k]).base = q[k].base
        /\ Box!AsSent(q[k]).status = q[k].status
    BY <1>1 DEF Box!AsSent, Box!Entry
  <2>5. \A j \in 1 .. k - 1 : j \in DOMAIN q /\ q[j].tries
    <3>1. \A j \in 1 .. k - 1 : j \in DOMAIN q
      BY <1>1
    <3> SUFFICES ASSUME NEW j \in 1 .. k - 1 PROVE q[j].tries
      BY <3>1
    <3>2. ~Box!Sendable(q, j, tried) /\ Box!Sendable(q, k, tried)
      BY <2>1 DEF Box!First
    <3>3. ~Box!Failed(q[j])
      BY <3>1, <3>2 DEF Box!Sendable, Box!Blocked
    <3>4. q[j].id \in tried
      BY <3>2, <3>3 DEF Box!Sendable, Box!Blocked, Box!Failed
    <3> QED BY <3>1, <3>4 DEF Prepared
  <2>6. Noted(oQueue', f)
    <3>1. Left(oQueue', oQueue, f)
      BY <2>3 DEF Prepared, Noted, Left
    <3>2. ASSUME NEW i \in DOMAIN q
          PROVE  /\ Keeps(oQueue'[i], oQueue[f[i]])
                 /\ oQueue'[i].base = oQueue[f[i]].base \/ (Box!Answered("applied") /\ oQueue[f[i]].base # Box!NoBase /\ oQueue'[i].base = oRun.got.v)
                 /\ Box!Failed(oQueue'[i]) => Box!Failed(oQueue[f[i]]) \/ Refused(oQueue'[i])
      <4>1. /\ Keeps(q[i], oQueue[f[i]])
            /\ q[i].base = oQueue[f[i]].base \/ (Box!Answered("applied") /\ oQueue[f[i]].base # Box!NoBase /\ q[i].base = oRun.got.v)
            /\ Box!Failed(q[i]) => Box!Failed(oQueue[f[i]]) \/ Refused(q[i])
        <5>1. Noted(q, f)
          BY DEF Prepared
        <5> QED BY <5>1 DEF Noted
      <4>2. CASE i # k
        <5>1. oQueue'[i] = q[i]
          BY <2>3, <4>2
        <5> QED BY <4>1, <5>1
      <4>3. CASE i = k
        <5>1. oQueue'[i] = Box!AsSent(q[i])
          BY <2>3, <4>3
        <5>2. Keeps(oQueue'[i], oQueue[f[i]])
          BY <2>4, <4>1, <4>3, <5>1 DEF Keeps
        <5>3. oQueue'[i].base = q[i].base /\ oQueue'[i].id = q[i].id /\ oQueue'[i].tries = q[i].tries /\ (Box!Failed(oQueue'[i]) <=> Box!Failed(q[i]))
          BY <2>4, <4>3, <5>1 DEF Box!Failed, Box!Pending
        <5> QED BY <4>1, <5>2, <5>3 DEF Refused
      <4> QED BY <4>2, <4>3
    <3>3. \A j \in DOMAIN oQueue : (\E i \in DOMAIN q : f[i] = j) \/ (Leaves /\ oQueue[j].id = oRun.ask.id)
      BY DEF Prepared, Noted
    <3>4. Leaves => \A i \in DOMAIN q : oQueue'[i].id # oRun.ask.id
      BY <2>3, <2>4 DEF Prepared, Noted
    <3> QED BY <2>3, <3>1, <3>2, <3>3, <3>4 DEF Noted
  <2>7. oRun'.st = "asked" /\ oRun'.ask = oQueue'[k] /\ oRun'.got = Box!NoRes /\ oRun'.tried = tried
    BY <2>1
  <2>8. oQueue'[k].sent /\ \A i \in DOMAIN q : oQueue'[i].tries = q[i].tries /\ oQueue'[i].id = q[i].id /\ (i # k => oQueue'[i].sent = q[i].sent)
    BY <2>3, <2>4
  <2>9. \A i \in DOMAIN oQueue' : oQueue'[i].sent => oQueue[f[i]].sent \/ (oRun'.st = "asked" /\ oRun'.ask = oQueue'[i])
    BY <2>3, <2>7, <2>8 DEF Prepared
  <2>10. ASSUME NEW i \in DOMAIN oQueue', NEW j \in DOMAIN oQueue', i < j, oQueue'[j].sent PROVE oQueue'[i].tries
    <3>1. CASE j = k
      <4>1. i \in 1 .. k - 1
        BY <1>1, <2>3, <2>10, <3>1
      <4> QED BY <2>3, <2>5, <2>8, <4>1
    <3>2. CASE j # k
      BY <2>3, <2>8, <2>10, <3>2 DEF Prepared
    <3> QED BY <3>1, <3>2
  <2>11. \A i \in DOMAIN oQueue' : oQueue'[i].id \in tried => oQueue'[i].tries
    BY <2>3, <2>8 DEF Prepared
  <2> QED BY <2>3, <2>6, <2>7, <2>8, <2>9, <2>10, <2>11 DEF Goes
<1> QED BY <1>2, <1>3 DEF Box!GoOn

LEMMA QueueTyped == ASSUME Box!TypeOK PROVE oQueue \in Seq(Box!Entry) /\ \A i \in DOMAIN oQueue : oQueue[i] \in Box!Entry /\ oQueue[i] \in Queued
BY DEF Box!TypeOK, Queued, Box!Range

\* An entry that keeps all but its marks
LEMMA KeepsItself == ASSUME NEW e PROVE Keeps(e, e)
BY DEF Keeps

LEMMA Starts == ASSUME BoxInv, Box!StartRun PROVE \E f : Goes({}, f)
<1> DEFINE f == [i \in DOMAIN oQueue |-> i]
<1>1. oQueue \in Seq(Box!Entry) /\ \A i \in DOMAIN oQueue : oQueue[i] \in Box!Entry /\ oQueue[i] \in Queued
  BY QueueTyped DEF BoxInv
<1>2. Left(oQueue, oQueue, f)
  BY DEF Left
<1>3. \A i \in DOMAIN oQueue : f[i] = i
  OBVIOUS
<1> HIDE DEF f
<1>4. Noted(oQueue, f)
  <2>1. ~Leaves
    BY DEF Box!StartRun, Box!Idle, Leaves, Box!Answered
  <2> QED BY <1>1, <1>2, <1>3, <2>1, KeepsItself DEF Noted
<1>5. \A i, j \in DOMAIN oQueue : i < j /\ oQueue[j].sent => oQueue[i].tries
  BY DEF BoxInv, Ordered
<1>6. Prepared(oQueue, {}, f)
  BY <1>3, <1>4, <1>5 DEF Prepared
<1>7. CASE Box!Held
  <2>1. oQueue' = oQueue /\ oRun' = [Box!Idle EXCEPT !.st = "pull"]
    BY <1>7 DEF Box!StartRun
  <2>2. Box!GoOn(oQueue, {}) \/ Goes({}, f)
    BY <1>6, <2>1 DEF Prepared, Goes, Box!Idle
  <2> QED BY <1>6, <2>2, RunsOn
<1>8. CASE ~Box!Held
  BY <1>6, <1>8, RunsOn DEF Box!StartRun
<1> QED BY <1>7, <1>8

\* What an answer leaves of the queue, and the notes it makes
LEMMA AfterDrop ==
  ASSUME BoxInv, Leaves
  PROVE  \E f : Drops(Box!Without(oQueue, oRun.ask.id), oQueue, oRun.ask.id, f) /\ Prepared(Box!Without(oQueue, oRun.ask.id), Box!Tried, f)
<1> DEFINE w == Box!Without(oQueue, oRun.ask.id)
<1>1. oQueue \in Seq(Box!Entry) /\ \A i \in DOMAIN oQueue : oQueue[i] \in Box!Entry /\ oQueue[i] \in Queued
  BY QueueTyped DEF BoxInv
<1>2. PICK f : Drops(w, oQueue, oRun.ask.id, f)
  BY <1>1, Dropped DEF BoxInv, Numbers
<1> HIDE DEF w
<1>3. w \in Seq(Box!Entry) /\ Left(w, oQueue, f) /\ \A i \in DOMAIN w : f[i] \in DOMAIN oQueue /\ w[i] = oQueue[f[i]] /\ w[i].id # oRun.ask.id
  BY <1>2 DEF Drops, Left
<1>4. Noted(w, f)
  <2>1. \A j \in DOMAIN oQueue : (\E i \in DOMAIN w : f[i] = j) \/ (Leaves /\ oQueue[j].id = oRun.ask.id)
    BY <1>2 DEF Drops
  <2> QED BY <1>3, <2>1, KeepsItself DEF Noted
<1>5. ASSUME NEW i \in DOMAIN w, w[i].id \in Box!Tried PROVE w[i].tries
  <2>1. oRun.st = "answered" /\ w[i].id \in oRun.tried
    BY <1>3, <1>5 DEF Leaves, Box!Answered, Box!Tried, Box!Asked
  <2> QED BY <1>1, <1>3, <2>1 DEF BoxInv, Same
<1>6. ASSUME NEW i \in DOMAIN w, NEW j \in DOMAIN w, i < j, w[j].sent PROVE w[i].tries
  <2>1. f[i] < f[j]
    BY <1>3, <1>6 DEF Left
  <2> QED BY <1>3, <1>6, <2>1 DEF BoxInv, Ordered
<1>7. Prepared(w, Box!Tried, f)
  BY <1>3, <1>4, <1>5, <1>6 DEF Prepared
<1> QED BY <1>2, <1>7 DEF w

LEMMA AfterApplied ==
  ASSUME BoxInv, Box!Answered("applied")
  PROVE  \E f : Prepared(Box!Rebased(Box!Without(oQueue, oRun.ask.id), oRun.got.v), Box!Tried, f)
<1>1. PICK f : Drops(Box!Without(oQueue, oRun.ask.id), oQueue, oRun.ask.id, f) /\ Prepared(Box!Without(oQueue, oRun.ask.id), Box!Tried, f)
  BY AfterDrop DEF Leaves
<1> DEFINE w == Box!Without(oQueue, oRun.ask.id)
           r == Box!Rebased(w, oRun.got.v)
<1>2. w \in Seq(Box!Entry) /\ (\A i \in DOMAIN w : w[i] \in Box!Entry /\ w[i] = oQueue[f[i]]) /\ Prepared(w, Box!Tried, f)
  BY <1>1 DEF Drops
<1>3. oRun.got.v \in Nat
  BY DEF BoxInv, Box!TypeOK, Box!Result
<1> HIDE DEF w
<1>4. /\ r \in Seq(Box!Entry) /\ DOMAIN r = DOMAIN w
      /\ \A i \in DOMAIN w : r[i] = IF Box!Pending(w[i]) /\ w[i].base # Box!NoBase THEN [w[i] EXCEPT !.base = oRun.got.v] ELSE w[i]
  BY <1>2, <1>3, Moved
<1> HIDE DEF r
<1>5. ASSUME NEW i \in DOMAIN w
      PROVE  /\ r[i].id = w[i].id /\ r[i].n = w[i].n /\ r[i].method = w[i].method /\ r[i].saw = w[i].saw /\ r[i].sent = w[i].sent
             /\ r[i].tries = w[i].tries /\ r[i].status = w[i].status
             /\ r[i].base = w[i].base \/ (w[i].base # Box!NoBase /\ r[i].base = oRun.got.v)
  BY <1>2, <1>4 DEF Box!Entry
<1>6. Noted(r, f)
  <2>1. Noted(w, f)
    BY <1>2 DEF Prepared
  <2>2. Left(r, oQueue, f)
    BY <1>4, <2>1 DEF Noted, Left
  <2>3. ASSUME NEW i \in DOMAIN w
        PROVE  /\ Keeps(r[i], oQueue[f[i]])
               /\ r[i].base = oQueue[f[i]].base \/ (Box!Answered("applied") /\ oQueue[f[i]].base # Box!NoBase /\ r[i].base = oRun.got.v)
               /\ Box!Failed(r[i]) => Box!Failed(oQueue[f[i]])
    BY <1>2, <1>5 DEF Keeps, Box!Failed, Box!Pending
  <2>4. \A i \in DOMAIN w : r[i].id = w[i].id
    BY <1>5
  <2> QED BY <1>4, <2>1, <2>2, <2>3, <2>4 DEF Noted
<1>7. Prepared(r, Box!Tried, f)
  BY <1>2, <1>4, <1>5, <1>6 DEF Prepared
<1> QED BY <1>7 DEF r, w

\* A note on the entry that was asked, if it is there: it is to be sent again, or failed.
LEMMA AfterNote ==
  ASSUME BoxInv, oRun.st = "answered", ~Leaves,
         NEW q, DOMAIN q = DOMAIN oQueue,
         \A i \in DOMAIN oQueue : IF oQueue[i].id = oRun.ask.id THEN q[i] \in Box!Entry ELSE q[i] = oQueue[i],
         \A i \in DOMAIN oQueue : oQueue[i].id = oRun.ask.id =>
           /\ q[i].id = oQueue[i].id /\ q[i].n = oQueue[i].n /\ q[i].method = oQueue[i].method /\ q[i].saw = oQueue[i].saw
           /\ q[i].sent = oQueue[i].sent /\ q[i].base = oQueue[i].base /\ q[i].tries
           /\ Box!Failed(q[i]) => Box!Failed(oQueue[i]) \/ Box!Answered("conflict") \/ Box!Answered("rejected"),
         q = [i \in DOMAIN oQueue |-> q[i]]
  PROVE  \E f : Prepared(q, Box!Tried, f)
<1> DEFINE f == [i \in DOMAIN oQueue |-> i]
<1>1. oQueue \in Seq(Box!Entry) /\ \A i \in DOMAIN oQueue : oQueue[i] \in Box!Entry /\ oQueue[i] \in Queued
  BY QueueTyped DEF BoxInv
<1>2. q \in Seq(Box!Entry)
  <2>1. \A i \in DOMAIN oQueue : q[i] \in Box!Entry
    BY <1>1
  <2>2. q \in [1 .. Len(oQueue) -> Box!Entry] /\ Len(oQueue) \in Nat
    BY <1>1, <2>1
  <2> QED BY <2>2
<1>3. Left(q, oQueue, f)
  BY DEF Left
<1>4. \A i \in DOMAIN oQueue : f[i] = i
  OBVIOUS
<1> HIDE DEF f
<1>5. ASSUME NEW i \in DOMAIN oQueue
      PROVE  Keeps(q[i], oQueue[i]) /\ q[i].base = oQueue[i].base /\ (q[i].sent => oQueue[i].sent) /\ (Box!Failed(q[i]) => Box!Failed(oQueue[i]) \/ Refused(q[i]))
  <2>1. CASE oQueue[i].id = oRun.ask.id
    BY <2>1 DEF Keeps, Refused
  <2>2. CASE oQueue[i].id # oRun.ask.id
    BY <2>2, KeepsItself
  <2> QED BY <2>1, <2>2
<1>6. Noted(q, f)
  BY <1>2, <1>3, <1>4, <1>5 DEF Noted
<1>7. ASSUME NEW i \in DOMAIN q, q[i].id \in Box!Tried PROVE q[i].tries
  <2>1. CASE oQueue[i].id = oRun.ask.id
    BY <2>1
  <2>2. CASE oQueue[i].id # oRun.ask.id
    <3>1. q[i] = oQueue[i] /\ oQueue[i].id \in oRun.tried
      BY <1>7, <2>2 DEF Box!Tried, Box!Asked
    <3> QED BY <1>1, <3>1 DEF BoxInv, Same
  <2> QED BY <2>1, <2>2
<1>8. ASSUME NEW i \in DOMAIN q, NEW j \in DOMAIN q, i < j, q[j].sent PROVE q[i].tries
  <2>1. oQueue[i].tries
    BY <1>5, <1>8 DEF BoxInv, Ordered
  <2> QED BY <1>5, <1>8, <2>1 DEF Keeps
<1>9. Prepared(q, Box!Tried, f)
  BY <1>4, <1>5, <1>6, <1>7, <1>8 DEF Prepared
<1> QED BY <1>9

LEMMA Handles == ASSUME BoxInv, Box!Handle PROVE \E f : Goes(Box!Tried, f)
<1>1. oQueue \in Seq(Box!Entry) /\ \A i \in DOMAIN oQueue : oQueue[i] \in Box!Entry /\ oQueue[i] \in Queued
  BY QueueTyped DEF BoxInv
<1>2. CASE Box!HandleApplied
  <2>1. Box!Answered("applied") /\ Box!GoOn(Box!Rebased(Box!Without(oQueue, oRun.ask.id), oRun.got.v), Box!Tried)
    BY <1>2 DEF Box!HandleApplied, Box!Asked
  <2> QED BY <2>1, AfterApplied, RunsOn
<1>3. CASE Box!HandleRetry
  <2> DEFINE q == [i \in DOMAIN oQueue |-> IF oQueue[i].id = Box!Asked.id THEN [oQueue[i] EXCEPT !.tries = TRUE] ELSE oQueue[i]]
  <2>1. oRun.st = "answered" /\ ~Leaves /\ Box!GoOn(q, Box!Tried)
    BY <1>3 DEF Box!HandleRetry, Box!Answered, Leaves
  <2>2. \E f : Prepared(q, Box!Tried, f)
    <3>1. \A i \in DOMAIN oQueue : IF oQueue[i].id = oRun.ask.id THEN q[i] = [oQueue[i] EXCEPT !.tries = TRUE] ELSE q[i] = oQueue[i]
      BY DEF Box!Asked
    <3>2. DOMAIN q = DOMAIN oQueue /\ q = [i \in DOMAIN oQueue |-> q[i]]
      OBVIOUS
    <3> HIDE DEF q
    <3>3. \A i \in DOMAIN oQueue : oQueue[i].id = oRun.ask.id =>
           /\ q[i] \in Box!Entry
           /\ q[i].id = oQueue[i].id /\ q[i].n = oQueue[i].n /\ q[i].method = oQueue[i].method /\ q[i].saw = oQueue[i].saw
           /\ q[i].sent = oQueue[i].sent /\ q[i].base = oQueue[i].base /\ q[i].tries
           /\ q[i].status = oQueue[i].status
      BY ZenonT(60), <1>1, <3>1 DEF Box!Entry
    <3>4. \A i \in DOMAIN oQueue : oQueue[i].id = oRun.ask.id => (Box!Failed(q[i]) => Box!Failed(oQueue[i]))
      BY <3>3 DEF Box!Failed, Box!Pending
    <3> QED BY <2>1, <3>1, <3>2, <3>3, <3>4, AfterNote
  <2> QED BY <2>1, <2>2, RunsOn
<1>4. ASSUME NEW c \in BOOLEAN, Box!Refuse(c), Box!Answered("conflict") \/ Box!Answered("rejected") PROVE \E f : Goes(Box!Tried, f)
  <2>0. oRun.st = "answered" /\ ~Box!Answered("applied")
    BY <1>4 DEF Box!Answered
  <2>1. CASE oSaving.id = Box!Asked.id
    <3>1. Box!GoOn(Box!Without(oQueue, oRun.ask.id), Box!Tried)
      BY <1>4, <2>1 DEF Box!Refuse, Box!Asked
    <3>2. Leaves
      BY <1>4, <2>1 DEF Leaves, Box!Asked
    <3> QED BY <3>1, <3>2, AfterDrop, RunsOn
  <2>2. CASE oSaving.id # Box!Asked.id
    <3> DEFINE q == [i \in DOMAIN oQueue |-> IF oQueue[i].id # Box!Asked.id THEN oQueue[i]
                        ELSE [oQueue[i] EXCEPT !.status = "failed", !.tries = TRUE, !.conflict = c]]
    <3>1. Box!GoOn(q, Box!Tried)
      BY <1>4, <2>2 DEF Box!Refuse
    <3>2. \E f : Prepared(q, Box!Tried, f)
      <4>1. \A i \in DOMAIN oQueue : IF oQueue[i].id = oRun.ask.id
                 THEN q[i] = [oQueue[i] EXCEPT !.status = "failed", !.tries = TRUE, !.conflict = c] ELSE q[i] = oQueue[i]
        BY DEF Box!Asked
      <4>2. DOMAIN q = DOMAIN oQueue /\ q = [i \in DOMAIN oQueue |-> q[i]]
        OBVIOUS
      <4> HIDE DEF q
      <4>3. \A i \in DOMAIN oQueue : oQueue[i].id = oRun.ask.id =>
             /\ q[i] \in Box!Entry
             /\ q[i].id = oQueue[i].id /\ q[i].n = oQueue[i].n /\ q[i].method = oQueue[i].method /\ q[i].saw = oQueue[i].saw
             /\ q[i].sent = oQueue[i].sent /\ q[i].base = oQueue[i].base /\ q[i].tries
        BY ZenonT(60), <1>1, <4>1 DEF Box!Entry
      <4>4. ~Leaves
        BY <2>0, <2>2 DEF Leaves, Box!Asked
      <4> QED BY <1>4, <2>0, <4>1, <4>2, <4>3, <4>4, AfterNote
    <3> QED BY <3>1, <3>2, RunsOn
  <2> QED BY <2>1, <2>2
<1>5. CASE Box!HandleConflict
  BY <1>4, <1>5 DEF Box!HandleConflict
<1>6. CASE Box!HandleRejected
  BY <1>4, <1>6 DEF Box!HandleRejected
<1> QED BY <1>2, <1>3, <1>5, <1>6 DEF Box!Handle

\* The entry e of the queue that was o
Came(e, o) ==
  /\ Keeps(e, o)
  /\ e.base = o.base \/ (Box!Answered("applied") /\ o.base # Box!NoBase /\ e.base = oRun.got.v)
  /\ Box!Failed(e) => Box!Failed(o) \/ Refused(e)
  /\ e.sent => o.sent \/ (oRun'.st = "asked" /\ oRun'.ask = e)

\* What a run that starts or goes on does to the queue, and all it leaves alone
GoesBy ==
  /\ \A e \in Queued' : \E o \in Queued : Came(e, o)
  /\ \A o \in Queued : (\E e \in Queued' : Came(e, o)) \/ (Leaves /\ o.id = oRun.ask.id)
  /\ Leaves => \A e \in Queued' : e.id # oRun.ask.id
  /\ Distinct(oQueue') /\ \A e, o \in Queued' : e.id = o.id => e = o
  /\ \A i, j \in DOMAIN oQueue' : i < j => /\ oQueue'[i].n < oQueue'[j].n \/ oQueue'[j].n \in oOvertaken
                                           /\ oQueue'[j].sent => oQueue'[i].tries
  /\ oRun'.st \in {"asked", "pull"} /\ oRun'.got = Box!NoRes /\ oRun'.tried \subseteq 1 .. oNextId - 1
  /\ oRun'.st = "asked" => oRun'.ask \in Queued' /\ oRun'.ask.sent /\ \A e \in Queued' : e.id \in oRun'.tried => e.tries
  /\ UNCHANGED <<oDoc, oAnswers, oLate, oReached, oNextId, oMade, oDiscarded, oRevived, oOvertaken>>

LEMMA Gone_ ==
  ASSUME BoxInv, NEW tried, NEW f, Goes(tried, f), tried \subseteq 1 .. oNextId - 1,
         UNCHANGED <<oDoc, oAnswers, oLate, oReached, oNextId, oMade, oDiscarded, oRevived, oOvertaken>>
  PROVE  GoesBy
<1>1. oQueue \in Seq(Box!Entry) /\ \A i \in DOMAIN oQueue : oQueue[i] \in Box!Entry /\ oQueue[i] \in Queued
  BY QueueTyped DEF BoxInv
<1>2. Noted(oQueue', f)
  BY DEF Goes
<1>3. f \in [DOMAIN oQueue' -> DOMAIN oQueue] /\ \A i, j \in DOMAIN oQueue' : i < j => f[i] < f[j]
  BY <1>2 DEF Noted, Left
<1>4. ASSUME NEW i \in DOMAIN oQueue' PROVE Came(oQueue'[i], oQueue[f[i]])
  BY <1>2 DEF Noted, Came, Goes
<1>5. \A e : e \in Queued' <=> \E i \in DOMAIN oQueue' : e = oQueue'[i]
  BY DEF Queued, Box!Range
<1>6. \A e \in Queued' : \E o \in Queued : Came(e, o)
  BY <1>1, <1>3, <1>4, <1>5
<1>7. ASSUME NEW o \in Queued PROVE (\E e \in Queued' : Came(e, o)) \/ (Leaves /\ o.id = oRun.ask.id)
  <2>1. PICK j \in DOMAIN oQueue : o = oQueue[j]
    BY DEF Queued, Box!Range
  <2>2. (\E i \in DOMAIN oQueue' : f[i] = j) \/ (Leaves /\ o.id = oRun.ask.id)
    BY <1>2, <2>1 DEF Noted
  <2> QED BY <1>4, <1>5, <2>1, <2>2
<1>8. Leaves => \A e \in Queued' : e.id # oRun.ask.id
  BY <1>2, <1>5 DEF Noted
<1>9. DOMAIN oQueue' \subseteq Nat /\ DOMAIN oQueue \subseteq Nat
  <2>1. oQueue' \in Seq(Box!Entry)
    BY <1>2 DEF Noted
  <2> QED BY <1>1, <2>1
<1>10. Distinct(oQueue')
  <2> SUFFICES ASSUME NEW i \in DOMAIN oQueue', NEW j \in DOMAIN oQueue', oQueue'[i].id = oQueue'[j].id PROVE i = j
    BY DEF Distinct
  <2>1. oQueue[f[i]].id = oQueue[f[j]].id
    BY <1>4 DEF Came, Keeps
  <2>2. f[i] = f[j]
    BY <1>3, <2>1 DEF BoxInv, Numbers, Distinct
  <2> QED BY <1>3, <1>9, <2>2
<1>11. \A e, o \in Queued' : e.id = o.id => e = o
  BY <1>5, <1>10 DEF Distinct
<1>12. ASSUME NEW i \in DOMAIN oQueue', NEW j \in DOMAIN oQueue', i < j
       PROVE  /\ oQueue'[i].n < oQueue'[j].n \/ oQueue'[j].n \in oOvertaken
              /\ oQueue'[j].sent => oQueue'[i].tries
  <2>1. f[i] \in DOMAIN oQueue /\ f[j] \in DOMAIN oQueue /\ f[i] < f[j]
    BY <1>3, <1>12
  <2>2. oQueue[f[i]].n < oQueue[f[j]].n \/ oQueue[f[j]].n \in oOvertaken
    BY <2>1 DEF BoxInv, Ordered
  <2>3. oQueue'[i].n = oQueue[f[i]].n /\ oQueue'[j].n = oQueue[f[j]].n
    BY <1>4 DEF Came, Keeps
  <2>4. oQueue'[j].sent => oQueue'[i].tries
    BY <1>12 DEF Goes
  <2> QED BY <2>2, <2>3, <2>4
<1>13. oRun'.st \in {"asked", "pull"} /\ oRun'.got = Box!NoRes /\ oRun'.tried \subseteq 1 .. oNextId - 1
  BY DEF Goes
<1>14. oRun'.st = "asked" => oRun'.ask \in Queued' /\ oRun'.ask.sent /\ \A e \in Queued' : e.id \in oRun'.tried => e.tries
  <2> SUFFICES ASSUME oRun'.st = "asked" PROVE oRun'.ask \in Queued' /\ oRun'.ask.sent /\ \A e \in Queued' : e.id \in oRun'.tried => e.tries
    OBVIOUS
  <2>1. oRun'.ask \in Queued' /\ oRun'.ask.sent
    BY <1>5 DEF Goes
  <2>2. \A e \in Queued' : e.id \in oRun'.tried => e.tries
    BY <1>5 DEF Goes
  <2> QED BY <2>1, <2>2
<1> QED BY <1>6, <1>7, <1>8, <1>10, <1>11, <1>12, <1>13, <1>14 DEF GoesBy

LEMMA StartsBy == ASSUME BoxInv, Box!StartRun PROVE GoesBy
<1>1. UNCHANGED <<oDoc, oAnswers, oLate, oReached, oNextId, oMade, oDiscarded, oRevived, oOvertaken>>
  BY DEF Box!StartRun, Box!server, Box!saves
<1> QED BY <1>1, Starts, Gone_

LEMMA HandlesBy == ASSUME BoxInv, Box!Handle PROVE GoesBy
<1>1. UNCHANGED <<oDoc, oAnswers, oLate, oReached, oNextId, oMade, oDiscarded, oRevived, oOvertaken>>
  BY DEF Box!Handle, Box!HandleApplied, Box!HandleRetry, Box!HandleConflict, Box!HandleRejected, Box!server, Box!saves
<1>2. oRun.ask \in Copies /\ oRun.tried \subseteq 1 .. oNextId - 1
  BY DEF BoxInv, Numbers, Copies, Out, Asks, Box!Handle, Box!HandleApplied, Box!HandleRetry, Box!HandleConflict, Box!HandleRejected, Box!Answered
<1>3. oRun.ask.id \in 1 .. oNextId - 1
  <2>1. oRun.ask.id \in Nat /\ oNextId \in Nat
    BY DEF BoxInv, Box!TypeOK, Box!Entry
  <2> QED BY <1>2, <2>1 DEF BoxInv, Numbers
<1>4. Box!Tried \subseteq 1 .. oNextId - 1
  BY <1>2, <1>3 DEF Box!Tried, Box!Asked
<1> QED BY <1>1, <1>4, Handles, Gone_

Kin(e, o) ==
  /\ e.id = o.id /\ e.n = o.n /\ e.method = o.method /\ e.saw = o.saw
  /\ e.base = o.base \/ (Box!Answered("applied") /\ o.base # Box!NoBase /\ e.base = oRun.got.v)

LEMMA CopiesTyped == ASSUME Box!TypeOK PROVE Copies \subseteq Box!Entry
BY QueueTyped DEF Box!TypeOK, Copies, Queued, Out, Asks, Box!Range

LEMMA Back ==
  ASSUME BoxInv, GoesBy
  PROVE  /\ \A e \in Out' : e \in oLate \/ (e \in Queued' /\ e.sent)
         /\ \A e \in Queued' : \E o \in Queued : Came(e, o) /\ Kin(e, o)
         /\ \A e \in Copies' : \E o \in Copies : Kin(e, o) /\ (e \in Queued' => o \in Queued)
         /\ oLate \subseteq Out /\ Out \subseteq Copies /\ Queued \subseteq Copies
<1>1. \A e \in Out' : e \in oLate \/ (e \in Queued' /\ e.sent)
  BY DEF Out, Asks, GoesBy
<1>2. \A e \in Queued' : \E o \in Queued : Came(e, o) /\ Kin(e, o)
  BY DEF GoesBy, Came, Kin, Keeps
<1>3. oLate \subseteq Out /\ Out \subseteq Copies /\ Queued \subseteq Copies
  BY DEF Out, Copies
<1>4. \A e : Kin(e, e)
  BY DEF Kin
<1>5. \A e \in Copies' : \E o \in Copies : Kin(e, o) /\ (e \in Queued' => o \in Queued)
  <2> SUFFICES ASSUME NEW e \in Copies' PROVE \E o \in Copies : Kin(e, o) /\ (e \in Queued' => o \in Queued)
    OBVIOUS
  <2>1. CASE e \in Queued'
    BY <1>2, <1>3, <2>1
  <2>2. CASE e \notin Queued'
    BY <1>1, <1>3, <1>4, <2>2 DEF Copies
  <2> QED BY <2>1, <2>2
<1> QED BY <1>1, <1>2, <1>3, <1>5

\* The entry that was asked is a copy the server has answered, if it has.
LEMMA AskedIs ==
  ASSUME BoxInv, oRun.st = "answered"
  PROVE  /\ oRun.ask \in Out /\ oRun.ask \in Copies /\ oRun.ask.id >= 1 /\ oRun.ask.n >= 1 /\ oRun.ask.n <= oMade /\ oMade # 0
         /\ ~Box!Answered("retry") => oRun.ask.id \in Done /\ oRun.got = oAnswers[oRun.ask.id]
<1>1. oRun.ask \in Out /\ oRun.ask \in Copies
  BY DEF Out, Asks, Copies
<1>2. oMade \in Nat /\ oRun.ask.n \in Nat
  BY DEF BoxInv, Box!TypeOK, Box!Entry
<1>3. oRun.ask.id >= 1 /\ oRun.ask.n >= 1 /\ oRun.ask.n <= oMade
  BY <1>1 DEF BoxInv, Numbers
<1>4. ~Box!Answered("retry") => oRun.ask.id \in Done /\ oRun.got = oAnswers[oRun.ask.id]
  BY DEF BoxInv, Same, Box!Answered
<1> QED BY <1>1, <1>2, <1>3, <1>4

\* What the person is told, and what becomes of the save
LEMMA ToldOf ==
  ASSUME BoxInv, Box!StartRun \/ Box!Handle
  PROVE  \/ UNCHANGED <<oSaving, oOutcome>>
         \/ /\ oRun.st = "answered" /\ oSaving.id = oRun.ask.id /\ oSaving # Box!NotSaving /\ oSaving' = Box!NotSaving /\ Leaves
            /\ \/ Box!Answered("applied") /\ oOutcome' = [oOutcome EXCEPT ![oSaving.n] = "saved"]
               \/ (Box!Answered("conflict") \/ Box!Answered("rejected")) /\ oOutcome' = [oOutcome EXCEPT ![oSaving.n] = "refused"]
<1>1. CASE Box!StartRun
  BY <1>1 DEF Box!StartRun, Box!saves
<1>2. CASE Box!Handle
  <2>1. oRun.st = "answered"
    BY <1>2 DEF Box!Handle, Box!HandleApplied, Box!HandleRetry, Box!HandleConflict, Box!HandleRejected, Box!Answered
  <2>2. oSaving.id = oRun.ask.id => oSaving # Box!NotSaving
    BY <2>1, AskedIs DEF Box!NotSaving
  <2>3. CASE Box!HandleRetry
    BY <2>3 DEF Box!HandleRetry, Box!saves
  <2>4. CASE Box!HandleApplied
    BY <2>1, <2>2, <2>4 DEF Box!HandleApplied, Box!Told, Box!Asked, Leaves
  <2>5. CASE Box!HandleConflict \/ Box!HandleRejected
    BY <2>1, <2>2, <2>5 DEF Box!HandleConflict, Box!HandleRejected, Box!Told, Box!Asked, Leaves
  <2> QED BY <1>2, <2>3, <2>4, <2>5 DEF Box!Handle
<1> QED BY <1>1, <1>2

\* And what the device shows and knows
LEMMA ShownOf ==
  ASSUME BoxInv, Box!StartRun \/ Box!Handle
  PROVE  \/ oKnown' = oKnown /\ (UNCHANGED Box!screen \/ Box!Shows(oSaving.before, oSaving.shown))
         \/ /\ Box!Answered("applied") \/ Box!Answered("conflict")
            /\ oKnown' = oRun.got.v /\ (Box!Applied \/ (UNCHANGED Box!screen /\ Box!Answered("applied")))
<1>1. CASE Box!StartRun
  BY <1>1 DEF Box!StartRun, Box!screen
<1>2. CASE Box!HandleRetry
  BY <1>2 DEF Box!HandleRetry
<1>3. CASE Box!HandleApplied
  <2>1. Box!Answered("applied") /\ oKnown' = oRun.got.v
    BY <1>3 DEF Box!HandleApplied
  <2>2. UNCHANGED Box!screen \/ Box!Applied
    BY <1>3, Zenon DEF Box!HandleApplied
  <2> QED BY <2>1, <2>2
<1>4. CASE Box!HandleConflict
  BY <1>4 DEF Box!HandleConflict
<1>5. CASE Box!HandleRejected
  BY <1>5 DEF Box!HandleRejected
<1> QED BY <1>1, <1>2, <1>3, <1>4, <1>5 DEF Box!Handle

\* An entry that was made against a version stays one.
LEMMA KinBase == ASSUME BoxInv, NEW e, NEW o, Kin(e, o) PROVE e.base = Box!NoBase <=> o.base = Box!NoBase
<1>1. ASSUME Box!Answered("applied") PROVE oRun.got.v # Box!NoBase
  <2>1. oRun.st = "answered" /\ oRun.got.is = "applied" /\ oRun.ask.id \in Done /\ oRun.got = oAnswers[oRun.ask.id]
    BY <1>1, AskedIs DEF Box!Answered
  <2>2. oRun.got.v >= 1
    BY <2>1 DEF BoxInv, Versions
  <2> QED BY <2>2 DEF Box!NoBase
<1> QED BY <1>1 DEF Kin

LEMMA GoNumbers == ASSUME BoxInv, Box!TypeOK', GoesBy, Box!StartRun \/ Box!Handle PROVE Numbers'
<1>1. oMade' = oMade /\ oNextId' = oNextId /\ oReached' = oReached /\ Done' = Done /\ oDoc' = oDoc
  BY DEF GoesBy, Done
<1>2. \A e \in Copies' : e.id >= 1 /\ e.id < oNextId' /\ e.n >= 1 /\ e.n <= oMade' /\ (e.method = "POST" => e.base = Box!NoBase)
  <2> SUFFICES ASSUME NEW e \in Copies' PROVE e.id >= 1 /\ e.id < oNextId /\ e.n >= 1 /\ e.n <= oMade /\ (e.method = "POST" => e.base = Box!NoBase)
    BY <1>1
  <2>1. PICK o \in Copies : Kin(e, o)
    BY Back
  <2> QED BY <2>1 DEF Kin, BoxInv, Numbers
<1>3. oMade' = 0 /\ oKnown' = 0 => oDoc'.v = 0
  <2>1. CASE oMade = 0
    <3>1. oRun.st # "answered"
      BY <2>1, AskedIs
    <3>2. oKnown' = oKnown
      BY <3>1, ShownOf DEF Box!Answered
    <3> QED BY <1>1, <3>2 DEF BoxInv, Numbers
  <2> QED BY <1>1, <2>1
<1>4. \A n \in Box!Edits : n > oMade' => oOutcome'[n] = "none"
  <2>1. \A n \in Box!Edits : n > oMade => oOutcome[n] = "none"
    BY DEF BoxInv, Numbers
  <2>2. CASE UNCHANGED <<oSaving, oOutcome>>
    BY <1>1, <2>1, <2>2
  <2>3. CASE oSaving # Box!NotSaving /\ (oOutcome' = [oOutcome EXCEPT ![oSaving.n] = "saved"] \/ oOutcome' = [oOutcome EXCEPT ![oSaving.n] = "refused"])
    <3>1. PICK e \in Queued : e.id = oSaving.id /\ e.n = oSaving.n
      BY <2>3 DEF BoxInv, Waiting
    <3>2. e.n <= oMade /\ e.n \in Nat /\ oMade \in Nat
      BY <3>1, CopiesTyped DEF BoxInv, Numbers, Copies, Box!TypeOK, Box!Entry
    <3>3. \A n \in Box!Edits : n > oMade => n # oSaving.n
      BY <3>1, <3>2 DEF Box!Edits
    <3> QED BY <1>1, <2>1, <2>3, <3>3 DEF BoxInv, Box!TypeOK
  <2> QED BY <2>2, <2>3, ToldOf
<1>5. Distinct(oQueue') /\ oRun'.tried \subseteq 1 .. oNextId' - 1
  BY <1>1 DEF GoesBy
<1> QED BY <1>1, <1>2, <1>3, <1>4, <1>5 DEF Numbers, BoxInv

LEMMA GoSame == ASSUME BoxInv, Box!TypeOK', GoesBy, Box!StartRun \/ Box!Handle PROVE Same'
<1>1. Done' = Done /\ oAnswers' = oAnswers
  BY DEF GoesBy, Done
<1>2. ASSUME NEW e \in Queued', ~e.sent PROVE e.id \notin Done /\ \A o \in Out' : o.id # e.id
  <2>1. PICK x \in Queued : Came(e, x)
    BY Back
  <2>2. ~x.sent /\ e.id = x.id
    BY <1>2, <2>1 DEF Came, Keeps
  <2>3. x.id \notin Done /\ \A o \in Out : o.id # x.id
    BY <2>2 DEF BoxInv, Same
  <2>4. ASSUME NEW o \in Out' PROVE o.id # e.id
    <3>1. CASE o \in oLate
      BY <2>2, <2>3, <3>1, Back
    <3>2. CASE o \in Queued' /\ o.sent
      BY <1>2, <3>2 DEF GoesBy
    <3> QED BY <3>1, <3>2, Back
  <2> QED BY <2>2, <2>3, <2>4
<1>3. ASSUME NEW e \in Copies', NEW o \in Out', e.id = o.id PROVE e.n = o.n /\ e.method = o.method /\ e.saw = o.saw /\ (e.base = Box!NoBase <=> o.base = Box!NoBase)
  <2>1. PICK x \in Copies : Kin(e, x) /\ (e \in Queued' => x \in Queued)
    BY Back
  <2>2. CASE o \in oLate
    <3>1. x.n = o.n /\ x.method = o.method /\ x.saw = o.saw /\ (x.base = Box!NoBase <=> o.base = Box!NoBase)
      <4>1. x.id = o.id /\ o \in Out
        BY <1>3, <2>1, <2>2, Back DEF Kin
      <4> QED BY <2>1, <4>1 DEF BoxInv, Same
    <3> QED BY <2>1, <3>1, KinBase DEF Kin
  <2>3. CASE o \in Queued' /\ e \in Queued'
    BY <1>3, <2>3 DEF GoesBy
  <2>4. CASE o \in Queued' /\ e \in oLate
    <3>1. PICK y \in Queued : Kin(o, y)
      BY <2>4, Back
    <3>2. y.n = e.n /\ y.method = e.method /\ y.saw = e.saw /\ (y.base = Box!NoBase <=> e.base = Box!NoBase)
      BY <1>3, <2>4, <3>1, Back DEF BoxInv, Same, Kin
    <3> QED BY <3>1, <3>2, KinBase DEF Kin
  <2>5. e \in oLate \/ e \in Queued'
    BY Back DEF Copies
  <2> QED BY <2>2, <2>3, <2>4, <2>5, Back
<1>4. ASSUME NEW e \in Queued', Box!Failed(e) PROVE e.id \in Done /\ oAnswers[e.id].is # "applied" /\ e.tries
  <2>1. PICK x \in Queued : Came(e, x)
    BY Back
  <2>2. CASE Box!Failed(x)
    BY <2>1, <2>2 DEF Came, Keeps, BoxInv, Same
  <2>3. CASE Refused(e)
    <3>1. oRun.st = "answered" /\ ~Box!Answered("retry") /\ ~Box!Answered("applied") /\ e.id = oRun.ask.id /\ e.tries
      BY <2>3 DEF Refused, Box!Answered
    <3> QED BY <3>1, AskedIs DEF Box!Answered
  <2> QED BY <1>4, <2>1, <2>2, <2>3 DEF Came
<1>5. oRun'.st # "answered"
  BY DEF GoesBy
<1>6. oRun'.st \in {"asked", "answered"} => \A e \in Queued' : e.id \in oRun'.tried => e.tries
  BY <1>5 DEF GoesBy
<1> QED BY <1>1, <1>2, <1>3, <1>4, <1>5, <1>6 DEF Same

LEMMA GoWaiting == ASSUME BoxInv, Box!TypeOK', GoesBy, Box!StartRun \/ Box!Handle PROVE Waiting'
<1> SUFFICES ASSUME oSaving' # Box!NotSaving
             PROVE  /\ oSaving'.n \in Box!Edits /\ oOutcome'[oSaving'.n] = "none"
                    /\ \E e \in Queued' : e.id = oSaving'.id /\ e.n = oSaving'.n /\ Box!Pending(e)
                    /\ \A e \in Copies' : e.n = oSaving'.n => e.id = oSaving'.id
                    /\ oSaving'.n \in oReached' => oSaving'.id \in Done' /\ oAnswers'[oSaving'.id].is = "applied"
  BY DEF Waiting, Box!NotSaving
<1>1. oSaving' = oSaving /\ oOutcome' = oOutcome /\ oReached' = oReached /\ oAnswers' = oAnswers /\ Done' = Done
  BY ToldOf DEF GoesBy, Done
<1>2. /\ oSaving.n \in Box!Edits /\ oOutcome[oSaving.n] = "none"
      /\ \A e \in Copies : e.n = oSaving.n => e.id = oSaving.id
      /\ oSaving.n \in oReached => oSaving.id \in Done /\ oAnswers[oSaving.id].is = "applied"
  BY <1>1 DEF BoxInv, Waiting
<1>3. PICK o \in Queued : o.id = oSaving.id /\ o.n = oSaving.n /\ Box!Pending(o)
  BY <1>1 DEF BoxInv, Waiting
<1>4. oSaving.id = oRun.ask.id => ~Box!Answered("applied") /\ ~Box!Answered("conflict") /\ ~Box!Answered("rejected")
  <2> SUFFICES ASSUME oSaving.id = oRun.ask.id, Box!Answered("applied") \/ Box!Answered("conflict") \/ Box!Answered("rejected") PROVE FALSE
    OBVIOUS
  <2>1. Box!Handle
    BY DEF Box!StartRun, Box!Answered, Box!Idle
  <2>2. Box!HandleApplied \/ Box!HandleConflict \/ Box!HandleRejected
    BY <2>1 DEF Box!Handle, Box!HandleRetry, Box!Answered
  <2>3. oSaving' = Box!NotSaving
    BY <2>2 DEF Box!HandleApplied, Box!HandleConflict, Box!HandleRejected, Box!Told, Box!Asked
  <2> QED BY <2>3
<1>5. ~(Leaves /\ o.id = oRun.ask.id)
  BY <1>3, <1>4 DEF Leaves
<1>6. PICK e \in Queued' : Came(e, o)
  BY <1>5 DEF GoesBy
<1>7. Box!Pending(e)
  BY <1>3, <1>4, <1>6 DEF Came, Keeps, Refused, Box!Failed
<1>8. \A x \in Copies' : x.n = oSaving.n => x.id = oSaving.id
  BY <1>2, Back DEF Kin
<1>9. e.id = oSaving.id /\ e.n = oSaving.n
  BY <1>3, <1>6 DEF Came, Keeps
<1> QED BY <1>1, <1>2, <1>7, <1>8, <1>9

LEMMA GoNothing == ASSUME BoxInv, Box!TypeOK', GoesBy, Box!StartRun \/ Box!Handle PROVE NothingBack'
<1> SUFFICES ASSUME NEW n \in Box!Edits, oOutcome'[n] \in {"refused", "unreachable"}
             PROVE  n \notin oReached /\ (\A e \in Queued' : e.n # n) /\ \A e \in Out' : e.n = n => e.id \in Done
  BY DEF NothingBack, GoesBy, Done
<1>1. CASE oOutcome[n] \in {"refused", "unreachable"}
  <2>1. n \notin oReached /\ (\A e \in Queued : e.n # n) /\ \A e \in Out : e.n = n => e.id \in Done
    BY <1>1 DEF BoxInv, NothingBack
  <2>2. \A e \in Queued' : e.n # n
    BY <2>1, Back DEF Kin
  <2> QED BY <2>1, <2>2, Back
<1>2. CASE oOutcome[n] \notin {"refused", "unreachable"}
  <2>1. /\ oRun.st = "answered" /\ oSaving.id = oRun.ask.id /\ oSaving # Box!NotSaving /\ Leaves
        /\ Box!Answered("conflict") \/ Box!Answered("rejected")
        /\ oOutcome' = [oOutcome EXCEPT ![oSaving.n] = "refused"]
    <3>1. ~UNCHANGED <<oSaving, oOutcome>>
      BY <1>2
    <3>2. oOutcome' # [oOutcome EXCEPT ![oSaving.n] = "saved"]
      BY <1>2 DEF BoxInv, Box!TypeOK
    <3> QED BY <3>1, <3>2, ToldOf
  <2>2. n = oSaving.n
    BY <1>2, <2>1 DEF BoxInv, Box!TypeOK
  <2>3. oRun.ask.id \in Done /\ oAnswers[oRun.ask.id].is # "applied"
    <3>1. ~Box!Answered("retry") /\ oRun.got.is # "applied"
      BY <2>1 DEF Box!Answered
    <3> QED BY <2>1, <3>1, AskedIs
  <2>4. /\ \A e \in Copies : e.n = n => e.id = oRun.ask.id
        /\ n \notin oReached
    BY <2>1, <2>2, <2>3 DEF BoxInv, Waiting
  <2>5. \A e \in Queued' : e.id # oRun.ask.id
    BY <2>1 DEF GoesBy
  <2>6. \A e \in Copies' : e.n = n => e.id = oRun.ask.id
    BY <2>4, Back DEF Kin
  <2>7. \A e \in Queued' \cup Out' : e \in Copies'
    BY DEF Copies
  <2> QED BY <2>3, <2>4, <2>5, <2>6, <2>7
<1> QED BY <1>1, <1>2

LEMMA GoKept == ASSUME BoxInv, Box!TypeOK', GoesBy, Box!StartRun \/ Box!Handle PROVE Kept'
<1> SUFFICES ASSUME oRevived = 0, NEW n \in Box!Edits, oOutcome'[n] \in {"queued", "folded"}
             PROVE  (\E e \in Queued' : e.id # oSaving'.id /\ e.n >= n) \/ \E k \in oReached \cup oDiscarded : k >= n
  BY DEF Kept, GoesBy
<1>1. oOutcome[n] \in {"queued", "folded"}
  BY ToldOf DEF BoxInv, Box!TypeOK
<1>2. CASE \E k \in oReached \cup oDiscarded : k >= n
  BY <1>2
<1>3. CASE \E o \in Queued : o.id # oSaving.id /\ o.n >= n
  <2>1. PICK o \in Queued : o.id # oSaving.id /\ o.n >= n
    BY <1>3
  <2>2. CASE Leaves /\ o.id = oRun.ask.id
    <3>1. Box!Answered("applied")
      BY <2>1, <2>2 DEF Leaves
    <3>2. o.id \in Done /\ oAnswers[o.id].is = "applied"
      BY <2>2, <3>1, AskedIs DEF Box!Answered
    <3>3. o.n \in oReached
      BY <3>2 DEF BoxInv, Creates, Copies
    <3> QED BY <2>1, <3>3
  <2>3. CASE ~(Leaves /\ o.id = oRun.ask.id)
    <3>1. PICK e \in Queued' : Came(e, o)
      BY <2>3 DEF GoesBy
    <3>2. e.id = o.id /\ e.n = o.n
      BY <3>1 DEF Came, Keeps
    <3>3. oSaving'.id \in {oSaving.id, 0} /\ o.id >= 1
      BY ToldOf DEF Box!NotSaving, BoxInv, Numbers, Copies
    <3> QED BY <2>1, <3>1, <3>2, <3>3
  <2> QED BY <2>2, <2>3
<1> QED BY <1>1, <1>2, <1>3 DEF BoxInv, Kept

LEMMA GoCreates == ASSUME BoxInv, Box!TypeOK', GoesBy, Box!StartRun \/ Box!Handle PROVE Creates'
<1>1. Done' = Done /\ oAnswers' = oAnswers /\ oDoc' = oDoc /\ oReached' = oReached /\ oRevived' = oRevived
  BY DEF GoesBy, Done
<1> SUFFICES ASSUME oRevived = 0 PROVE Creates'
  BY <1>1 DEF Creates
<1>2. /\ \A e, o \in Queued : e.method = "POST" /\ o.method = "POST" => e.id = o.id
      /\ \A e, o \in Copies : e.method = "POST" /\ o.method = "POST" /\ o.id \notin Done =>
           oDoc.v = 0 /\ (e \in Queued \/ e.id \notin Done => e.id = o.id)
      /\ \A e \in Queued : e.method = "POST" /\ e.id \in Done /\ oAnswers[e.id].is # "applied" => oDoc.v = 0
      /\ \A e \in Copies : e.id \in Done /\ oAnswers[e.id].is = "applied" => e.n \in oReached
      /\ \A i \in Done : oAnswers[i].is = "applied" => oAnswers[i].body \in MyBodies
  BY DEF BoxInv, Creates
<1>3. \A e \in Queued' : \E o \in Queued : e.id = o.id /\ e.method = o.method
  BY Back DEF Kin
<1>4. \A e \in Copies' : \E o \in Copies : e.id = o.id /\ e.method = o.method /\ e.n = o.n /\ (e \in Queued' => o \in Queued)
  BY Back DEF Kin
<1>5. \A e, o \in Queued' : e.method = "POST" /\ o.method = "POST" => e.id = o.id
  BY <1>2, <1>3
<1>6. \A e, o \in Copies' : e.method = "POST" /\ o.method = "POST" /\ o.id \notin Done =>
           oDoc.v = 0 /\ (e \in Queued' \/ e.id \notin Done => e.id = o.id)
  <2> SUFFICES ASSUME NEW e \in Copies', NEW o \in Copies', e.method = "POST", o.method = "POST", o.id \notin Done
               PROVE  oDoc.v = 0 /\ (e \in Queued' \/ e.id \notin Done => e.id = o.id)
    OBVIOUS
  <2>1. PICK x \in Copies : e.id = x.id /\ e.method = x.method /\ (e \in Queued' => x \in Queued)
    BY <1>4
  <2>2. PICK y \in Copies : o.id = y.id /\ o.method = y.method
    BY <1>4
  <2> QED BY <1>2, <2>1, <2>2
<1>7. \A e \in Queued' : e.method = "POST" /\ e.id \in Done /\ oAnswers[e.id].is # "applied" => oDoc.v = 0
  BY <1>2, <1>3
<1>8. \A e \in Copies' : e.id \in Done /\ oAnswers[e.id].is = "applied" => e.n \in oReached
  BY <1>2, <1>4
<1> QED BY <1>1, <1>2, <1>5, <1>6, <1>7, <1>8 DEF Creates

LEMMA GoVersions == ASSUME BoxInv, Box!TypeOK', GoesBy, Box!StartRun \/ Box!Handle PROVE Versions'
<1>1. Done' = Done /\ oAnswers' = oAnswers /\ oDoc' = oDoc
  BY DEF GoesBy, Done
<1>2. /\ {oKnown, oShown, oSaving.shown, oRun.got.v} \subseteq 0 .. oDoc.v
      /\ \A e \in Copies : e.base <= oDoc.v
      /\ \A i \in Done : /\ oAnswers[i].v <= oDoc.v /\ (oAnswers[i].v = oDoc.v => oAnswers[i].body = oDoc.body)
                         /\ oAnswers[i].is # "retry" /\ (oAnswers[i].is # "rejected" => oAnswers[i].v >= 1)
  BY DEF BoxInv, Versions
<1>3. oKnown' \in {oKnown, oRun.got.v}
  BY ShownOf
<1>4. oShown' \in {oShown, oRun.got.v, oSaving.shown}
  BY ShownOf DEF Box!Shows, Box!Applied, Box!screen
<1>5. oSaving'.shown \in {oSaving.shown, 0}
  BY ToldOf DEF Box!NotSaving
<1>6. oRun'.got.v = 0 /\ oRun'.st \notin {"answered", "pulled"}
  BY DEF GoesBy, Box!NoRes
<1>7. \A e \in Copies' : e.base <= oDoc.v
  <2> SUFFICES ASSUME NEW e \in Copies' PROVE e.base <= oDoc.v
    OBVIOUS
  <2>1. PICK o \in Copies : Kin(e, o)
    BY Back
  <2>2. e.base = o.base \/ e.base = oRun.got.v
    BY <2>1 DEF Kin
  <2> QED BY <1>2, <2>2
<1>8. oDoc.v \in Nat
  BY DEF BoxInv, Box!TypeOK
<1> QED BY <1>1, <1>2, <1>3, <1>4, <1>5, <1>6, <1>7, <1>8 DEF Versions

LEMMA GoBases == ASSUME BoxInv, Box!TypeOK', GoesBy, Box!StartRun \/ Box!Handle PROVE Bases'
<1>1. oDoc' = oDoc /\ oRevived' = oRevived
  BY DEF GoesBy
<1>2. oShown \in Nat /\ oShown' \in Nat /\ oDoc.v \in Nat /\ oRun.got.v \in Nat /\ oKnown \in Nat /\ oSaving.shown \in Nat
  BY DEF BoxInv, Box!TypeOK, Box!Result
<1> SUFFICES ASSUME ~oOlder', oRevived = 0
             PROVE  /\ oKnown' = oDoc.v /\ oShown' < oKnown' => oDoc.body \in MyBodies
                    /\ \A e \in Copies' : e.saw <= oShown' /\ (e.base # Box!NoBase /\ e.base = oDoc.v /\ e.saw < e.base => oDoc.body \in MyBodies)
  BY <1>1 DEF Bases
<1>3. ~oOlder /\ oShown <= oShown'
  <2>1. UNCHANGED Box!screen \/ (\E b, v : Box!Shows(b, v))
    BY ShownOf DEF Box!Applied
  <2>2. CASE UNCHANGED Box!screen
    BY <1>2, <2>2 DEF Box!screen
  <2>3. CASE \E b, v : Box!Shows(b, v)
    <3>1. PICK b, v : Box!Shows(b, v)
      BY <2>3
    <3>2. oOlder' = (oOlder \/ v < oShown) /\ oShown' = v
      BY <3>1 DEF Box!Shows
    <3>3. ~oOlder /\ ~(v < oShown)
      BY <3>2
    <3> QED BY <1>2, <3>2, <3>3
  <2> QED BY <2>1, <2>2, <2>3
<1>4. /\ oKnown = oDoc.v /\ oShown < oKnown => oDoc.body \in MyBodies
      /\ \A e \in Copies : e.saw <= oShown /\ (e.base # Box!NoBase /\ e.base = oDoc.v /\ e.saw < e.base => oDoc.body \in MyBodies)
  BY <1>3 DEF BoxInv, Bases
<1>5. Box!Answered("applied") /\ oRun.got.v = oDoc.v => oDoc.body \in MyBodies
  <2> SUFFICES ASSUME Box!Answered("applied"), oRun.got.v = oDoc.v PROVE oDoc.body \in MyBodies
    OBVIOUS
  <2>1. oRun.st = "answered" /\ oRun.got.is = "applied" /\ oRun.ask.id \in Done /\ oRun.got = oAnswers[oRun.ask.id]
    BY AskedIs DEF Box!Answered
  <2>2. oRun.got.body \in MyBodies
    BY <2>1 DEF BoxInv, Creates
  <2>3. oRun.got.body = oDoc.body
    BY <2>1 DEF BoxInv, Versions
  <2> QED BY <2>2, <2>3
<1>6. oKnown' = oDoc.v /\ oShown' < oKnown' => oDoc.body \in MyBodies
  <2>1. CASE oKnown' = oKnown
    BY <1>2, <1>3, <1>4, <2>1
  <2>2. CASE oKnown' = oRun.got.v /\ Box!Answered("applied")
    BY <1>5, <2>2
  <2>3. CASE oKnown' = oRun.got.v /\ Box!Applied
    BY <1>2, <2>3 DEF Box!Applied, Box!Shows
  <2> QED BY <2>1, <2>2, <2>3, ShownOf
<1>7. ASSUME NEW e \in Copies'
      PROVE  e.saw <= oShown' /\ (e.base # Box!NoBase /\ e.base = oDoc.v /\ e.saw < e.base => oDoc.body \in MyBodies)
  <2>1. PICK o \in Copies : Kin(e, o)
    BY Back
  <2>2. o.saw \in Nat
    BY CopiesTyped DEF BoxInv, Box!Entry
  <2>3. e.saw <= oShown'
    BY <1>2, <1>3, <1>4, <2>1, <2>2 DEF Kin
  <2>4. e.saw = o.saw /\ (e.base = o.base \/ (Box!Answered("applied") /\ e.base = oRun.got.v))
    BY <2>1 DEF Kin
  <2> QED BY <1>4, <1>5, <2>3, <2>4
<1> QED BY <1>6, <1>7

LEMMA GoOrder == ASSUME BoxInv, Box!TypeOK', GoesBy, Box!StartRun \/ Box!Handle PROVE Ordered'
<1>1. Done' = Done /\ oOvertaken' = oOvertaken /\ oReached' = oReached
  BY DEF GoesBy, Done
<1>2. ASSUME NEW q \in Queued', ~q.tries, q.n \notin oOvertaken
      PROVE  /\ \A e \in Out' : e.id \notin Done /\ (\A o \in Queued' : o.id # e.id) => e.n < q.n
             /\ q.id \notin Done => \A k \in oReached : k < q.n
  <2>1. PICK x \in Queued : Came(q, x)
    BY Back
  <2>2. ~x.tries /\ q.n = x.n /\ q.id = x.id
    BY <1>2, <2>1 DEF Came, Keeps
  <2>3. /\ \A e \in Out : e.id \notin Done /\ (\A o \in Queued : o.id # e.id) => e.n < x.n
        /\ x.id \notin Done => \A k \in oReached : k < x.n
    BY <1>2, <2>2 DEF BoxInv, Ordered
  <2>4. ASSUME NEW e \in Out', e.id \notin Done, \A o \in Queued' : o.id # e.id PROVE e.n < q.n
    <3>1. e \in oLate /\ e \in Out
      BY <2>4, Back
    <3>2. ASSUME NEW o \in Queued PROVE o.id # e.id
      <4>1. CASE \E y \in Queued' : Came(y, o)
        BY <2>4, <4>1 DEF Came, Keeps
      <4>2. CASE Leaves /\ o.id = oRun.ask.id
        <5>1. oRun.ask.id \in Done
          BY <4>2, AskedIs DEF Leaves, Box!Answered
        <5> QED BY <2>4, <4>2, <5>1
      <4> QED BY <4>1, <4>2 DEF GoesBy
    <3> QED BY <2>2, <2>3, <2>4, <3>1, <3>2
  <2> QED BY <2>2, <2>3, <2>4
<1>3. \A i, j \in DOMAIN oQueue' : i < j => /\ oQueue'[i].n < oQueue'[j].n \/ oQueue'[j].n \in oOvertaken
                                            /\ oQueue'[j].sent => oQueue'[i].tries
  BY DEF GoesBy
<1> QED BY <1>1, <1>2, <1>3 DEF Ordered
-----------------------------------------------------------------------------
(* Steps that leave the queue alone: the server's, the link's, a pull *)

Ran(e) ==
  /\ e \in Out /\ e.id \notin Done
  /\ Done' = Done \cup {e.id} /\ \A i \in Done : oAnswers'[i] = oAnswers[i]
  /\ \/ /\ oDoc' = [v |-> oDoc.v + 1, body |-> Box!Mine(e.n)] /\ oReached' = oReached \cup {e.n}
        /\ oAnswers'[e.id] = Box!Res("applied", oDoc')
        /\ IF e.method = "POST" THEN oDoc.v = 0 ELSE oDoc.v # 0 /\ e.base \in {Box!NoBase, oDoc.v}
     \/ /\ oDoc' = oDoc /\ oReached' = oReached
        /\ \/ oAnswers'[e.id] = Box!Res("applied", oDoc) /\ e.method = "POST" /\ oDoc.v # 0
           \/ oAnswers'[e.id] = Box!Res("conflict", oDoc) /\ oDoc.v # 0
           \/ oAnswers'[e.id] = Box!Res("rejected", oDoc)
ServerOf ==
  \/ UNCHANGED <<oDoc, oAnswers, oReached>>
  \/ oDoc.v # 0 /\ oDoc' = [v |-> oDoc.v + 1, body |-> Box!Theirs(oDoc.v + 1)] /\ UNCHANGED <<oAnswers, oReached>>
  \/ \E e : Ran(e)
RunOf ==
  /\ Out' \subseteq Out
  /\ oRun'.tried \subseteq oRun.tried
  /\ oRun'.st \in {"asked", "answered"} => oRun.st \in {"asked", "answered"} /\ oRun'.tried = oRun.tried
  /\ oRun'.st = "answered" /\ oRun'.got.is # "retry" => oRun'.ask.id \in Done' /\ oRun'.got = oAnswers'[oRun'.ask.id]
  /\ oRun'.got.v \in 0 .. oDoc'.v
  /\ oRun'.st \in {"answered", "pulled"} /\ oRun'.got.v = oDoc'.v => oRun'.got.body = oDoc'.body
Quiet ==
  /\ UNCHANGED <<oQueue, oNextId, oMade, oOutcome, oDiscarded, oRevived, oOvertaken>>
  /\ oSaving' \in {oSaving, Box!NotSaving}
  /\ UNCHANGED <<Box!screen, oKnown>> \/ (oKnown' = oRun.got.v /\ oRun.got.v >= 1 /\ Box!Applied)
  /\ ServerOf /\ RunOf

LEMMA QuietFacts ==
  ASSUME BoxInv, Box!TypeOK', Quiet
  PROVE  /\ Queued' = Queued /\ Copies' \subseteq Copies /\ Out \subseteq Copies /\ Queued \subseteq Copies
         /\ Done \subseteq Done' /\ \A i \in Done : oAnswers'[i] = oAnswers[i]
         /\ oDoc.v \in Nat /\ oDoc'.v \in Nat /\ oDoc.v <= oDoc'.v /\ (oDoc'.v = oDoc.v => oDoc' = oDoc)
         /\ oReached \subseteq oReached'
         /\ \A e : Ran(e) => e \in Copies /\ e \in Box!Entry /\ e.n \in Box!Edits /\ e.n >= 1 /\ e.n <= oMade /\ e.id >= 1 /\ e.id < oNextId /\ oMade # 0
<1>1. Queued' = Queued /\ Copies' \subseteq Copies /\ Out \subseteq Copies /\ Queued \subseteq Copies
  BY DEF Quiet, RunOf, Queued, Copies
<1>2. oDoc.v \in Nat /\ oDoc'.v \in Nat
  BY DEF BoxInv, Box!TypeOK
<1>3. Done \subseteq Done' /\ \A i \in Done : oAnswers'[i] = oAnswers[i]
  BY DEF Quiet, ServerOf, Ran, Done
<1>4. oDoc' = oDoc \/ oDoc'.v = oDoc.v + 1
  BY DEF Quiet, ServerOf, Ran
<1>5. oReached \subseteq oReached'
  BY DEF Quiet, ServerOf, Ran
<1>6. ASSUME NEW e, Ran(e)
      PROVE e \in Copies /\ e \in Box!Entry /\ e.n \in Box!Edits /\ e.n >= 1 /\ e.n <= oMade /\ e.id >= 1 /\ e.id < oNextId /\ oMade # 0
  <2>1. e \in Copies
    BY <1>1, <1>6 DEF Ran
  <2>2. e \in Box!Entry /\ e.n \in Nat /\ oMade \in Nat /\ MaxSaves \in Nat
    BY <2>1, CopiesTyped, BoxBounds DEF BoxInv, Box!TypeOK, Box!Entry
  <2>3. e.n >= 1 /\ e.n <= oMade /\ e.id >= 1 /\ e.id < oNextId /\ oMade <= MaxSaves
    BY <2>1 DEF BoxInv, Numbers
  <2> QED BY <2>1, <2>2, <2>3 DEF Box!Edits
<1> QED BY <1>1, <1>2, <1>3, <1>4, <1>5, <1>6

LEMMA QuietNumbers == ASSUME BoxInv, Box!TypeOK', Quiet PROVE Numbers'
<1>1. oMade' = oMade /\ oNextId' = oNextId /\ oQueue' = oQueue /\ oOutcome' = oOutcome
  BY DEF Quiet
<1>2. Numbers
  BY DEF BoxInv
<1>3. \A e \in Copies' : e.id >= 1 /\ e.id < oNextId' /\ e.n >= 1 /\ e.n <= oMade' /\ (e.method = "POST" => e.base = Box!NoBase)
  BY <1>1, <1>2, QuietFacts DEF Numbers
<1>4. oMade \in Nat /\ oNextId \in Nat
  BY DEF BoxInv, Box!TypeOK
<1>5. Done' \subseteq 1 .. oNextId - 1 /\ oReached' \subseteq 1 .. oMade
  <2>1. CASE UNCHANGED <<oAnswers, oReached>>
    BY <1>2, <2>1 DEF Numbers, Done
  <2>2. CASE \E e : Ran(e)
    <3>1. PICK e : Ran(e)
      BY <2>2
    <3>2. e.id \in 1 .. oNextId - 1 /\ e.n \in 1 .. oMade
      <4>1. e.id \in Nat /\ e.n \in Nat
        BY <3>1, QuietFacts DEF Box!Entry
      <4> QED BY <1>4, <3>1, <4>1, QuietFacts
    <3> QED BY <1>2, <3>1, <3>2 DEF Ran, Numbers
  <2> QED BY <2>1, <2>2 DEF Quiet, ServerOf
<1>6. oMade = 0 /\ oKnown' = 0 => oDoc'.v = 0
  <2> SUFFICES ASSUME oMade = 0, oKnown' = 0 PROVE oDoc'.v = 0
    OBVIOUS
  <2>1. oKnown = 0
    BY DEF Quiet, Box!screen
  <2>2. oDoc.v = 0
    BY <1>2, <2>1 DEF Numbers
  <2>3. ~\E e : Ran(e)
    BY QuietFacts
  <2> QED BY <2>2, <2>3 DEF Quiet, ServerOf
<1>7. oRun'.tried \subseteq 1 .. oNextId - 1
  BY <1>2 DEF Quiet, RunOf, Numbers
<1> QED BY <1>1, <1>2, <1>3, <1>5, <1>6, <1>7 DEF Numbers

LEMMA QuietSame == ASSUME BoxInv, Box!TypeOK', Quiet PROVE Same'
<1>1. Same
  BY DEF BoxInv
<1>2. Out' \subseteq Out
  BY DEF Quiet, RunOf
<1>3. ASSUME NEW e \in Queued', ~e.sent PROVE e.id \notin Done' /\ \A o \in Out' : o.id # e.id
  <2>1. e.id \notin Done /\ \A o \in Out : o.id # e.id
    BY <1>1, <1>3, QuietFacts DEF Same
  <2>2. Done' = Done \/ \E o \in Out : Done' = Done \cup {o.id}
    BY DEF Quiet, ServerOf, Ran, Done
  <2> QED BY <1>2, <2>1, <2>2
<1>4. \A e \in Copies', o \in Out' : e.id = o.id => e.n = o.n /\ e.method = o.method /\ e.saw = o.saw /\ (e.base = Box!NoBase <=> o.base = Box!NoBase)
  BY <1>1, <1>2, QuietFacts DEF Same
<1>5. \A e \in Queued' : Box!Failed(e) => e.id \in Done' /\ oAnswers'[e.id].is # "applied" /\ e.tries
  BY <1>1, QuietFacts DEF Same
<1>6. oRun'.st \in {"asked", "answered"} => \A e \in Queued' : e.id \in oRun'.tried => e.tries
  BY <1>1, QuietFacts DEF Same, Quiet, RunOf
<1>7. oRun'.st = "answered" /\ oRun'.got.is # "retry" => oRun'.ask.id \in Done' /\ oRun'.got = oAnswers'[oRun'.ask.id]
  BY DEF Quiet, RunOf
<1> QED BY <1>3, <1>4, <1>5, <1>6, <1>7 DEF Same

LEMMA QuietWaiting == ASSUME BoxInv, Box!TypeOK', Quiet PROVE Waiting'
<1> SUFFICES ASSUME oSaving' # Box!NotSaving
             PROVE  /\ oSaving'.n \in Box!Edits /\ oOutcome'[oSaving'.n] = "none"
                    /\ \E e \in Queued' : e.id = oSaving'.id /\ e.n = oSaving'.n /\ Box!Pending(e)
                    /\ \A e \in Copies' : e.n = oSaving'.n => e.id = oSaving'.id
                    /\ oSaving'.n \in oReached' => oSaving'.id \in Done' /\ oAnswers'[oSaving'.id].is = "applied"
  BY DEF Waiting, Box!NotSaving
<1>1. oSaving' = oSaving /\ oOutcome' = oOutcome
  BY DEF Quiet
<1>2. /\ oSaving.n \in Box!Edits /\ oOutcome[oSaving.n] = "none"
      /\ \E e \in Queued : e.id = oSaving.id /\ e.n = oSaving.n /\ Box!Pending(e)
      /\ \A e \in Copies : e.n = oSaving.n => e.id = oSaving.id
      /\ oSaving.n \in oReached => oSaving.id \in Done /\ oAnswers[oSaving.id].is = "applied"
  BY <1>1 DEF BoxInv, Waiting
<1>3. ASSUME oSaving.n \in oReached' PROVE oSaving.id \in Done' /\ oAnswers'[oSaving.id].is = "applied"
  <2>1. CASE oSaving.n \in oReached
    BY <1>2, <2>1, QuietFacts
  <2>2. CASE oSaving.n \notin oReached
    <3>1. PICK e : Ran(e) /\ oReached' # oReached
      BY <1>3, <2>2 DEF Quiet, ServerOf
    <3>2. e.n = oSaving.n /\ oAnswers'[e.id].is = "applied" /\ e.id \in Done'
      BY <1>3, <2>2, <3>1 DEF Ran, Box!Res
    <3>3. e.id = oSaving.id
      BY <1>2, <3>1, <3>2, QuietFacts
    <3> QED BY <3>2, <3>3
  <2> QED BY <2>1, <2>2
<1> QED BY <1>1, <1>2, <1>3, QuietFacts

LEMMA QuietNothing == ASSUME BoxInv, Box!TypeOK', Quiet PROVE NothingBack'
<1> SUFFICES ASSUME NEW n \in Box!Edits, oOutcome[n] \in {"refused", "unreachable"}
             PROVE  n \notin oReached' /\ (\A e \in Queued' : e.n # n) /\ \A e \in Out' : e.n = n => e.id \in Done'
  BY DEF NothingBack, Quiet
<1>1. n \notin oReached /\ (\A e \in Queued : e.n # n) /\ \A e \in Out : e.n = n => e.id \in Done
  BY DEF BoxInv, NothingBack
<1>2. n \notin oReached'
  BY <1>1 DEF Quiet, ServerOf, Ran
<1>3. Out' \subseteq Out
  BY DEF Quiet, RunOf
<1> QED BY <1>1, <1>2, <1>3, QuietFacts

LEMMA QuietKept == ASSUME BoxInv, Box!TypeOK', Quiet PROVE Kept'
<1> SUFFICES ASSUME oRevived = 0, NEW n \in Box!Edits, oOutcome[n] \in {"queued", "folded"}
             PROVE  (\E e \in Queued' : e.id # oSaving'.id /\ e.n >= n) \/ \E k \in oReached' \cup oDiscarded' : k >= n
  BY DEF Kept, Quiet
<1>1. (\E e \in Queued : e.id # oSaving.id /\ e.n >= n) \/ \E k \in oReached \cup oDiscarded : k >= n
  BY DEF BoxInv, Kept
<1>2. CASE \E e \in Queued : e.id # oSaving.id /\ e.n >= n
  <2>1. oSaving'.id \in {oSaving.id, 0}
    BY DEF Quiet, Box!NotSaving
  <2>2. \A e \in Queued : e.id >= 1
    BY DEF BoxInv, Numbers, Copies
  <2> QED BY <1>2, <2>1, <2>2, QuietFacts
<1>3. CASE \E k \in oReached \cup oDiscarded : k >= n
  <2>1. oDiscarded' = oDiscarded
    BY DEF Quiet
  <2> QED BY <1>3, <2>1, QuietFacts
<1> QED BY <1>1, <1>2, <1>3

LEMMA QuietCreates == ASSUME BoxInv, Box!TypeOK', Quiet PROVE Creates'
<1> SUFFICES ASSUME oRevived = 0 PROVE Creates'
  BY DEF Creates, Quiet
<1>1. /\ \A e, o \in Queued : e.method = "POST" /\ o.method = "POST" => e.id = o.id
      /\ \A e, o \in Copies : e.method = "POST" /\ o.method = "POST" /\ o.id \notin Done =>
           oDoc.v = 0 /\ (e \in Queued \/ e.id \notin Done => e.id = o.id)
      /\ \A e \in Queued : e.method = "POST" /\ e.id \in Done /\ oAnswers[e.id].is # "applied" => oDoc.v = 0
      /\ \A e \in Copies : e.id \in Done /\ oAnswers[e.id].is = "applied" => e.n \in oReached
      /\ \A i \in Done : oAnswers[i].is = "applied" => oAnswers[i].body \in MyBodies
  BY DEF BoxInv, Creates
<1>2. /\ Queued' = Queued /\ Copies' \subseteq Copies /\ Out \subseteq Copies /\ Queued \subseteq Copies
      /\ Done \subseteq Done' /\ \A i \in Done : oAnswers'[i] = oAnswers[i]
      /\ oReached \subseteq oReached'
  BY QuietFacts
<1>3. CASE Done' = Done
  <2>1. oDoc' = oDoc \/ oDoc.v # 0
    BY <1>3 DEF Quiet, ServerOf, Ran
  <2>2. oDoc.v = 0 => oDoc'.v = 0
    BY <2>1
  <2>3. \A e, o \in Copies' : e.method = "POST" /\ o.method = "POST" /\ o.id \notin Done' =>
           oDoc'.v = 0 /\ (e \in Queued' \/ e.id \notin Done' => e.id = o.id)
    BY <1>1, <1>2, <1>3, <2>2
  <2>4. \A e \in Queued' : e.method = "POST" /\ e.id \in Done' /\ oAnswers'[e.id].is # "applied" => oDoc'.v = 0
    BY <1>1, <1>2, <1>3, <2>2
  <2>5. \A e \in Copies' : e.id \in Done' /\ oAnswers'[e.id].is = "applied" => e.n \in oReached'
    BY <1>1, <1>2, <1>3
  <2> QED BY <1>1, <1>2, <1>3, <2>3, <2>4, <2>5 DEF Creates
<1>4. CASE \E x : Ran(x)
  <2>1. PICK x : Ran(x)
    BY <1>4
  <2>2. x \in Copies /\ x.id \notin Done /\ x.n \in Box!Edits /\ Done' = Done \cup {x.id} /\ x \in Out /\ x \in Box!Entry
    BY <2>1, QuietFacts DEF Ran
  <2>3. \A e \in Copies : e.id = x.id => e.n = x.n /\ e.method = x.method
    BY <2>2 DEF BoxInv, Same
  <2>4. \/ /\ oDoc'.v = oDoc.v + 1 /\ oDoc'.body = Box!Mine(x.n) /\ x.n \in oReached'
           /\ oAnswers'[x.id].is = "applied" /\ oAnswers'[x.id].body = oDoc'.body
           /\ IF x.method = "POST" THEN oDoc.v = 0 ELSE oDoc.v # 0
        \/ /\ oDoc' = oDoc
           /\ oAnswers'[x.id].is # "applied" \/ (x.method = "POST" /\ oDoc.v # 0)
    BY <2>1 DEF Ran, Box!Res
  <2>5. oAnswers'[x.id].is = "applied" => x.n \in oReached' /\ oAnswers'[x.id].body = Box!Mine(x.n)
    <3>1. x.method = "POST" => oDoc.v = 0
      BY <1>1, <2>2
    <3> QED BY <2>4, <3>1
  <2>6. ASSUME NEW e \in Copies', NEW o \in Copies', e.method = "POST", o.method = "POST", o.id \notin Done'
        PROVE  oDoc'.v = 0 /\ (e \in Queued' \/ e.id \notin Done' => e.id = o.id)
    <3>1. e \in Copies /\ o \in Copies /\ o.id \notin Done /\ o.id # x.id
      BY <1>2, <2>2, <2>6
    <3>2. oDoc.v = 0 /\ (e \in Queued \/ e.id \notin Done => e.id = o.id)
      BY <1>1, <2>6, <3>1
    <3>3. x.method # "POST"
      BY <1>1, <2>2, <2>6, <3>1
    <3>4. oDoc' = oDoc
      BY <2>4, <3>2, <3>3
    <3> QED BY <1>2, <3>2, <3>4
  <2>7. ASSUME NEW e \in Queued', e.method = "POST", e.id \in Done', oAnswers'[e.id].is # "applied" PROVE oDoc'.v = 0
    <3>1. e \in Queued /\ e \in Copies
      BY <1>2
    <3>2. CASE e.id = x.id
      <4>1. oDoc.v = 0 /\ oDoc' = oDoc
        BY <1>1, <2>2, <2>4, <2>7, <3>1, <3>2
      <4> QED BY <4>1
    <3>3. CASE e.id # x.id
      <4>1. oDoc.v = 0
        BY <1>1, <1>2, <2>2, <2>7, <3>1, <3>3
      <4>2. x.method # "POST"
        BY <1>1, <2>2, <2>7, <3>1, <3>3
      <4> QED BY <2>4, <4>1, <4>2
    <3> QED BY <3>2, <3>3
  <2>8. ASSUME NEW e \in Copies', e.id \in Done', oAnswers'[e.id].is = "applied" PROVE e.n \in oReached'
    <3>1. CASE e.id = x.id
      BY <1>2, <2>3, <2>5, <2>8, <3>1
    <3>2. CASE e.id # x.id
      BY <1>1, <1>2, <2>2, <2>8, <3>2
    <3> QED BY <3>1, <3>2
  <2>9. ASSUME NEW i \in Done', oAnswers'[i].is = "applied" PROVE oAnswers'[i].body \in MyBodies'
    <3>1. MyBodies' = MyBodies
      BY DEF MyBodies
    <3>2. CASE i = x.id
      <4>1. Box!Mine(x.n) \in MyBodies
        BY <2>2 DEF MyBodies
      <4> QED BY <2>5, <2>9, <3>1, <3>2, <4>1
    <3>3. CASE i # x.id
      BY <1>1, <1>2, <2>2, <2>9, <3>1, <3>3
    <3> QED BY <3>2, <3>3
  <2> QED BY <1>1, <1>2, <2>6, <2>7, <2>8, <2>9 DEF Creates
<1> QED BY <1>3, <1>4 DEF Quiet, ServerOf, Done

LEMMA QuietVersions == ASSUME BoxInv, Box!TypeOK', Quiet PROVE Versions'
<1>1. /\ {oKnown, oShown, oSaving.shown, oRun.got.v} \subseteq 0 .. oDoc.v
      /\ \A e \in Copies : e.base <= oDoc.v
      /\ \A i \in Done : /\ oAnswers[i].v <= oDoc.v /\ (oAnswers[i].v = oDoc.v => oAnswers[i].body = oDoc.body)
                         /\ oAnswers[i].is # "retry" /\ (oAnswers[i].is # "rejected" => oAnswers[i].v >= 1)
  BY DEF BoxInv, Versions
<1>2. /\ Copies' \subseteq Copies
      /\ Done \subseteq Done' /\ \A i \in Done : oAnswers'[i] = oAnswers[i]
      /\ oDoc.v \in Nat /\ oDoc'.v \in Nat /\ oDoc.v <= oDoc'.v /\ (oDoc'.v = oDoc.v => oDoc' = oDoc)
  BY QuietFacts
<1>3. oKnown' \in {oKnown, oRun.got.v} /\ oShown' \in {oShown, oRun.got.v} /\ oSaving'.shown \in {oSaving.shown, 0}
  BY DEF Quiet, Box!screen, Box!Applied, Box!Shows, Box!NotSaving
<1>4. {oKnown', oShown', oSaving'.shown, oRun'.got.v} \subseteq 0 .. oDoc'.v
  <2>1. oRun'.got.v \in 0 .. oDoc'.v
    BY DEF Quiet, RunOf
  <2> QED BY <1>1, <1>2, <1>3, <2>1
<1>5. \A e \in Copies' : e.base <= oDoc'.v
  <2>1. \A e \in Copies : e.base \in Nat
    BY CopiesTyped DEF BoxInv, Box!Entry
  <2> QED BY <1>1, <1>2, <2>1
<1>6. ASSUME NEW i \in Done'
      PROVE  /\ oAnswers'[i].v <= oDoc'.v /\ (oAnswers'[i].v = oDoc'.v => oAnswers'[i].body = oDoc'.body)
             /\ oAnswers'[i].is # "retry" /\ (oAnswers'[i].is # "rejected" => oAnswers'[i].v >= 1)
  <2>1. CASE i \in Done
    <3>1. oAnswers'[i] = oAnswers[i] /\ oAnswers[i].v \in Nat
      BY <1>2, <2>1 DEF BoxInv, Box!TypeOK, Box!Result, Done
    <3>2. oAnswers[i].v <= oDoc.v /\ (oAnswers[i].v = oDoc.v => oAnswers[i].body = oDoc.body)
      BY <1>1, <2>1
    <3>3. oAnswers[i].v = oDoc'.v => oDoc' = oDoc
      BY <1>2, <3>1, <3>2
    <3> QED BY <1>1, <1>2, <2>1, <3>1, <3>2, <3>3
  <2>2. CASE i \notin Done
    <3>1. PICK x : Ran(x) /\ i = x.id
      BY <2>2 DEF Quiet, ServerOf, Ran, Done
    <3> QED BY <1>2, <3>1 DEF Ran, Box!Res
  <2> QED BY <2>1, <2>2
<1>7. oRun'.st \in {"answered", "pulled"} /\ oRun'.got.v = oDoc'.v => oRun'.got.body = oDoc'.body
  BY DEF Quiet, RunOf
<1> QED BY <1>4, <1>5, <1>6, <1>7 DEF Versions

LEMMA QuietBases == ASSUME BoxInv, Box!TypeOK', Quiet PROVE Bases'
<1>1. oShown \in Nat /\ oShown' \in Nat /\ oRun.got.v \in Nat /\ oKnown \in Nat
  BY DEF BoxInv, Box!TypeOK, Box!Result
<1> SUFFICES ASSUME ~oOlder', oRevived = 0
             PROVE  /\ oKnown' = oDoc'.v /\ oShown' < oKnown' => oDoc'.body \in MyBodies
                    /\ \A e \in Copies' : e.saw <= oShown' /\ (e.base # Box!NoBase /\ e.base = oDoc'.v /\ e.saw < e.base => oDoc'.body \in MyBodies)
  BY DEF Bases, Quiet, MyBodies
<1>2. ~oOlder /\ oShown <= oShown' /\ ((oKnown' = oKnown /\ oShown' = oShown) \/ oKnown' = oShown')
  <2>1. CASE UNCHANGED <<Box!screen, oKnown>>
    BY <1>1, <2>1 DEF Box!screen
  <2>2. CASE oKnown' = oRun.got.v /\ Box!Applied
    <3>1. oOlder' = (oOlder \/ oRun.got.v < oShown) /\ oShown' = oRun.got.v
      BY <2>2 DEF Box!Applied, Box!Shows
    <3>2. ~oOlder /\ ~(oRun.got.v < oShown)
      BY <3>1
    <3> QED BY <1>1, <2>2, <3>1, <3>2
  <2> QED BY <2>1, <2>2 DEF Quiet
<1>3. /\ oKnown = oDoc.v /\ oShown < oKnown => oDoc.body \in MyBodies
      /\ \A e \in Copies : e.saw <= oShown /\ (e.base # Box!NoBase /\ e.base = oDoc.v /\ e.saw < e.base => oDoc.body \in MyBodies)
  BY <1>2 DEF BoxInv, Bases, Quiet
<1>4. /\ Copies' \subseteq Copies
      /\ oDoc.v \in Nat /\ oDoc'.v \in Nat /\ oDoc.v <= oDoc'.v /\ (oDoc'.v = oDoc.v => oDoc' = oDoc)
  BY QuietFacts
<1>5. oKnown <= oDoc.v /\ oRun.got.v <= oDoc.v /\ \A e \in Copies : e.base <= oDoc.v
  BY <1>1, <1>4 DEF BoxInv, Versions
<1>6. \A e \in Copies : e.base \in Nat /\ e.saw \in Nat
  BY CopiesTyped DEF BoxInv, Box!Entry
<1>7. oKnown' = oDoc'.v /\ oShown' < oKnown' => oDoc'.body \in MyBodies
  <2> SUFFICES ASSUME oKnown' = oDoc'.v, oShown' < oKnown' PROVE oDoc'.body \in MyBodies
    OBVIOUS
  <2>1. oKnown' = oKnown /\ oShown' = oShown
    BY <1>1, <1>2
  <2>2. oDoc' = oDoc
    BY <1>1, <1>4, <1>5, <2>1
  <2> QED BY <1>3, <2>1, <2>2
<1>8. ASSUME NEW e \in Copies'
      PROVE  e.saw <= oShown' /\ (e.base # Box!NoBase /\ e.base = oDoc'.v /\ e.saw < e.base => oDoc'.body \in MyBodies)
  <2>1. e \in Copies /\ e.saw <= oShown'
    BY <1>1, <1>2, <1>3, <1>4, <1>6
  <2>2. e.base = oDoc'.v => oDoc' = oDoc
    BY <1>4, <1>5, <1>6, <2>1
  <2> QED BY <1>3, <2>1, <2>2
<1> QED BY <1>7, <1>8

LEMMA QuietOrder == ASSUME BoxInv, Box!TypeOK', Quiet PROVE Ordered'
<1>1. /\ Queued' = Queued /\ Out \subseteq Copies /\ Queued \subseteq Copies /\ Done \subseteq Done'
  BY QuietFacts
<1>2. oQueue' = oQueue /\ oOvertaken' = oOvertaken /\ Out' \subseteq Out
  BY DEF Quiet, RunOf
<1>3. /\ \A i, j \in DOMAIN oQueue : i < j =>
           /\ oQueue[i].n < oQueue[j].n \/ oQueue[j].n \in oOvertaken
           /\ oQueue[j].sent => oQueue[i].tries
      /\ \A q \in Queued : ~q.tries /\ q.n \notin oOvertaken =>
           /\ \A e \in Out : e.id \notin Done /\ (\A o \in Queued : o.id # e.id) => e.n < q.n
           /\ q.id \notin Done => \A k \in oReached : k < q.n
  BY DEF BoxInv, Ordered
<1>4. ASSUME NEW q \in Queued, ~q.tries, q.n \notin oOvertaken, q.id \notin Done', NEW k \in oReached' PROVE k < q.n
  <2>1. CASE k \in oReached
    BY <1>1, <1>3, <1>4, <2>1
  <2>2. CASE k \notin oReached
    <3>1. PICK x : Ran(x) /\ k = x.n
      BY <2>2 DEF Quiet, ServerOf, Ran
    <3>2. x \in Out /\ x.id \notin Done /\ x.id \in Done'
      BY <3>1 DEF Ran
    <3>3. CASE \A o \in Queued : o.id # x.id
      BY <1>3, <1>4, <3>1, <3>2, <3>3
    <3>4. CASE \E o \in Queued : o.id = x.id
      <4>1. PICK i \in DOMAIN oQueue : oQueue[i].id = x.id
        BY <3>4 DEF Queued, Box!Range
      <4>2. PICK j \in DOMAIN oQueue : oQueue[j] = q
        BY DEF Queued, Box!Range
      <4>3. oQueue[i] \in Queued /\ oQueue[i] \in Copies
        BY <1>1 DEF Queued, Box!Range
      <4>4. oQueue[i].n = x.n /\ oQueue[i].sent
        BY <3>2, <4>1, <4>3 DEF BoxInv, Same
      <4>5. i # j
        BY <1>4, <3>2, <4>1, <4>2
      <4>6. i \in Nat /\ j \in Nat
        BY QueueTyped DEF BoxInv
      <4>7. ~(j < i)
        BY <1>3, <1>4, <4>2, <4>4
      <4> QED BY <1>3, <1>4, <3>1, <4>2, <4>4, <4>5, <4>6, <4>7
    <3> QED BY <3>3, <3>4
  <2> QED BY <2>1, <2>2
<1>5. \A q \in Queued' : ~q.tries /\ q.n \notin oOvertaken' =>
           /\ \A e \in Out' : e.id \notin Done' /\ (\A o \in Queued' : o.id # e.id) => e.n < q.n
           /\ q.id \notin Done' => \A k \in oReached' : k < q.n
  BY <1>1, <1>2, <1>3, <1>4
<1> QED BY <1>2, <1>3, <1>5 DEF Ordered
-----------------------------------------------------------------------------
(* What a step leaves is well typed *)

TheRun == [st : {"idle", "asked", "answered", "pull", "pulled"}, tried : SUBSET Nat, ask : Box!Entry, got : Box!Result]
TheSave == [id : Nat, n : Nat, before : Box!Bodies, shown : Nat]
Outcomes == [Box!Edits -> {"none", "saved", "folded", "queued", "refused", "unreachable", "unconfirmed"}]

LEMMA Nones == Box!NoEntry \in Box!Entry /\ Box!NoRes \in Box!Result /\ Box!None \in Box!Bodies /\ Box!Idle \in TheRun /\ Box!NotSaving \in TheSave
<1>1. Box!None \in Box!Bodies /\ FALSE \in BOOLEAN
  BY DEF Box!None, Box!Bodies
<1>2. Box!NoEntry \in Box!Entry
  BY DEF Box!NoEntry, Box!Entry, Box!NoBase
<1>3. Box!NoRes \in Box!Result
  BY <1>1 DEF Box!NoRes, Box!Result
<1>4. {} \in SUBSET Nat
  OBVIOUS
<1>5. Box!Idle \in TheRun
  BY <1>2, <1>3, <1>4 DEF Box!Idle, TheRun
<1>6. Box!NotSaving \in TheSave
  BY <1>1 DEF Box!NotSaving, TheSave
<1> QED BY <1>1, <1>2, <1>3, <1>5, <1>6

LEMMA ModeTyped == ASSUME oMode \in Box!Modes, NEW q, Box!SettleDrain(q) \/ Box!Lost PROVE oMode' \in Box!Modes
BY DEF Box!SettleDrain, Box!Lost, Box!Modes

LEMMA WithoutTyped == ASSUME BoxInv, NEW id PROVE Box!Without(oQueue, id) \in Seq(Box!Entry)
<1>1. oQueue \in Seq(Box!Entry) /\ Distinct(oQueue)
  BY DEF BoxInv, Box!TypeOK, Numbers
<1> QED BY <1>1, Dropped DEF Drops

LEMMA RunTyped ==
  ASSUME NEW q, NEW tried \in SUBSET Nat, Box!GoOn(q, tried), oQueue' \in Seq(Box!Entry)
  PROVE  oRun' \in TheRun
<1>1. CASE oRun' = [Box!Idle EXCEPT !.st = "pull"]
  BY <1>1, Nones DEF Box!Idle, TheRun
<1>2. CASE \E i \in DOMAIN q :
       /\ oQueue' = Box!Replaced(q, i, Box!AsSent(q[i]))
       /\ oRun' = [st |-> "asked", tried |-> tried, ask |-> oQueue'[i], got |-> Box!NoRes]
  <2>1. PICK i \in DOMAIN q :
       /\ oQueue' = Box!Replaced(q, i, Box!AsSent(q[i]))
       /\ oRun' = [st |-> "asked", tried |-> tried, ask |-> oQueue'[i], got |-> Box!NoRes]
    BY <1>2
  <2>2. i \in DOMAIN oQueue'
    BY <2>1 DEF Box!Replaced
  <2>3. oQueue'[i] \in Box!Entry
    BY <2>2
  <2> QED BY <2>1, <2>3, Nones DEF TheRun
<1> QED BY <1>1, <1>2 DEF Box!GoOn

LEMMA StartTyped == ASSUME BoxInv, Box!StartRun PROVE Box!TypeOK'
<1>1. oQueue' \in Seq(Box!Entry)
  BY Starts DEF Goes, Noted
<1>2. {} \in SUBSET Nat
  OBVIOUS
<1>3. oRun' \in TheRun
  <2>1. CASE oRun' = [Box!Idle EXCEPT !.st = "pull"]
    BY <2>1, Nones DEF Box!Idle, TheRun
  <2>2. CASE Box!GoOn(oQueue, {})
    BY <1>1, <1>2, <2>2, RunTyped
  <2> QED BY <2>1, <2>2 DEF Box!StartRun
<1>4. UNCHANGED <<Box!server, Box!screen, oKnown, oNextId, oCursor, Box!saves, oMode, oLink, oEvents>>
  BY DEF Box!StartRun
<1> QED BY <1>1, <1>3, <1>4 DEF BoxInv, Box!TypeOK, TheRun, Box!server, Box!screen, Box!saves

LEMMA HandleTyped == ASSUME BoxInv, Box!Handle PROVE Box!TypeOK'
<1>1. oQueue' \in Seq(Box!Entry)
  BY Handles DEF Goes, Noted
<1>2. Box!TypeOK /\ oRun.got \in Box!Result /\ oRun.ask \in Box!Entry /\ oRun.tried \in SUBSET Nat /\ oSaving \in TheSave /\ oOutcome \in Outcomes
  BY DEF BoxInv, Box!TypeOK, TheSave, Outcomes
<1>3. Box!Tried \in SUBSET Nat /\ oRun.got.v \in Nat /\ oRun.got.body \in Box!Bodies /\ oSaving.before \in Box!Bodies /\ oSaving.shown \in Nat
  BY <1>2 DEF Box!Tried, Box!Asked, Box!Entry, Box!Result, TheSave
<1>4. oRun' \in TheRun
  <2>1. PICK q : Box!GoOn(q, Box!Tried)
    BY DEF Box!Handle, Box!HandleApplied, Box!HandleRetry, Box!HandleConflict, Box!HandleRejected, Box!Refuse
  <2> QED BY <1>1, <1>3, <2>1, RunTyped
<1>5. oMode' \in Box!Modes
  <2>1. Box!SettleDrain(oQueue') /\ oMode \in Box!Modes
    BY <1>2 DEF Box!Handle, Box!HandleApplied, Box!HandleRetry, Box!HandleConflict, Box!HandleRejected, Box!TypeOK
  <2> QED BY <2>1, ModeTyped
<1>6. oSaving' \in TheSave /\ oOutcome' \in Outcomes
  <2>1. CASE UNCHANGED <<oSaving, oOutcome>>
    BY <1>2, <2>1
  <2>2. CASE oSaving' = Box!NotSaving /\ \E o \in {"saved", "refused"} : oOutcome' = [oOutcome EXCEPT ![oSaving.n] = o]
    BY <1>2, <2>2, Nones DEF Outcomes
  <2> QED BY <2>1, <2>2, ToldOf
<1>7. oRow' \in Box!Bodies /\ {oShown', oKnown'} \subseteq Nat /\ oOlder' \in BOOLEAN
  <2>1. oKnown' \in Nat
    BY <1>2, <1>3, ShownOf DEF Box!TypeOK
  <2>2. UNCHANGED Box!screen \/ Box!Shows(oSaving.before, oSaving.shown) \/ Box!Applied
    BY ShownOf
  <2> QED BY ZenonT(60), <1>2, <1>3, <2>1, <2>2 DEF Box!screen, Box!Shows, Box!Applied, Box!TypeOK
<1>8. UNCHANGED <<Box!server, oNextId, oCursor, oMade, oDiscarded, oRevived, oOvertaken, oLink, oEvents>>
  BY DEF Box!Handle, Box!HandleApplied, Box!HandleRetry, Box!HandleConflict, Box!HandleRejected, Box!saves
<1> QED BY <1>1, <1>2, <1>4, <1>5, <1>6, <1>7, <1>8 DEF Box!TypeOK, TheRun, TheSave, Outcomes, Box!server

LEMMA RunsTyped ==
  ASSUME BoxInv, NEW e \in Out, Box!Runs(e)
  PROVE  /\ oDoc' \in [v : Nat, body : Box!Bodies] /\ (\A i \in DOMAIN oAnswers' : oAnswers'[i] \in Box!Result) /\ oReached' \subseteq Box!Edits
         /\ oEvents' \in Nat /\ e.id \in DOMAIN oAnswers'
<1>1. Box!TypeOK /\ e \in Box!Entry /\ e.n \in Box!Edits
  <2>1. e \in Copies
    BY DEF Copies
  <2>2. Box!TypeOK /\ e \in Box!Entry /\ e.n \in Nat /\ oMade \in Nat /\ MaxSaves \in Nat
    BY <2>1, CopiesTyped, BoxBounds DEF BoxInv, Box!TypeOK, Box!Entry
  <2> QED BY <2>1, <2>2 DEF BoxInv, Numbers, Box!Edits
<1>2. oDoc \in [v : Nat, body : Box!Bodies] /\ \A i \in DOMAIN oAnswers : oAnswers[i] \in Box!Result
  BY <1>1 DEF Box!TypeOK
<1>3. oDoc' \in [v : Nat, body : Box!Bodies]
  <2>1. Box!Mine(e.n) \in Box!Bodies
    BY <1>1 DEF Box!Mine, Box!Bodies, Box!Entry
  <2> QED BY <1>2, <2>1 DEF Box!Runs, Box!Executed, Box!NotExecuted
<1>4. oReached' \subseteq Box!Edits
  BY <1>1 DEF Box!TypeOK, Box!Runs, Box!Executed, Box!NotExecuted
<1>5. PICK is \in {"applied", "rejected", "conflict"}, d \in {oDoc, oDoc'} : Box!Recorded(e, Box!Res(is, d))
  BY DEF Box!Runs, Box!Executed
<1>6. Box!Res(is, d) \in Box!Result
  BY <1>2, <1>3 DEF Box!Res, Box!Result
<1>7. (\A i \in DOMAIN oAnswers' : oAnswers'[i] \in Box!Result) /\ e.id \in DOMAIN oAnswers'
  <2>1. PICK r : r = Box!Res(is, d)
    OBVIOUS
  <2>2. Box!Recorded(e, r) /\ r \in Box!Result
    BY <1>5, <1>6, <2>1
  <2> QED BY <1>2, <2>2 DEF Box!Recorded
<1>8. oEvents' \in Nat
  <2>1. oEvents \in Nat
    BY <1>1 DEF Box!TypeOK
  <2> QED BY <2>1 DEF Box!Runs, Box!Executed, Box!Happens
<1> QED BY <1>3, <1>4, <1>7, <1>8
LEMMA ServeTyped == ASSUME BoxInv, Box!Serve PROVE Box!TypeOK'
<1>1. Box!TypeOK /\ oRun.ask \in Out /\ oRun.ask \in Box!Entry /\ oRun.tried \in SUBSET Nat /\ oRun.st = "asked"
  BY DEF BoxInv, Box!TypeOK, Box!Serve, Out, Asks
<1>2. UNCHANGED <<oLate, Box!store, oCursor, Box!saves, oMode, oLink>>
  BY DEF Box!Serve
<1>3. oRun' = [oRun EXCEPT !.st = "answered", !.got = oRun'.got]
  BY <1>1 DEF Box!Serve, BoxInv, Box!TypeOK
<1>4. /\ oDoc' \in [v : Nat, body : Box!Bodies] /\ (\A i \in DOMAIN oAnswers' : oAnswers'[i] \in Box!Result) /\ oReached' \subseteq Box!Edits
      /\ oEvents' \in Nat /\ oRun'.got \in Box!Result
  <2>1. CASE Box!Runs(oRun.ask) /\ oRun' = [oRun EXCEPT !.st = "answered", !.got = oAnswers'[oRun.ask.id]]
    BY <1>1, <2>1, RunsTyped DEF Box!TypeOK
  <2>2. CASE /\ oRun.ask.id \in DOMAIN oAnswers
             /\ oRun' = [oRun EXCEPT !.st = "answered", !.got = oAnswers[oRun.ask.id]]
             /\ UNCHANGED <<oDoc, oAnswers, oReached, oEvents>>
    BY <1>1, <2>2 DEF Box!TypeOK
  <2>3. CASE /\ oRun.ask.id \notin DOMAIN oAnswers /\ Box!Happens
             /\ oRun' = [oRun EXCEPT !.st = "answered", !.got = Box!Res("retry", oDoc)]
             /\ UNCHANGED <<oDoc, oAnswers, oReached>>
    <3>1. Box!Res("retry", oDoc) \in Box!Result
      BY <1>1 DEF Box!TypeOK, Box!Res, Box!Result
    <3> QED BY <1>1, <2>3, <3>1 DEF Box!TypeOK, Box!Happens
  <2> QED BY <2>1, <2>2, <2>3 DEF Box!Serve
<1>5. oRun' \in TheRun
  BY <1>1, <1>3, <1>4 DEF Box!TypeOK, TheRun
<1> QED BY <1>1, <1>2, <1>4, <1>5 DEF Box!TypeOK, TheRun, Box!store, Box!screen, Box!saves

LEMMA LateTyped == ASSUME BoxInv, NEW e \in oLate, Box!ServeLate(e) PROVE Box!TypeOK'
<1>1. Box!TypeOK /\ e \in Out
  BY DEF BoxInv, Out
<1>2. UNCHANGED <<Box!store, oCursor, oRun, Box!saves, oMode, oLink>> /\ oLate' \subseteq oLate
  BY DEF Box!ServeLate
<1>3. /\ oDoc' \in [v : Nat, body : Box!Bodies] /\ (\A i \in DOMAIN oAnswers' : oAnswers'[i] \in Box!Result) /\ oReached' \subseteq Box!Edits
      /\ oEvents' \in Nat
  <2>1. CASE Box!Runs(e)
    BY <1>1, <2>1, RunsTyped
  <2>2. CASE UNCHANGED <<oDoc, oAnswers, oReached, oEvents>>
    BY <1>1, <2>2 DEF Box!TypeOK
  <2> QED BY <2>1, <2>2 DEF Box!ServeLate
<1> QED BY <1>1, <1>2, <1>3 DEF Box!TypeOK, Box!store, Box!screen, Box!saves

LEMMA LateAsked == ASSUME BoxInv, oLate' \in {oLate} \cup {oLate \cup {e} : e \in Box!Asking} PROVE oLate' \subseteq Box!Entry
BY DEF BoxInv, Box!TypeOK, Box!Asking

LEMMA LinkTyped ==
  ASSUME BoxInv, Box!NetError \/ Box!PushError \/ Box!Restart \/ Box!LinkLost \/ Box!LinkBack \/ Box!AcceptOffline \/ Box!Drain
  PROVE  Box!TypeOK'
<1>1. Box!TypeOK /\ oRun \in TheRun /\ oSaving \in TheSave
  BY DEF BoxInv, Box!TypeOK, TheRun, TheSave
<1>2. CASE Box!NetError
  <2>1. oMode' \in Box!Modes
    BY <1>1, <1>2, ModeTyped DEF Box!NetError, Box!TypeOK
  <2>2. oRun' \in TheRun /\ oLate' \subseteq Box!Entry /\ oLink' \in BOOLEAN /\ oEvents' \in Nat
    <3>1. oRun' = Box!Idle /\ oLink' = FALSE
      BY <1>2 DEF Box!NetError
    <3>2. oLate' \subseteq Box!Entry
      BY <1>2, LateAsked DEF Box!NetError
    <3>3. oEvents' = oEvents + 1
      BY <1>2 DEF Box!NetError, Box!Happens
    <3>4. oRun' \in TheRun /\ oLink' \in BOOLEAN
      BY <3>1, Nones
    <3>5. oEvents' \in Nat
      BY <1>1, <3>3 DEF Box!TypeOK
    <3> QED BY <3>2, <3>4, <3>5
  <2>3. UNCHANGED <<oDoc, oAnswers, oReached, Box!store, oCursor, Box!saves>>
    BY <1>2 DEF Box!NetError
  <2> QED BY <1>1, <2>1, <2>2, <2>3 DEF Box!TypeOK, TheRun, Box!store, Box!screen, Box!saves
<1>3. CASE Box!PushError
  <2>1. oRun' \in TheRun /\ oLate' \subseteq Box!Entry /\ oEvents' \in Nat
    BY SMTT(30), <1>1, <1>3, LateAsked DEF Box!PushError, Box!Happens, Box!TypeOK, TheRun
  <2>2. UNCHANGED <<oDoc, oAnswers, oReached, Box!store, oCursor, Box!saves, oMode, oLink>>
    BY <1>3 DEF Box!PushError
  <2> QED BY <1>1, <2>1, <2>2 DEF Box!TypeOK, TheRun, Box!store, Box!screen, Box!saves
<1>4. CASE Box!Restart
  <2>1. oRun' \in TheRun /\ oSaving' \in TheSave /\ oLate' \subseteq Box!Entry /\ oEvents' \in Nat /\ oMode' \in Box!Modes
    BY <1>1, <1>4, Nones, LateAsked DEF Box!Restart, Box!Happens, Box!TypeOK, Box!Modes
  <2>2. UNCHANGED <<oDoc, oAnswers, oReached, Box!store, oCursor, oOutcome, oMade, oDiscarded, oRevived, oOvertaken, oLink>>
    BY <1>4 DEF Box!Restart
  <2> QED BY <1>1, <2>1, <2>2 DEF Box!TypeOK, TheRun, TheSave, Box!store, Box!screen
<1>5. CASE Box!LinkLost \/ Box!LinkBack \/ Box!AcceptOffline \/ Box!Drain
  <2>1. oMode' \in Box!Modes
    BY <1>1, <1>5 DEF Box!LinkLost, Box!LinkBack, Box!AcceptOffline, Box!Drain, Box!Lost, Box!Modes, Box!TypeOK
  <2>3. oLink' \in BOOLEAN /\ oEvents' \in Nat
    <3>1. oLink \in BOOLEAN /\ oEvents \in Nat
      BY <1>1 DEF Box!TypeOK
    <3>2. oEvents' = oEvents \/ oEvents' = oEvents + 1
      BY <1>5 DEF Box!LinkLost, Box!LinkBack, Box!AcceptOffline, Box!Drain, Box!Happens
    <3>4. oLink' \in BOOLEAN
      BY <1>5, <3>1 DEF Box!LinkLost, Box!LinkBack, Box!AcceptOffline, Box!Drain
    <3> QED BY <3>1, <3>2, <3>4
  <2>2. UNCHANGED <<Box!server, Box!store, oCursor, oRun, Box!saves>>
    BY <1>5 DEF Box!LinkLost, Box!LinkBack, Box!AcceptOffline, Box!Drain
  <2> QED BY <1>1, <2>1, <2>2, <2>3 DEF Box!TypeOK, Box!server, Box!store, Box!screen, Box!saves
<1> QED BY <1>2, <1>3, <1>4, <1>5

LEMMA PullTyped == ASSUME BoxInv, Box!Pull \/ Box!ApplyPull \/ Box!EditByOther PROVE Box!TypeOK'
<1>1. Box!TypeOK /\ oRun \in TheRun /\ oRun.got.v \in Nat /\ oRun.got.body \in Box!Bodies /\ oDoc.v \in Nat /\ oDoc.body \in Box!Bodies
  BY DEF BoxInv, Box!TypeOK, TheRun, Box!Result
<1>2. CASE Box!Pull
  <2>1. Box!Res("applied", oDoc) \in Box!Result
    BY <1>1 DEF Box!Res, Box!Result
  <2>2. oRun' \in TheRun
    BY <1>1, <1>2, <2>1 DEF Box!Pull, TheRun
  <2>3. UNCHANGED <<Box!server, Box!store, oCursor, Box!saves, oMode, oLink, oEvents>>
    BY <1>2 DEF Box!Pull
  <2> QED BY <1>1, <2>2, <2>3 DEF Box!TypeOK, TheRun, Box!server, Box!store, Box!screen, Box!saves
<1>3. CASE Box!ApplyPull
  <2>1. oRow' \in Box!Bodies /\ {oShown', oKnown', oCursor'} \subseteq Nat /\ oOlder' \in BOOLEAN
    <3>1. Box!Applied \/ UNCHANGED Box!screen
      BY <1>3 DEF Box!ApplyPull
    <3>2. oKnown' \in {oKnown, oRun.got.v} /\ oCursor' = oRun.got.v
      BY <1>3 DEF Box!ApplyPull
    <3> QED BY <1>1, <3>1, <3>2 DEF Box!Applied, Box!Shows, Box!screen, Box!TypeOK
  <2>2. oRun' \in TheRun /\ oLink' \in BOOLEAN
    BY <1>3, Nones DEF Box!ApplyPull
  <2>3. oMode' \in Box!Modes
    BY <1>1, <1>3 DEF Box!ApplyPull, Box!TypeOK, Box!Modes
  <2>4. UNCHANGED <<Box!server, oQueue, oNextId, Box!saves, oEvents>>
    BY <1>3 DEF Box!ApplyPull
  <2> QED BY <1>1, <2>1, <2>2, <2>3, <2>4 DEF Box!TypeOK, TheRun, Box!server, Box!saves
<1>4. CASE Box!EditByOther
  <2>1. Box!Theirs(oDoc.v + 1) \in Box!Bodies
    BY <1>1 DEF Box!Theirs, Box!Bodies
  <2>2. oDoc' \in [v : Nat, body : Box!Bodies] /\ oEvents' \in Nat
    BY <1>1, <1>4, <2>1 DEF Box!EditByOther, Box!Happens, Box!TypeOK
  <2>3. UNCHANGED <<oAnswers, oLate, oReached, Box!store, oCursor, oRun, Box!saves, oMode, oLink>>
    BY <1>4 DEF Box!EditByOther
  <2> QED BY <1>1, <2>2, <2>3 DEF Box!TypeOK, Box!store, Box!screen, Box!saves
<1> QED BY <1>2, <1>3, <1>4
-----------------------------------------------------------------------------
(* A new edit *)

\* Entry e is entry o with the edit n folded into it.
Took(e, o, n) ==
  /\ e.n = n /\ e.saw = oShown /\ ~e.sent /\ Box!Pending(e)
  /\ e.method = o.method /\ e.base = o.base /\ (e.tries <=> o.tries)
  /\ \/ e.id = o.id /\ oNextId' = oNextId /\ ~o.sent /\ Box!Pending(o)
     \/ e.id = oNextId /\ oNextId' = oNextId + 1 /\ Box!Failed(o) /\ o.method = "POST"
\* Entry e is new.
Unsent(e, n) ==
  /\ e.id = oNextId /\ oNextId' = oNextId + 1 /\ e.n = n /\ e.saw = oShown /\ ~e.sent /\ ~e.tries /\ Box!Pending(e)
  /\ \/ e.method = "POST" /\ e.base = Box!NoBase /\ Box!NoCreate /\ oKnown = 0
     \/ e.method = "PUT" /\ (e.base = Box!NoBase \/ e.base = oKnown)
PutAt(i, e) ==
  /\ oQueue' \in Seq(Box!Entry) /\ i \in DOMAIN oQueue' /\ oQueue'[i] = e /\ e \in Box!Entry
  /\ DOMAIN oQueue' = DOMAIN oQueue \cup {i} /\ \A j \in DOMAIN oQueue : j # i => oQueue'[j] = oQueue[j]
AddedBy(n, i, e) ==
  /\ PutAt(i, e)
  /\ (i \in DOMAIN oQueue /\ Took(e, oQueue[i], n)) \/ (i \notin DOMAIN oQueue /\ Unsent(e, n))

LEMMA Appended ==
  ASSUME oQueue \in Seq(Box!Entry), NEW e \in Box!Entry, oQueue' = Append(oQueue, e)
  PROVE  PutAt(Len(oQueue) + 1, e) /\ Len(oQueue) + 1 \notin DOMAIN oQueue
<1>1. /\ Append(oQueue, e) \in Seq(Box!Entry) /\ Len(Append(oQueue, e)) = Len(oQueue) + 1
      /\ \A i \in 1 .. Len(oQueue) : Append(oQueue, e)[i] = oQueue[i]
      /\ Append(oQueue, e)[Len(oQueue) + 1] = e
  BY AppendProperties
<1>2. Len(oQueue) \in Nat /\ DOMAIN oQueue = 1 .. Len(oQueue)
  OBVIOUS
<1>3. DOMAIN oQueue' = 1 .. Len(oQueue) + 1
  BY <1>1
<1> QED BY <1>1, <1>2, <1>3 DEF PutAt

LEMMA Replacing ==
  ASSUME oQueue \in Seq(Box!Entry), NEW i \in DOMAIN oQueue, NEW e \in Box!Entry, oQueue' = Box!Replaced(oQueue, i, e)
  PROVE  PutAt(i, e)
<1>1. /\ oQueue' \in Seq(Box!Entry) /\ DOMAIN oQueue' = DOMAIN oQueue
      /\ \A j \in DOMAIN oQueue : oQueue'[j] = IF j = i THEN e ELSE oQueue[j]
  BY Put
<1>2. DOMAIN oQueue \cup {i} = DOMAIN oQueue
  OBVIOUS
<1> QED BY <1>1, <1>2 DEF PutAt

LEMMA Enters ==
  ASSUME Box!TypeOK, NEW n \in Nat, Box!Upsert(n)
  PROVE  \E i, e : AddedBy(n, i, e)
<1>1. oQueue \in Seq(Box!Entry) /\ oNextId \in Nat /\ oShown \in Nat /\ oKnown \in Nat /\ \A i \in DOMAIN oQueue : oQueue[i] \in Box!Entry
  BY QueueTyped DEF Box!TypeOK
<1>2. ASSUME NEW method \in {"POST", "PUT"}, NEW base \in Nat, Box!Enqueue(Box!New(method, n, base)),
             IF method = "POST" THEN base = Box!NoBase /\ Box!NoCreate /\ oKnown = 0 ELSE base = Box!NoBase \/ base = oKnown
      PROVE  \E i, e : AddedBy(n, i, e)
  <2> DEFINE e == Box!New(method, n, base)
  <2>1. /\ e \in Box!Entry /\ e.id = oNextId /\ e.n = n /\ e.saw = oShown /\ e.sent = FALSE /\ e.tries = FALSE /\ e.status = "pending"
        /\ e.method = method /\ e.base = base
    BY <1>1 DEF Box!New, Box!NoEntry, Box!Entry
  <2>2. oQueue' = Append(oQueue, e) /\ oNextId' = oNextId + 1
    BY <1>2 DEF Box!Enqueue
  <2> HIDE DEF e
  <2>3. Unsent(e, n)
    BY <1>2, <2>1, <2>2 DEF Unsent, Box!Pending
  <2> QED BY <1>1, <2>1, <2>2, <2>3, Appended DEF AddedBy
<1>3. ASSUME NEW i \in DOMAIN oQueue, oQueue' = Box!Replaced(oQueue, i, [oQueue[i] EXCEPT !.n = n, !.saw = oShown]),
             Box!Pending(oQueue[i]), ~oQueue[i].sent, oNextId' = oNextId
      PROVE  \E k, e : AddedBy(n, k, e)
  <2> DEFINE e == [oQueue[i] EXCEPT !.n = n, !.saw = oShown]
  <2>1. /\ e \in Box!Entry /\ e.n = n /\ e.saw = oShown /\ e.sent = oQueue[i].sent /\ e.tries = oQueue[i].tries /\ e.status = oQueue[i].status
        /\ e.method = oQueue[i].method /\ e.base = oQueue[i].base /\ e.id = oQueue[i].id
    BY <1>1 DEF Box!Entry
  <2>2. oQueue' = Box!Replaced(oQueue, i, e)
    BY <1>3
  <2> HIDE DEF e
  <2>3. Took(e, oQueue[i], n)
    BY <1>3, <2>1 DEF Took, Box!Pending
  <2> QED BY <1>1, <2>1, <2>2, <2>3, Replacing DEF AddedBy
<1>4. CASE Box!FoldIntoCreate(n)
  BY <1>3, <1>4 DEF Box!FoldIntoCreate
<1>5. CASE Box!FoldIntoUpdate(n)
  BY <1>3, <1>5 DEF Box!FoldIntoUpdate, Box!Foldable
<1>6. CASE Box!ReviveCreate(n)
  <2>1. PICK i \in DOMAIN oQueue :
          /\ oQueue[i].method = "POST" /\ Box!Failed(oQueue[i])
          /\ oQueue' = Box!Replaced(oQueue, i, [oQueue[i] EXCEPT !.id = oNextId, !.status = "pending", !.sent = FALSE, !.n = n, !.saw = oShown])
          /\ oNextId' = oNextId + 1
    BY <1>6 DEF Box!ReviveCreate
  <2> DEFINE e == [oQueue[i] EXCEPT !.id = oNextId, !.status = "pending", !.sent = FALSE, !.n = n, !.saw = oShown]
  <2>2. /\ e \in Box!Entry /\ e.n = n /\ e.saw = oShown /\ e.sent = FALSE /\ e.tries = oQueue[i].tries /\ e.status = "pending"
        /\ e.method = oQueue[i].method /\ e.base = oQueue[i].base /\ e.id = oNextId
    BY <1>1 DEF Box!Entry
  <2>3. oQueue' = Box!Replaced(oQueue, i, e)
    BY <2>1
  <2> HIDE DEF e
  <2>4. Took(e, oQueue[i], n)
    BY <2>1, <2>2 DEF Took, Box!Pending
  <2> QED BY <1>1, <2>2, <2>3, <2>4, Replacing DEF AddedBy
<1>7. CASE Box!BehindCreate(n)
  <2>1. Box!Enqueue(Box!New("PUT", n, Box!NoBase)) /\ Box!NoBase \in Nat
    BY <1>7 DEF Box!BehindCreate, Box!NoBase
  <2> QED BY <1>2, <2>1
<1>8. CASE Box!Create(n)
  <2>1. Box!Enqueue(Box!New("POST", n, Box!NoBase)) /\ Box!NoBase \in Nat /\ Box!NoCreate /\ oKnown = 0
    BY <1>8 DEF Box!Create, Box!NoBase
  <2> QED BY <1>2, <2>1
<1>9. CASE Box!Update(n)
  BY <1>1, <1>2, <1>9 DEF Box!Update
<1> QED BY <1>4, <1>5, <1>6, <1>7, <1>8, <1>9 DEF Box!Upsert
\* What a save does: entry e is put at place i of the queue.
SavesBy(n, i, e) ==
  /\ n = oMade + 1 /\ n \in Box!Edits /\ AddedBy(n, i, e) /\ oMade' = n /\ oSaving = Box!NotSaving
  /\ \/ oOutcome' = [oOutcome EXCEPT ![n] = "folded"] /\ oSaving' = oSaving
     \/ oOutcome' = [oOutcome EXCEPT ![n] = "queued"] /\ oSaving' = oSaving
     \/ oNextId' # oNextId /\ oOutcome' = oOutcome /\ oSaving' = [id |-> oNextId, n |-> n, before |-> oRow, shown |-> oShown]
  /\ oRevived' = 0 => /\ oRevived = 0
                      /\ i \in DOMAIN oQueue => e.id = oQueue[i].id
                      /\ i \notin DOMAIN oQueue /\ e.method = "POST" => oMade = 0
  /\ oOvertaken \subseteq oOvertaken' /\ \A j \in DOMAIN oQueue : i \in DOMAIN oQueue /\ i < j => oQueue[j].n \in oOvertaken'
  /\ UNCHANGED <<Box!server, oShown, oOlder, oKnown, oRun, oDiscarded>>

LEMMA SaveIs == ASSUME BoxInv, Box!Save PROVE \E i, e : SavesBy(oMade + 1, i, e)
<1> DEFINE n == oMade + 1
<1>1. oMade \in Nat /\ MaxSaves \in Nat /\ oMade < MaxSaves /\ Box!TypeOK /\ oNextId \in Nat
  BY BoxBounds DEF Box!Save, BoxInv, Box!TypeOK
<1>2. n \in Nat /\ n \in Box!Edits
  BY <1>1 DEF Box!Edits
<1>3. Box!Upsert(n) /\ oMade' = n /\ oSaving = Box!NotSaving
  BY DEF Box!Save
<1>4. PICK i, e : AddedBy(n, i, e)
  BY <1>1, <1>2, <1>3, Enters
<1>5. \/ oOutcome' = [oOutcome EXCEPT ![n] = "folded"] /\ oSaving' = oSaving
      \/ oOutcome' = [oOutcome EXCEPT ![n] = "queued"] /\ oSaving' = oSaving
      \/ oNextId' # oNextId /\ oOutcome' = oOutcome /\ oSaving' = [id |-> oNextId, n |-> n, before |-> oRow, shown |-> oShown]
  BY DEF Box!Save
<1>6. oRevived' = IF (\E o \in Box!Range(oQueue) : o.method = "POST" /\ Box!Failed(o)) \/ (oMade # 0 /\ Box!NoCreate /\ oKnown = 0) THEN n ELSE oRevived
  BY DEF Box!Save
<1>7. ASSUME oRevived' = 0
      PROVE  /\ oRevived = 0
             /\ i \in DOMAIN oQueue => e.id = oQueue[i].id
             /\ i \notin DOMAIN oQueue /\ e.method = "POST" => oMade = 0
  <2>1. n # 0
    BY <1>1
  <2>2. /\ oRevived = 0 /\ ~\E o \in Box!Range(oQueue) : o.method = "POST" /\ Box!Failed(o)
        /\ ~(oMade # 0 /\ Box!NoCreate /\ oKnown = 0)
    BY <1>6, <1>7, <2>1
  <2>3. i \in DOMAIN oQueue => e.id = oQueue[i].id
    <3>1. i \in DOMAIN oQueue => oQueue[i] \in Box!Range(oQueue)
      BY DEF Box!Range
    <3>2. i \in DOMAIN oQueue => Took(e, oQueue[i], n)
      BY <1>4 DEF AddedBy
    <3> QED BY <2>2, <3>1, <3>2 DEF Took
  <2>4. i \notin DOMAIN oQueue /\ e.method = "POST" => oMade = 0
    <3>1. i \notin DOMAIN oQueue => Unsent(e, n)
      BY <1>4 DEF AddedBy
    <3> QED BY <2>2, <3>1 DEF Unsent
  <2> QED BY <2>2, <2>3, <2>4
<1>8. oOvertaken' = oOvertaken \cup {oQueue[j].n : j \in {j \in DOMAIN oQueue : \E k \in 1 .. j - 1 : oQueue'[k] # oQueue[k]}}
  BY DEF Box!Save
<1>9. ASSUME NEW j \in DOMAIN oQueue, i \in DOMAIN oQueue, i < j PROVE oQueue[j].n \in oOvertaken'
  <2>1. oQueue'[i] # oQueue[i]
    <3>1. oQueue'[i].n = n
      BY <1>4, <1>9 DEF AddedBy, PutAt, Took
    <3>2. oQueue[i] \in Copies
      BY <1>9 DEF Copies, Queued, Box!Range
    <3>3. oQueue[i].n <= oMade /\ oQueue[i].n \in Nat
      BY <1>1, <3>2, CopiesTyped DEF BoxInv, Numbers, Box!Entry
    <3> QED BY <1>1, <3>1, <3>3
  <2>2. i \in 1 .. j - 1
    <3>1. i \in 1 .. Len(oQueue) /\ j \in 1 .. Len(oQueue) /\ Len(oQueue) \in Nat
      BY <1>1, <1>9 DEF Box!TypeOK
    <3> QED BY <1>9, <3>1
  <2> QED BY <1>8, <2>1, <2>2
<1>10. UNCHANGED <<Box!server, oShown, oOlder, oKnown, oRun, oDiscarded>>
  BY DEF Box!Save
<1>11. oOvertaken \subseteq oOvertaken'
  BY <1>8
<1>12. SavesBy(n, i, e)
  BY <1>2, <1>3, <1>4, <1>5, <1>7, <1>9, <1>10, <1>11 DEF SavesBy
<1> QED BY <1>12

LEMMA SaveTyped == ASSUME BoxInv, Box!Save PROVE Box!TypeOK'
<1> DEFINE n == oMade + 1
<1>1. Box!TypeOK /\ oSaving \in TheSave /\ oOutcome \in Outcomes /\ oNextId \in Nat /\ oMade \in Nat /\ oRow \in Box!Bodies /\ oShown \in Nat
  BY DEF BoxInv, Box!TypeOK, TheSave, Outcomes
<1>2. PICK i, e : SavesBy(n, i, e)
  BY SaveIs
<1>3. n \in Nat /\ n \in Box!Edits
  BY <1>1, <1>2 DEF SavesBy
<1>4. oQueue' \in Seq(Box!Entry)
  BY <1>2 DEF SavesBy, AddedBy, PutAt
<1>5. oNextId' \in Nat
  <2>1. oNextId' = oNextId \/ oNextId' = oNextId + 1
    BY <1>2 DEF SavesBy, AddedBy, Took, Unsent
  <2> QED BY <1>1, <2>1
<1>6. oSaving' \in TheSave /\ oOutcome' \in Outcomes
  BY <1>1, <1>2, <1>3 DEF SavesBy, TheSave, Outcomes
<1>7. oRow' \in Box!Bodies /\ oRevived' \in Nat
  <2>1. Box!Mine(n) \in Box!Bodies
    BY <1>3 DEF Box!Mine, Box!Bodies
  <2>2. oRow' = Box!Mine(n) /\ oRevived' \in {n, oRevived}
    BY DEF Box!Save
  <2> QED BY <1>1, <1>3, <2>1, <2>2 DEF Box!TypeOK
<1>8. oMode' \in Box!Modes
  <2>1. Box!SettleDrain(oQueue') /\ oMode \in Box!Modes
    BY <1>1 DEF Box!Save, Box!TypeOK
  <2> QED BY <2>1, ModeTyped
<1>9. oOvertaken' \subseteq Box!Edits
  <2>1. oOvertaken' = oOvertaken \cup {oQueue[j].n : j \in {j \in DOMAIN oQueue : \E k \in 1 .. j - 1 : oQueue'[k] # oQueue[k]}}
    BY DEF Box!Save
  <2>2. ASSUME NEW j \in DOMAIN oQueue PROVE oQueue[j].n \in Box!Edits
    <3>1. oQueue[j] \in Copies
      BY DEF Copies, Queued, Box!Range
    <3>2. oQueue[j].n \in Nat /\ oQueue[j].n >= 1 /\ oQueue[j].n <= oMade /\ oMade <= MaxSaves /\ MaxSaves \in Nat
      BY <1>1, <3>1, CopiesTyped, BoxBounds DEF BoxInv, Numbers, Box!Entry
    <3> QED BY <1>1, <3>2 DEF Box!Edits
  <2> QED BY <1>1, <2>1, <2>2 DEF Box!TypeOK
<1>10. oMade' = n /\ UNCHANGED <<Box!server, oShown, oOlder, oKnown, oCursor, oRun, oDiscarded, oLink, oEvents>>
  BY DEF Box!Save
<1> QED BY <1>1, <1>3, <1>4, <1>5, <1>6, <1>7, <1>8, <1>9, <1>10 DEF Box!TypeOK, TheSave, Outcomes, Box!server
\* Where the entries of the new queue come from
LEMMA SaveSets ==
  ASSUME BoxInv, NEW n, NEW i, NEW e, SavesBy(n, i, e)
  PROVE  /\ Out' = Out /\ Done' = Done /\ oAnswers' = oAnswers /\ oDoc' = oDoc /\ oReached' = oReached /\ Out \subseteq Copies /\ Queued \subseteq Copies
         /\ e \in Queued' /\ e \in Box!Entry /\ e.n = n /\ ~e.sent /\ Box!Pending(e) /\ n \in Nat /\ oMade \in Nat /\ n = oMade + 1 /\ oNextId \in Nat
         /\ \A x \in Queued' : x = e \/ (x \in Queued /\ x.id # e.id)
         /\ \A x \in Queued : x \in Queued' \/ (i \in DOMAIN oQueue /\ x = oQueue[i])
         /\ Copies' \subseteq Copies \cup {e}
         /\ i \in DOMAIN oQueue => oQueue[i] \in Queued /\ Took(e, oQueue[i], n)
         /\ i \notin DOMAIN oQueue => Unsent(e, n)
         /\ e.id # oNextId => e.id < oNextId
         /\ e.id \notin Done /\ \A o \in Out : o.id # e.id
         /\ \A c \in Copies : c \in Box!Entry /\ c.n >= 1 /\ c.n <= oMade /\ c.id >= 1 /\ c.id < oNextId /\ c.n # n /\ c.id # oNextId
<1>1. Out' = Out /\ Done' = Done /\ oAnswers' = oAnswers /\ oDoc' = oDoc /\ oReached' = oReached /\ Out \subseteq Copies /\ Queued \subseteq Copies
  BY DEF SavesBy, Box!server, Out, Asks, Done, Copies
<1>2. AddedBy(n, i, e) /\ PutAt(i, e) /\ n = oMade + 1
  BY DEF SavesBy, AddedBy
<1>3. \A x : (x \in Queued' <=> \E j \in DOMAIN oQueue' : x = oQueue'[j]) /\ (x \in Queued <=> \E j \in DOMAIN oQueue : x = oQueue[j])
  BY DEF Queued, Box!Range
<1>4. oMade \in Nat /\ oNextId \in Nat
  BY DEF BoxInv, Box!TypeOK
<1>5. n \in Nat
  BY <1>2, <1>4
<1>6. ASSUME NEW c \in Copies PROVE c \in Box!Entry /\ c.n >= 1 /\ c.n <= oMade /\ c.id >= 1 /\ c.id < oNextId /\ c.n # n /\ c.id # oNextId
  <2>1. c \in Box!Entry /\ c.n \in Nat /\ c.id \in Nat
    BY CopiesTyped DEF BoxInv, Box!Entry
  <2>2. c.n >= 1 /\ c.n <= oMade /\ c.id >= 1 /\ c.id < oNextId
    BY DEF BoxInv, Numbers
  <2> QED BY <1>2, <1>4, <2>1, <2>2
<1>7. i \in DOMAIN oQueue => oQueue[i] \in Queued /\ Took(e, oQueue[i], n)
  BY <1>2, <1>3 DEF AddedBy
<1>8. i \notin DOMAIN oQueue => Unsent(e, n)
  BY <1>2 DEF AddedBy
<1>9. e \in Queued' /\ e \in Box!Entry /\ e.n = n /\ ~e.sent /\ Box!Pending(e)
  BY <1>2, <1>3, <1>7, <1>8 DEF PutAt, Took, Unsent
<1>10. e.id = oNextId \/ (i \in DOMAIN oQueue /\ e.id = oQueue[i].id /\ ~oQueue[i].sent)
  BY <1>7, <1>8 DEF Took, Unsent
<1>11. e.id \notin Done /\ \A o \in Out : o.id # e.id
  <2>1. CASE e.id = oNextId
    <3>1. oNextId \notin 1 .. oNextId - 1
      BY <1>4
    <3> QED BY <1>1, <1>6, <2>1, <3>1 DEF BoxInv, Numbers
  <2>2. CASE i \in DOMAIN oQueue /\ e.id = oQueue[i].id /\ ~oQueue[i].sent
    BY <1>7, <2>2 DEF BoxInv, Same
  <2> QED BY <1>10, <2>1, <2>2
<1>12. ASSUME NEW x \in Queued' PROVE x = e \/ (x \in Queued /\ x.id # e.id)
  <2>1. PICK j \in DOMAIN oQueue' : x = oQueue'[j]
    BY <1>3
  <2>2. CASE j = i
    BY <1>2, <2>1, <2>2 DEF PutAt
  <2>3. CASE j # i
    <3>1. j \in DOMAIN oQueue /\ x = oQueue[j]
      BY <1>2, <2>1, <2>3 DEF PutAt
    <3>2. x \in Queued
      BY <1>3, <3>1
    <3>3. x.id # e.id
      <4>1. CASE e.id = oNextId
        BY <1>1, <1>6, <3>2, <4>1
      <4>2. CASE i \in DOMAIN oQueue /\ e.id = oQueue[i].id
        BY <2>3, <3>1, <4>2 DEF BoxInv, Numbers, Distinct
      <4> QED BY <1>10, <4>1, <4>2
    <3> QED BY <3>2, <3>3
  <2> QED BY <2>2, <2>3
<1>13. ASSUME NEW x \in Queued PROVE x \in Queued' \/ (i \in DOMAIN oQueue /\ x = oQueue[i])
  <2>1. PICK j \in DOMAIN oQueue : x = oQueue[j]
    BY <1>3
  <2>2. j = i \/ (j \in DOMAIN oQueue' /\ x = oQueue'[j])
    BY <1>2, <2>1 DEF PutAt
  <2> QED BY <1>3, <2>1, <2>2
<1>14. Copies' \subseteq Copies \cup {e}
  BY <1>1, <1>12 DEF Copies
<1>15. e.id # oNextId => e.id < oNextId
  BY <1>1, <1>6, <1>7, <1>10
<1> QED BY <1>1, <1>2, <1>4, <1>5, <1>6, <1>7, <1>8, <1>9, <1>11, <1>12, <1>13, <1>14, <1>15

LEMMA SaveNumbers == ASSUME BoxInv, Box!TypeOK', NEW n, NEW i, NEW e, SavesBy(n, i, e) PROVE Numbers'
<1>1. oMade' = n /\ n \in Box!Edits /\ oRun' = oRun /\ AddedBy(n, i, e) /\ PutAt(i, e)
  BY DEF SavesBy, AddedBy
<1>2. oNextId' = oNextId \/ oNextId' = oNextId + 1
  BY SaveSets DEF Took, Unsent
<1>3. oMade' <= MaxSaves /\ oNextId' >= 1
  BY <1>1, <1>2, SaveSets, BoxBounds DEF Box!Edits, BoxInv, Numbers
<1>4. Distinct(oQueue')
  <2> SUFFICES ASSUME NEW j \in DOMAIN oQueue', NEW k \in DOMAIN oQueue', oQueue'[j].id = oQueue'[k].id PROVE j = k
    BY DEF Distinct
  <2>1. ASSUME NEW m \in DOMAIN oQueue', m # i PROVE m \in DOMAIN oQueue /\ oQueue'[m] = oQueue[m] /\ oQueue[m].id # e.id
    <3>1. m \in DOMAIN oQueue /\ oQueue'[m] = oQueue[m]
      BY <1>1, <2>1 DEF PutAt
    <3>2. oQueue[m] \in Queued
      BY <3>1 DEF Queued, Box!Range
    <3>3. oQueue[m].id # e.id
      <4>1. CASE i \in DOMAIN oQueue /\ e.id = oQueue[i].id
        BY <2>1, <3>1, <4>1 DEF BoxInv, Numbers, Distinct
      <4>2. CASE e.id = oNextId
        BY <3>2, <4>2, SaveSets
      <4> QED BY <4>1, <4>2, SaveSets DEF Took, Unsent
    <3> QED BY <3>1, <3>3
  <2>2. oQueue'[i] = e
    BY <1>1 DEF PutAt
  <2>3. CASE j = i \/ k = i
    BY <2>1, <2>2, <2>3
  <2>4. CASE j # i /\ k # i
    BY <2>1, <2>4 DEF BoxInv, Numbers, Distinct
  <2> QED BY <2>3, <2>4
<1>5. ASSUME NEW c \in Copies'
      PROVE  c.id >= 1 /\ c.id < oNextId' /\ c.n >= 1 /\ c.n <= oMade' /\ (c.method = "POST" => c.base = Box!NoBase)
  <2>1. CASE c \in Copies
    <3>1. c.id >= 1 /\ c.id < oNextId /\ c.n >= 1 /\ c.n <= oMade /\ (c.method = "POST" => c.base = Box!NoBase) /\ c \in Box!Entry
      BY <2>1, SaveSets DEF BoxInv, Numbers
    <3>2. c.id \in Nat /\ c.n \in Nat
      BY <3>1 DEF Box!Entry
    <3> QED BY <1>1, <1>2, <3>1, <3>2, SaveSets
  <2>2. CASE c = e
    <3>1. e.n = n /\ e.id \in Nat /\ n >= 1
      BY SaveSets DEF Box!Entry
    <3>2. e.id >= 1 /\ e.id < oNextId' /\ (e.method = "POST" => e.base = Box!NoBase)
      <4>1. CASE i \in DOMAIN oQueue
        <5>1. oQueue[i].id >= 1 /\ oQueue[i].id < oNextId /\ (oQueue[i].method = "POST" => oQueue[i].base = Box!NoBase) /\ Took(e, oQueue[i], n)
          BY <4>1, SaveSets DEF BoxInv, Numbers
        <5> QED BY <1>3, <3>1, <5>1, SaveSets DEF Took, BoxInv, Numbers
      <4>2. CASE i \notin DOMAIN oQueue
        BY <1>3, <3>1, <4>2, SaveSets DEF Unsent, BoxInv, Numbers
      <4> QED BY <4>1, <4>2
    <3> QED BY <1>1, <2>2, <3>1, <3>2, SaveSets
  <2>3. c \in Copies \/ c = e
    BY SaveSets DEF Copies
  <2> QED BY <2>1, <2>2, <2>3
<1>6. Done' \subseteq 1 .. oNextId' - 1 /\ oRun'.tried \subseteq 1 .. oNextId' - 1
  <2>1. 1 .. oNextId - 1 \subseteq 1 .. oNextId' - 1
    BY <1>2, SaveSets
  <2> QED BY <1>1, <2>1, SaveSets DEF BoxInv, Numbers
<1>7. oReached' \subseteq 1 .. oMade'
  <2>1. 1 .. oMade \subseteq 1 .. n
    BY SaveSets
  <2> QED BY <1>1, <2>1, SaveSets DEF BoxInv, Numbers
<1>8. oMade' # 0
  BY <1>1, SaveSets
<1>9. ASSUME NEW m \in Box!Edits, m > oMade' PROVE oOutcome'[m] = "none"
  <2>1. m \in Nat /\ m # n /\ m > oMade
    BY <1>1, <1>9, SaveSets, BoxBounds DEF Box!Edits
  <2>2. oOutcome'[m] = oOutcome[m]
    BY <2>1 DEF SavesBy, BoxInv, Box!TypeOK
  <2> QED BY <2>1, <2>2 DEF BoxInv, Numbers
<1> QED BY <1>3, <1>4, <1>5, <1>6, <1>7, <1>8, <1>9 DEF Numbers

LEMMA SaveSame == ASSUME BoxInv, Box!TypeOK', NEW n, NEW i, NEW e, SavesBy(n, i, e) PROVE Same'
<1>1. oRun' = oRun /\ Same
  BY DEF SavesBy, BoxInv
<1>2. \A x \in Queued' : ~x.sent => x.id \notin Done' /\ \A o \in Out' : o.id # x.id
  BY <1>1, SaveSets DEF Same
<1>3. ASSUME NEW x \in Copies', NEW o \in Out', x.id = o.id PROVE x.n = o.n /\ x.method = o.method /\ x.saw = o.saw /\ (x.base = Box!NoBase <=> o.base = Box!NoBase)
  <2>1. x \in Copies
    BY <1>3, SaveSets DEF Copies
  <2> QED BY <1>1, <1>3, <2>1, SaveSets DEF Same
<1>4. \A x \in Queued' : Box!Failed(x) => x.id \in Done' /\ oAnswers'[x.id].is # "applied" /\ x.tries
  BY <1>1, SaveSets DEF Same, Box!Failed
<1>5. oRun'.st = "answered" /\ oRun'.got.is # "retry" => oRun'.ask.id \in Done' /\ oRun'.got = oAnswers'[oRun'.ask.id]
  BY <1>1, SaveSets DEF Same
<1>6. ASSUME oRun'.st \in {"asked", "answered"}, NEW x \in Queued', x.id \in oRun'.tried PROVE x.tries
  <2>1. CASE x \in Queued
    BY <1>1, <1>6, <2>1 DEF Same
  <2>2. CASE x = e
    <3>1. e.id \in 1 .. oNextId - 1
      BY <1>1, <1>6, <2>2 DEF BoxInv, Numbers
    <3>2. e.id # oNextId
      BY <3>1, SaveSets
    <3>3. i \in DOMAIN oQueue /\ e.id = oQueue[i].id /\ (e.tries <=> oQueue[i].tries) /\ oQueue[i] \in Queued
      BY <3>2, SaveSets DEF Took, Unsent
    <3> QED BY <1>1, <1>6, <2>2, <3>3 DEF Same
  <2> QED BY <2>1, <2>2, SaveSets
<1> QED BY <1>2, <1>3, <1>4, <1>5, <1>6 DEF Same

LEMMA SaveWaiting == ASSUME BoxInv, Box!TypeOK', NEW n, NEW i, NEW e, SavesBy(n, i, e) PROVE Waiting'
<1> SUFFICES ASSUME oSaving' # Box!NotSaving
             PROVE  /\ oSaving'.n \in Box!Edits /\ oOutcome'[oSaving'.n] = "none"
                    /\ \E x \in Queued' : x.id = oSaving'.id /\ x.n = oSaving'.n /\ Box!Pending(x)
                    /\ \A x \in Copies' : x.n = oSaving'.n => x.id = oSaving'.id
                    /\ oSaving'.n \in oReached' => oSaving'.id \in Done' /\ oAnswers'[oSaving'.id].is = "applied"
  BY DEF Waiting, Box!NotSaving
<1>1. oNextId' # oNextId /\ oOutcome' = oOutcome /\ oSaving'.id = oNextId /\ oSaving'.n = n /\ n \in Box!Edits
  BY DEF SavesBy
<1>2. e.id = oNextId
  BY <1>1, SaveSets DEF Took, Unsent
<1>3. oOutcome[n] = "none"
  BY <1>1, SaveSets DEF BoxInv, Numbers
<1>4. n \notin oReached
  BY SaveSets DEF BoxInv, Numbers
<1>5. \A x \in Copies' : x.n = n => x.id = oNextId
  BY <1>2, SaveSets DEF Copies
<1> QED BY <1>1, <1>2, <1>3, <1>4, <1>5, SaveSets

LEMMA SaveNothing == ASSUME BoxInv, Box!TypeOK', NEW n, NEW i, NEW e, SavesBy(n, i, e) PROVE NothingBack'
<1> SUFFICES ASSUME NEW m \in Box!Edits, oOutcome'[m] \in {"refused", "unreachable"}
             PROVE  m \notin oReached' /\ (\A x \in Queued' : x.n # m) /\ \A x \in Out' : x.n = m => x.id \in Done'
  BY DEF NothingBack
<1>1. oOutcome[n] = "none" /\ n \in Box!Edits
  BY SaveSets DEF BoxInv, Numbers, SavesBy
<1>2. m # n /\ oOutcome'[m] = oOutcome[m]
  BY <1>1 DEF SavesBy, BoxInv, Box!TypeOK
<1> QED BY <1>2, SaveSets DEF BoxInv, NothingBack

LEMMA SaveKept == ASSUME BoxInv, Box!TypeOK', NEW n, NEW i, NEW e, SavesBy(n, i, e) PROVE Kept'
<1> SUFFICES ASSUME oRevived' = 0, NEW m \in Box!Edits, oOutcome'[m] \in {"queued", "folded"}
             PROVE  (\E x \in Queued' : x.id # oSaving'.id /\ x.n >= m) \/ \E k \in oReached' \cup oDiscarded' : k >= m
  BY DEF Kept
<1>1. oRevived = 0 /\ oSaving.id = 0 /\ n \in Box!Edits /\ oDiscarded' = oDiscarded /\ (i \in DOMAIN oQueue => e.id = oQueue[i].id)
  BY DEF SavesBy, Box!NotSaving
<1>2. oSaving'.id = 0 \/ (oSaving'.id = oNextId /\ oOutcome' = oOutcome /\ oNextId' # oNextId)
  BY <1>1 DEF SavesBy
<1>3. e.id >= 1 /\ e.n = n /\ m \in Nat /\ m <= MaxSaves
  <2>1. i \in DOMAIN oQueue => e.id >= 1
    BY <1>1, SaveSets
  <2>2. i \notin DOMAIN oQueue => e.id >= 1
    BY SaveSets DEF Unsent, BoxInv, Numbers
  <2> QED BY <2>1, <2>2, SaveSets, BoxBounds DEF Box!Edits
<1>4. CASE m = n
  <2>1. oOutcome[n] = "none"
    BY <1>1, SaveSets DEF BoxInv, Numbers
  <2>2. oSaving'.id = 0
    BY <1>2, <1>4, <2>1
  <2> QED BY <1>3, <1>4, <2>2, SaveSets
<1>5. CASE m # n
  <2>1. oOutcome[m] \in {"queued", "folded"}
    BY <1>5 DEF SavesBy, BoxInv, Box!TypeOK
  <2>2. (\E x \in Queued : x.id # 0 /\ x.n >= m) \/ \E k \in oReached \cup oDiscarded : k >= m
    BY <1>1, <2>1 DEF BoxInv, Kept
  <2>3. ASSUME NEW x \in Queued, x.n >= m PROVE \E y \in Queued' : y.id # oSaving'.id /\ y.n >= m
    <3>1. CASE x \in Queued'
      BY <1>2, <2>3, <3>1, SaveSets
    <3>2. CASE i \in DOMAIN oQueue /\ x = oQueue[i]
      <4>1. e.id = oQueue[i].id /\ e.n >= m /\ e.id # oNextId
        <5>1. x.n \in Nat
          BY SaveSets DEF Box!Entry
        <5> QED BY <1>1, <1>3, <2>3, <3>2, <5>1, SaveSets
      <4>2. e.id # oSaving'.id
        BY <1>2, <1>3, <4>1
      <4> QED BY <4>1, <4>2, SaveSets
    <3> QED BY <3>1, <3>2, SaveSets
  <2> QED BY <1>1, <2>2, <2>3, SaveSets
<1> QED BY <1>4, <1>5
LEMMA SaveCreates == ASSUME BoxInv, Box!TypeOK', NEW n, NEW i, NEW e, SavesBy(n, i, e) PROVE Creates'
<1> SUFFICES ASSUME oRevived' = 0 PROVE Creates'
  BY DEF Creates
<1>1. oRevived = 0 /\ (i \in DOMAIN oQueue => e.id = oQueue[i].id) /\ (i \notin DOMAIN oQueue /\ e.method = "POST" => oMade = 0)
  BY DEF SavesBy
<1>2. /\ \A x, o \in Queued : x.method = "POST" /\ o.method = "POST" => x.id = o.id
      /\ \A x, o \in Copies : x.method = "POST" /\ o.method = "POST" /\ o.id \notin Done =>
           oDoc.v = 0 /\ (x \in Queued \/ x.id \notin Done => x.id = o.id)
      /\ \A x \in Queued : x.method = "POST" /\ x.id \in Done /\ oAnswers[x.id].is # "applied" => oDoc.v = 0
      /\ \A x \in Copies : x.id \in Done /\ oAnswers[x.id].is = "applied" => x.n \in oReached
      /\ \A k \in Done : oAnswers[k].is = "applied" => oAnswers[k].body \in MyBodies
  BY <1>1 DEF BoxInv, Creates
\* Each entry was there under its id, or is the only change there has been, or is an update.
<1>3. ASSUME NEW x \in Copies'
      PROVE  \/ \E o \in Copies : o.id = x.id /\ o.method = x.method /\ (x \in Queued' => o \in Queued) /\ (x.id \in Done => x = o)
             \/ x = e /\ e.method = "PUT"
             \/ x = e /\ Copies = {} /\ oDoc.v = 0 /\ e.method = "POST"
  <2>1. CASE x \in Copies /\ x # e
    <3>1. x \in Queued' => x \in Queued
      BY <2>1, SaveSets
    <3> QED BY <2>1, <3>1
  <2>2. CASE x = e /\ i \in DOMAIN oQueue
    BY <1>1, <2>2, SaveSets DEF Took
  <2>3. CASE x = e /\ i \notin DOMAIN oQueue
    <3>1. e.method = "POST" => oMade = 0 /\ oKnown = 0
      <4>1. e.method = "POST" => oKnown = 0
        BY <2>3, SaveSets DEF Unsent
      <4> QED BY <1>1, <2>3, <4>1
    <3>2. e.method = "POST" => oDoc.v = 0
      BY <3>1 DEF BoxInv, Numbers
    <3>3. oMade = 0 => Copies = {}
      <4>1. \A c \in Copies : c.n \in Nat /\ c.n >= 1 /\ c.n <= oMade
        BY SaveSets DEF Box!Entry
      <4> QED BY <4>1
    <3>4. e.method \in {"POST", "PUT"}
      BY SaveSets DEF Box!Entry
    <3> QED BY <2>3, <3>1, <3>2, <3>3, <3>4
  <2>4. x \in Copies \/ x = e
    BY SaveSets
  <2> QED BY <2>1, <2>2, <2>3, <2>4
<1>4. Queued' \subseteq Copies' /\ Queued \subseteq Copies
  BY DEF Copies
<1>5. ASSUME Copies = {} PROVE \A x \in Copies' : x = e
  BY <1>5, SaveSets
<1>6. ASSUME NEW x \in Queued', NEW o \in Queued', x.method = "POST", o.method = "POST" PROVE x.id = o.id
  <2>1. x \in Copies' /\ o \in Copies'
    BY <1>4
  <2>2. CASE Copies = {}
    BY <1>5, <2>1, <2>2
  <2>3. CASE Copies # {}
    <3>1. PICK y \in Copies : y.id = x.id /\ y.method = "POST" /\ y \in Queued
      BY <1>3, <1>6, <2>1, <2>3
    <3>2. PICK z \in Copies : z.id = o.id /\ z.method = "POST" /\ z \in Queued
      BY <1>3, <1>6, <2>1, <2>3
    <3> QED BY <1>2, <3>1, <3>2
  <2> QED BY <2>2, <2>3
<1>7. ASSUME NEW x \in Copies', NEW o \in Copies', x.method = "POST", o.method = "POST", o.id \notin Done
      PROVE  oDoc.v = 0 /\ (x \in Queued' \/ x.id \notin Done => x.id = o.id)
  <2>1. CASE Copies = {}
    BY <1>3, <1>5, <1>7, <2>1
  <2>2. CASE Copies # {}
    <3>1. PICK y \in Copies : y.id = x.id /\ y.method = "POST" /\ (x \in Queued' => y \in Queued)
      BY <1>3, <1>7, <2>2
    <3>2. PICK z \in Copies : z.id = o.id /\ z.method = "POST"
      BY <1>3, <1>7, <2>2
    <3> QED BY <1>2, <1>7, <3>1, <3>2
  <2> QED BY <2>1, <2>2
<1>8. ASSUME NEW x \in Queued', x.method = "POST", x.id \in Done, oAnswers[x.id].is # "applied" PROVE oDoc.v = 0
  <2>1. x \in Queued
    BY <1>8, SaveSets
  <2> QED BY <1>2, <1>8, <2>1
<1>9. ASSUME NEW x \in Copies', x.id \in Done, oAnswers[x.id].is = "applied" PROVE x.n \in oReached
  <2>1. x \in Copies
    BY <1>9, SaveSets
  <2> QED BY <1>2, <1>9, <2>1
<1>10. MyBodies' = MyBodies
  BY DEF MyBodies
<1> QED BY <1>2, <1>6, <1>7, <1>8, <1>9, <1>10, SaveSets DEF Creates

LEMMA SaveBase ==
  ASSUME BoxInv, NEW n, NEW i, NEW e, SavesBy(n, i, e)
  PROVE  e.saw = oShown /\ (e.base = oKnown \/ e.base = Box!NoBase \/ (i \in DOMAIN oQueue /\ e.base = oQueue[i].base /\ oQueue[i] \in Queued))
<1>1. CASE i \in DOMAIN oQueue
  BY <1>1, SaveSets DEF Took
<1>2. CASE i \notin DOMAIN oQueue
  BY <1>2, SaveSets DEF Unsent
<1> QED BY <1>1, <1>2

LEMMA SaveVersions == ASSUME BoxInv, Box!TypeOK', NEW n, NEW i, NEW e, SavesBy(n, i, e) PROVE Versions'
<1>1. /\ {oKnown, oShown, oSaving.shown, oRun.got.v} \subseteq 0 .. oDoc.v /\ oDoc.v \in Nat
      /\ \A x \in Copies : x.base <= oDoc.v
      /\ \A k \in Done : /\ oAnswers[k].v <= oDoc.v /\ (oAnswers[k].v = oDoc.v => oAnswers[k].body = oDoc.body)
                         /\ oAnswers[k].is # "retry" /\ (oAnswers[k].is # "rejected" => oAnswers[k].v >= 1)
      /\ oRun.st \in {"answered", "pulled"} /\ oRun.got.v = oDoc.v => oRun.got.body = oDoc.body
  BY DEF BoxInv, Versions, Box!TypeOK
<1>2. oRun' = oRun /\ oKnown' = oKnown /\ oShown' = oShown /\ oSaving'.shown \in {oSaving.shown, oShown}
  BY DEF SavesBy
<1>3. e.base <= oDoc.v
  BY <1>1, SaveBase, SaveSets DEF Box!NoBase
<1>4. \A x \in Copies' : x.base <= oDoc.v
  BY <1>1, <1>3, SaveSets
<1> QED BY <1>1, <1>2, <1>4, SaveSets DEF Versions

LEMMA SaveBases == ASSUME BoxInv, Box!TypeOK', NEW n, NEW i, NEW e, SavesBy(n, i, e) PROVE Bases'
<1> SUFFICES ASSUME ~oOlder', oRevived' = 0 PROVE Bases'
  BY DEF Bases
<1>1. ~oOlder /\ oRevived = 0 /\ oKnown' = oKnown /\ oShown' = oShown
  BY DEF SavesBy
<1>2. /\ oKnown = oDoc.v /\ oShown < oKnown => oDoc.body \in MyBodies
      /\ \A x \in Copies : x.saw <= oShown /\ (x.base # Box!NoBase /\ x.base = oDoc.v /\ x.saw < x.base => oDoc.body \in MyBodies)
  BY <1>1 DEF BoxInv, Bases
<1>3. oShown \in Nat
  BY DEF BoxInv, Box!TypeOK
<1>4. e.base # Box!NoBase /\ e.base = oDoc.v /\ e.saw < e.base => oDoc.body \in MyBodies
  <2>1. CASE i \in DOMAIN oQueue /\ e.base = oQueue[i].base /\ oQueue[i] \in Copies
    <3>1. oQueue[i].saw <= oShown /\ oQueue[i].saw \in Nat /\ oQueue[i].base \in Nat
      BY <1>2, <2>1, SaveSets DEF Box!Entry
    <3> QED BY <1>2, <1>3, <2>1, <3>1, SaveBase
  <2>2. CASE e.base = oKnown
    BY <1>2, <2>2, SaveBase
  <2> QED BY <2>1, <2>2, SaveBase, SaveSets
<1>5. e.saw <= oShown
  BY <1>3, SaveBase
<1>6. \A x \in Copies' : x.saw <= oShown /\ (x.base # Box!NoBase /\ x.base = oDoc.v /\ x.saw < x.base => oDoc.body \in MyBodies)
  BY <1>2, <1>4, <1>5, SaveSets
<1>7. MyBodies' = MyBodies
  BY DEF MyBodies
<1> QED BY <1>1, <1>2, <1>6, <1>7, SaveSets DEF Bases

LEMMA SaveOrder == ASSUME BoxInv, Box!TypeOK', NEW n, NEW i, NEW e, SavesBy(n, i, e) PROVE Ordered'
<1>1. /\ PutAt(i, e) /\ oOvertaken \subseteq oOvertaken' /\ \A j \in DOMAIN oQueue : i \in DOMAIN oQueue /\ i < j => oQueue[j].n \in oOvertaken'
  BY DEF SavesBy, AddedBy
<1>2. /\ \A j, k \in DOMAIN oQueue : j < k => /\ oQueue[j].n < oQueue[k].n \/ oQueue[k].n \in oOvertaken
                                              /\ oQueue[k].sent => oQueue[j].tries
      /\ \A q \in Queued : ~q.tries /\ q.n \notin oOvertaken =>
           /\ \A x \in Out : x.id \notin Done /\ (\A o \in Queued : o.id # x.id) => x.n < q.n
           /\ q.id \notin Done => \A k \in oReached : k < q.n
  BY DEF BoxInv, Ordered
<1>3. ASSUME NEW j \in DOMAIN oQueue, j # i
      PROVE  oQueue'[j] = oQueue[j] /\ oQueue[j].n < n
  <2>1. oQueue[j] \in Copies
    BY DEF Copies, Queued, Box!Range
  <2>2. oQueue[j].n \in Nat /\ oQueue[j].n <= oMade
    BY <2>1, SaveSets DEF Box!Entry
  <2> QED BY <1>1, <1>3, <2>2, SaveSets DEF PutAt
<1>4. oQueue'[i] = e /\ DOMAIN oQueue' = DOMAIN oQueue \cup {i}
  BY <1>1 DEF PutAt
<1>0. oQueue' \in Seq(Box!Entry) /\ oQueue \in Seq(Box!Entry)
  BY <1>1 DEF PutAt, BoxInv, Box!TypeOK
<1>5. i \notin DOMAIN oQueue => \A j \in DOMAIN oQueue : j < i
  <2> SUFFICES ASSUME i \notin DOMAIN oQueue, NEW j \in DOMAIN oQueue PROVE j < i
    OBVIOUS
  <2>1. Len(oQueue) \in Nat /\ DOMAIN oQueue = 1 .. Len(oQueue) /\ Len(oQueue') \in Nat /\ DOMAIN oQueue' = 1 .. Len(oQueue')
    BY <1>0
  <2>2. i \in Nat /\ j \in Nat /\ i >= 1
    BY <1>4, <2>1
  <2> QED BY <2>1, <2>2
<1>6. ASSUME NEW j \in DOMAIN oQueue', NEW k \in DOMAIN oQueue', j < k
      PROVE  /\ oQueue'[j].n < oQueue'[k].n \/ oQueue'[k].n \in oOvertaken'
             /\ oQueue'[k].sent => oQueue'[j].tries
  <2>0. j \in Nat /\ k \in Nat
    BY <1>0
  <2>1. CASE k = i
    <3>1. j \in DOMAIN oQueue /\ j # i
      BY <1>4, <1>6, <2>0, <2>1
    <3> QED BY <1>3, <1>4, <2>1, <3>1, SaveSets
  <2>2. CASE j = i
    <3>1. k \in DOMAIN oQueue /\ k # i
      BY <1>4, <1>6, <2>0, <2>2
    <3>2. i \in DOMAIN oQueue
      BY <1>5, <1>6, <2>0, <2>2, <3>1
    <3>3. oQueue'[k].n \in oOvertaken'
      BY <1>1, <1>3, <1>6, <2>2, <3>1, <3>2
    <3>4. oQueue[k].sent => oQueue[i].tries
      <4>1. i < k
        BY <1>6, <2>2
      <4> QED BY <1>2, <3>1, <3>2, <4>1
    <3>5. e.tries <=> oQueue[i].tries
      BY <3>2, SaveSets DEF Took
    <3> QED BY <1>3, <1>4, <2>2, <3>1, <3>3, <3>4, <3>5
  <2>3. CASE j # i /\ k # i
    <3>1. j \in DOMAIN oQueue /\ k \in DOMAIN oQueue
      BY <1>4, <2>3
    <3>2. oQueue'[j] = oQueue[j] /\ oQueue'[k] = oQueue[k]
      BY <1>3, <2>3, <3>1
    <3>3. (oQueue[j].n < oQueue[k].n \/ oQueue[k].n \in oOvertaken) /\ (oQueue[k].sent => oQueue[j].tries)
      BY <1>2, <1>6, <3>1
    <3> QED BY <1>1, <3>2, <3>3
  <2> QED BY <2>1, <2>2, <2>3
<1>7. ASSUME NEW q \in Queued', ~q.tries, q.n \notin oOvertaken'
      PROVE  /\ \A x \in Out : x.id \notin Done /\ (\A o \in Queued' : o.id # x.id) => x.n < q.n
             /\ q.id \notin Done => \A k \in oReached : k < q.n
  <2>1. CASE q = e
    <3>1. \A x \in Out : x.n < n
      <4>1. \A x \in Out : x.n \in Nat /\ x.n <= oMade
        BY SaveSets DEF Box!Entry
      <4> QED BY <4>1, SaveSets
    <3>2. \A k \in oReached : k < n
      <4>1. oReached \subseteq 1 .. oMade
        BY DEF BoxInv, Numbers
      <4> QED BY <4>1, SaveSets
    <3> QED BY <2>1, <3>1, <3>2, SaveSets
  <2>2. CASE q # e
    <3>1. q \in Queued /\ q.n \notin oOvertaken
      BY <1>1, <1>7, <2>2, SaveSets
    <3>2. ASSUME NEW x \in Out, x.id \notin Done, \A o \in Queued' : o.id # x.id PROVE x.n < q.n
      <4>1. ASSUME NEW o \in Queued PROVE o.id # x.id
        <5>1. CASE o \in Queued'
          BY <3>2, <5>1
        <5>2. CASE i \in DOMAIN oQueue /\ o = oQueue[i]
          <6>1. CASE e.id = o.id
            BY <6>1, SaveSets
          <6>2. CASE Box!Failed(o)
            <7>1. o.id \in Done
              BY <6>2 DEF BoxInv, Same
            <7> QED BY <3>2, <7>1
          <6> QED BY <5>2, <6>1, <6>2, SaveSets DEF Took
        <5> QED BY <5>1, <5>2, SaveSets
      <4> QED BY <1>2, <1>7, <3>1, <3>2, <4>1
    <3> QED BY <1>2, <1>7, <3>1, <3>2
  <2> QED BY <2>1, <2>2
<1> QED BY <1>6, <1>7, SaveSets DEF Ordered

LEMMA SaveKeeps == ASSUME BoxInv, Box!Save PROVE BoxInv'
<1>1. Box!TypeOK'
  BY SaveTyped
<1>2. PICK i, e : SavesBy(oMade + 1, i, e)
  BY SaveIs
<1> QED BY <1>1, <1>2, SaveNumbers, SaveSame, SaveWaiting, SaveNothing, SaveKept, SaveCreates, SaveVersions, SaveBases, SaveOrder DEF BoxInv
-----------------------------------------------------------------------------
(* An entry leaves the queue: a save is given up, or the person discards a change *)

\* The entry with that id is gone, and nothing else moves.
Loses(id) ==
  /\ Distinct(oQueue') /\ Queued' \subseteq Queued
  /\ \A o \in Queued : o.id # id => o \in Queued'
  /\ \A e \in Queued' : e.id # id
  /\ \A i, j \in DOMAIN oQueue' : i < j => /\ oQueue'[i].n < oQueue'[j].n \/ oQueue'[j].n \in oOvertaken
                                           /\ oQueue'[j].sent => oQueue'[i].tries
  /\ UNCHANGED <<oDoc, oAnswers, oLate, oReached, oNextId, oRun, oMade, oRevived, oOvertaken>>

LEMMA LosesIt ==
  ASSUME BoxInv, NEW id, oQueue' = Box!Without(oQueue, id), UNCHANGED <<oDoc, oAnswers, oLate, oReached, oNextId, oRun, oMade, oRevived, oOvertaken>>
  PROVE  Loses(id)
<1>1. oQueue \in Seq(Box!Entry) /\ Distinct(oQueue)
  BY DEF BoxInv, Box!TypeOK, Numbers
<1>2. PICK f : Drops(oQueue', oQueue, id, f)
  BY <1>1, Dropped
<1>3. /\ f \in [DOMAIN oQueue' -> DOMAIN oQueue] /\ oQueue' \in Seq(Box!Entry)
      /\ \A i, j \in DOMAIN oQueue' : i < j => f[i] < f[j]
      /\ \A i \in DOMAIN oQueue' : oQueue'[i] = oQueue[f[i]] /\ oQueue'[i].id # id
      /\ \A j \in DOMAIN oQueue : oQueue[j].id # id => \E i \in DOMAIN oQueue' : f[i] = j
  BY <1>2 DEF Drops, Left
<1>4. \A x : (x \in Queued' <=> \E j \in DOMAIN oQueue' : x = oQueue'[j]) /\ (x \in Queued <=> \E j \in DOMAIN oQueue : x = oQueue[j])
  BY DEF Queued, Box!Range
<1>5. Queued' \subseteq Queued
  BY <1>3, <1>4
<1>6. ASSUME NEW o \in Queued, o.id # id PROVE o \in Queued'
  <2>1. PICK j \in DOMAIN oQueue : o = oQueue[j]
    BY <1>4
  <2>2. PICK i \in DOMAIN oQueue' : f[i] = j
    BY <1>3, <1>6, <2>1
  <2> QED BY <1>3, <1>4, <2>1, <2>2
<1>7. \A e \in Queued' : e.id # id
  BY <1>3, <1>4
<1>8. Distinct(oQueue')
  <2> SUFFICES ASSUME NEW i \in DOMAIN oQueue', NEW j \in DOMAIN oQueue', oQueue'[i].id = oQueue'[j].id PROVE i = j
    BY DEF Distinct
  <2>1. f[i] = f[j]
    BY <1>1, <1>3 DEF Distinct
  <2>2. i \in Nat /\ j \in Nat /\ f[i] \in Nat
    BY <1>1, <1>3
  <2> QED BY <1>3, <2>1, <2>2
<1>9. ASSUME NEW i \in DOMAIN oQueue', NEW j \in DOMAIN oQueue', i < j
      PROVE  (oQueue'[i].n < oQueue'[j].n \/ oQueue'[j].n \in oOvertaken) /\ (oQueue'[j].sent => oQueue'[i].tries)
  <2>1. f[i] \in DOMAIN oQueue /\ f[j] \in DOMAIN oQueue /\ f[i] < f[j]
    BY <1>3, <1>9
  <2>2. (oQueue[f[i]].n < oQueue[f[j]].n \/ oQueue[f[j]].n \in oOvertaken) /\ (oQueue[f[j]].sent => oQueue[f[i]].tries)
    BY <2>1 DEF BoxInv, Ordered
  <2> QED BY <1>3, <2>2
<1> QED BY <1>5, <1>6, <1>7, <1>8, <1>9 DEF Loses

\* What holds whichever entry goes
LEMMA LossFacts ==
  ASSUME BoxInv, NEW id, Loses(id)
  PROVE  /\ Out' = Out /\ Done' = Done /\ Copies' \subseteq Copies /\ Out \subseteq Copies /\ Queued \subseteq Copies /\ MyBodies' = MyBodies
         /\ Same' /\ Creates'
         /\ \A c \in Copies : c \in Box!Entry /\ c.id \in Nat /\ c.id >= 1 /\ c.id < oNextId
<1>1. UNCHANGED <<oDoc, oAnswers, oLate, oReached, oNextId, oRun, oMade, oRevived, oOvertaken>> /\ Queued' \subseteq Queued
  BY DEF Loses
<1>2. Out' = Out /\ Done' = Done /\ Copies' \subseteq Copies /\ Out \subseteq Copies /\ Queued \subseteq Copies /\ MyBodies' = MyBodies
  BY <1>1 DEF Out, Asks, Done, Copies, MyBodies
<1>3. Same'
  BY <1>1, <1>2 DEF BoxInv, Same
<1>4. Creates'
  <2> SUFFICES ASSUME oRevived' = 0 PROVE Creates'
    BY DEF Creates
  <2>1. /\ \A x, o \in Queued : x.method = "POST" /\ o.method = "POST" => x.id = o.id
        /\ \A x, o \in Copies : x.method = "POST" /\ o.method = "POST" /\ o.id \notin Done =>
             oDoc.v = 0 /\ (x \in Queued \/ x.id \notin Done => x.id = o.id)
        /\ \A x \in Queued : x.method = "POST" /\ x.id \in Done /\ oAnswers[x.id].is # "applied" => oDoc.v = 0
        /\ \A x \in Copies : x.id \in Done /\ oAnswers[x.id].is = "applied" => x.n \in oReached
        /\ \A k \in Done : oAnswers[k].is = "applied" => oAnswers[k].body \in MyBodies
    BY <1>1 DEF BoxInv, Creates
  <2> QED BY <1>1, <1>2, <2>1 DEF Creates
<1>5. \A c \in Copies : c \in Box!Entry /\ c.id \in Nat /\ c.id >= 1 /\ c.id < oNextId
  BY CopiesTyped DEF BoxInv, Numbers, Box!Entry
<1> QED BY <1>2, <1>3, <1>4, <1>5

\* The order that is left, if no copy of what is gone may still be carried out, or none of a later edit.
LEMMA LossOrder ==
  ASSUME BoxInv, NEW id, Loses(id),
         \A q \in Queued' : ~q.tries /\ q.n \notin oOvertaken =>
            \A x \in Out : x.id = id /\ id \notin Done => x.n < q.n
  PROVE  Ordered'
<1>1. UNCHANGED <<oDoc, oAnswers, oLate, oReached, oOvertaken>> /\ Queued' \subseteq Queued
  BY DEF Loses
<1>2. ASSUME NEW q \in Queued', ~q.tries, q.n \notin oOvertaken
      PROVE  /\ \A x \in Out : x.id \notin Done /\ (\A o \in Queued' : o.id # x.id) => x.n < q.n
             /\ q.id \notin Done => \A k \in oReached : k < q.n
  <2>1. /\ \A x \in Out : x.id \notin Done /\ (\A o \in Queued : o.id # x.id) => x.n < q.n
        /\ q.id \notin Done => \A k \in oReached : k < q.n
    BY <1>1, <1>2 DEF BoxInv, Ordered
  <2>2. ASSUME NEW x \in Out, x.id \notin Done, \A o \in Queued' : o.id # x.id PROVE x.n < q.n
    <3>1. CASE x.id = id
      BY <1>2, <2>2, <3>1
    <3>2. CASE x.id # id
      <4>1. \A o \in Queued : o.id # x.id
        BY <2>2, <3>2 DEF Loses
      <4> QED BY <2>1, <2>2, <4>1
    <3> QED BY <3>1, <3>2
  <2> QED BY <2>1, <2>2
<1>3. \A i, j \in DOMAIN oQueue' : i < j => /\ oQueue'[i].n < oQueue'[j].n \/ oQueue'[j].n \in oOvertaken
                                            /\ oQueue'[j].sent => oQueue'[i].tries
  BY DEF Loses
<1> QED BY <1>1, <1>2, <1>3, LossFacts DEF Ordered

LEMMA GiveUpTyped == ASSUME BoxInv, Box!GiveUp PROVE Box!TypeOK'
<1>1. Box!TypeOK /\ oOutcome \in Outcomes /\ oSaving \in TheSave
  BY DEF BoxInv, Box!TypeOK, Outcomes, TheSave
<1>2. UNCHANGED <<Box!server, oKnown, oNextId, oCursor, oRun, oMade, oDiscarded, oRevived, oOvertaken, oLink, oEvents>> /\ oSaving' = Box!NotSaving
  BY DEF Box!GiveUp
<1>3. oOutcome' \in Outcomes
  <2>1. \E o \in {"queued", "unconfirmed", "unreachable"} : oOutcome' = [oOutcome EXCEPT ![oSaving.n] = o]
    BY DEF Box!GiveUp
  <2> QED BY <1>1, <2>1 DEF Outcomes
<1>4. oQueue' \in Seq(Box!Entry) /\ oMode' \in Box!Modes /\ oRow' \in Box!Bodies /\ oShown' \in Nat /\ oOlder' \in BOOLEAN
  <2>1. CASE UNCHANGED <<Box!screen, oQueue, oMode>>
    BY <1>1, <2>1 DEF Box!TypeOK, Box!screen
  <2>2. CASE Box!Shows(oSaving.before, oSaving.shown) /\ oQueue' = Box!Without(oQueue, oSaving.id) /\ Box!SettleDrain(oQueue')
    <3>1. oQueue' \in Seq(Box!Entry)
      BY <2>2, WithoutTyped
    <3>2. oMode' \in Box!Modes
      BY <1>1, <2>2, ModeTyped DEF Box!TypeOK
    <3>3. oRow' \in Box!Bodies /\ oShown' \in Nat
      BY <1>1, <2>2 DEF Box!Shows, TheSave
    <3>4. oOlder' \in BOOLEAN
      BY <1>1, <2>2 DEF Box!Shows
    <3> QED BY <3>1, <3>2, <3>3, <3>4
  <2> QED BY <2>1, <2>2 DEF Box!GiveUp
<1> QED BY <1>1, <1>2, <1>3, <1>4, Nones DEF Box!TypeOK, Outcomes, TheSave, Box!server

\* The save is kept as an entry of the outbox.
LEMMA GiveUpOffline ==
  ASSUME BoxInv, Box!TypeOK', Box!GiveUp, oOutcome' = [oOutcome EXCEPT ![oSaving.n] = "queued"], UNCHANGED <<Box!screen, oQueue, oMode>>
  PROVE  BoxInv'
<1>1. /\ UNCHANGED <<oDoc, oAnswers, oLate, oReached, oKnown, oShown, oOlder, oNextId, oRun, oMade, oDiscarded, oRevived, oOvertaken>>
      /\ oSaving' = Box!NotSaving /\ oSaving # Box!NotSaving
  BY DEF Box!GiveUp, Box!server, Box!screen
<1>2. Queued' = Queued /\ Out' = Out /\ Copies' = Copies /\ Done' = Done /\ MyBodies' = MyBodies
  BY <1>1 DEF Queued, Out, Asks, Copies, Done, MyBodies
<1>3. oSaving.n \in Box!Edits /\ \E x \in Queued : x.n = oSaving.n /\ x.id = oSaving.id
  BY <1>1 DEF BoxInv, Waiting
<1>4. \A x \in Queued : x.id >= 1 /\ x.n <= oMade /\ x.n \in Nat
  BY QueueTyped, CopiesTyped DEF BoxInv, Numbers, Copies, Box!Entry
<1>5. \A m \in Box!Edits : oOutcome'[m] = IF m = oSaving.n THEN "queued" ELSE oOutcome[m]
  BY DEF BoxInv, Box!TypeOK
<1>6. Numbers'
  <2>1. oSaving.n <= oMade /\ oSaving.n \in Nat /\ oMade \in Nat
    BY <1>3, <1>4 DEF BoxInv, Box!TypeOK
  <2>2. \A m \in Box!Edits : m > oMade => oOutcome'[m] = "none"
    <3> SUFFICES ASSUME NEW m \in Box!Edits, m > oMade PROVE oOutcome'[m] = "none"
      OBVIOUS
    <3>1. m # oSaving.n
      BY <2>1
    <3> QED BY <1>5, <3>1 DEF BoxInv, Numbers
  <2> QED BY <1>1, <1>2, <2>2 DEF BoxInv, Numbers
<1>7. Same' /\ Creates' /\ Versions' /\ Bases' /\ Ordered'
  <2>1. Same' /\ Ordered'
    BY <1>1, <1>2 DEF BoxInv, Same, Ordered
  <2>2. Creates'
    BY <1>1, <1>2 DEF BoxInv, Creates
  <2>3. Versions'
    BY <1>1, <1>2 DEF BoxInv, Versions, Box!NotSaving, Box!TypeOK
  <2>4. Bases'
    BY <1>1, <1>2 DEF BoxInv, Bases
  <2> QED BY <2>1, <2>2, <2>3, <2>4
<1>8. Waiting'
  BY <1>1 DEF Waiting
<1>9. NothingBack'
  <2> SUFFICES ASSUME NEW m \in Box!Edits, oOutcome'[m] \in {"refused", "unreachable"}
               PROVE  m \notin oReached /\ (\A x \in Queued : x.n # m) /\ \A x \in Out : x.n = m => x.id \in Done
    BY <1>1, <1>2 DEF NothingBack
  <2>1. oOutcome[m] \in {"refused", "unreachable"}
    BY <1>5
  <2> QED BY <2>1 DEF BoxInv, NothingBack
<1>10. Kept'
  <2> SUFFICES ASSUME oRevived = 0, NEW m \in Box!Edits, oOutcome'[m] \in {"queued", "folded"}
               PROVE  (\E x \in Queued : x.id # 0 /\ x.n >= m) \/ \E k \in oReached \cup oDiscarded : k >= m
    BY <1>1, <1>2 DEF Kept, Box!NotSaving
  <2>0. \A x \in Queued : x.id # 0
    BY <1>4
  <2>1. CASE m = oSaving.n
    BY <1>3, <1>4, <2>0, <2>1
  <2>2. CASE m # oSaving.n
    <3>1. (\E x \in Queued : x.id # oSaving.id /\ x.n >= m) \/ \E k \in oReached \cup oDiscarded : k >= m
      BY <1>5, <2>2 DEF BoxInv, Kept
    <3> QED BY <2>0, <3>1
  <2> QED BY <2>1, <2>2
<1> QED BY <1>6, <1>7, <1>8, <1>9, <1>10 DEF BoxInv
\* The save is undone and its entry dropped.
LEMMA GiveUpGone ==
  ASSUME BoxInv, Box!TypeOK', Box!GiveUp, Box!Shows(oSaving.before, oSaving.shown), oQueue' = Box!Without(oQueue, oSaving.id),
         oOutcome' = [oOutcome EXCEPT ![oSaving.n] = IF \E e \in Box!Range(oQueue) : e.id = oSaving.id /\ e.sent THEN "unconfirmed" ELSE "unreachable"]
  PROVE  BoxInv'
<1>1. /\ UNCHANGED <<oDoc, oAnswers, oLate, oReached, oKnown, oNextId, oRun, oMade, oDiscarded, oRevived, oOvertaken>>
      /\ oSaving' = Box!NotSaving /\ oSaving # Box!NotSaving
  BY DEF Box!GiveUp, Box!server
<1>2. Loses(oSaving.id)
  BY <1>1, LosesIt
<1>3. UNCHANGED <<oDoc, oAnswers, oLate, oReached, oNextId, oRun, oMade, oRevived, oOvertaken>> /\ Distinct(oQueue') /\ Queued' \subseteq Queued
  BY <1>2 DEF Loses
<1>4. /\ Out' = Out /\ Done' = Done /\ Copies' \subseteq Copies /\ Out \subseteq Copies /\ Queued \subseteq Copies /\ MyBodies' = MyBodies
      /\ Same' /\ Creates'
  BY <1>2, LossFacts
<1>5. PICK x \in Queued : x.id = oSaving.id /\ x.n = oSaving.n /\ Box!Pending(x)
  BY <1>1 DEF BoxInv, Waiting
<1>6. /\ oSaving.n \in Box!Edits /\ (\A c \in Copies : c.n = oSaving.n => c.id = oSaving.id)
      /\ oSaving.n \in oReached => oSaving.id \in Done
  BY <1>1 DEF BoxInv, Waiting
<1>7. \A m \in Box!Edits : m # oSaving.n => oOutcome'[m] = oOutcome[m]
  BY DEF BoxInv, Box!TypeOK
<1>8. oOutcome'[oSaving.n] = IF \E e \in Queued : e.id = oSaving.id /\ e.sent THEN "unconfirmed" ELSE "unreachable"
  BY <1>6 DEF BoxInv, Box!TypeOK, Queued
<1>9. Numbers'
  <2>1. oSaving.n <= oMade /\ oSaving.n \in Nat /\ oMade \in Nat
    BY <1>4, <1>5, CopiesTyped DEF BoxInv, Numbers, Box!TypeOK, Box!Entry
  <2>2. \A m \in Box!Edits : m > oMade => oOutcome'[m] = "none"
    <3> SUFFICES ASSUME NEW m \in Box!Edits, m > oMade PROVE oOutcome'[m] = "none"
      OBVIOUS
    <3>1. m # oSaving.n
      BY <2>1
    <3> QED BY <1>7, <3>1 DEF BoxInv, Numbers
  <2> QED BY <1>1, <1>3, <1>4, <2>2 DEF BoxInv, Numbers
<1>10. Waiting'
  BY <1>1 DEF Waiting
<1>11. NothingBack'
  <2> SUFFICES ASSUME NEW m \in Box!Edits, oOutcome'[m] \in {"refused", "unreachable"}
               PROVE  m \notin oReached /\ (\A e \in Queued' : e.n # m) /\ \A e \in Out : e.n = m => e.id \in Done
    BY <1>1, <1>4 DEF NothingBack
  <2>1. CASE m = oSaving.n
    <3>1. ~x.sent
      BY <1>5, <1>8, <2>1
    <3>2. oSaving.id \notin Done /\ \A o \in Out : o.id # oSaving.id
      BY <1>5, <3>1 DEF BoxInv, Same
    <3>3. \A e \in Queued' : e.n # m
      BY <1>2, <1>3, <1>4, <1>6, <2>1 DEF Loses
    <3> QED BY <1>4, <1>6, <2>1, <3>2, <3>3
  <2>2. CASE m # oSaving.n
    <3>1. oOutcome[m] \in {"refused", "unreachable"}
      BY <1>7, <2>2
    <3> QED BY <1>3, <3>1 DEF BoxInv, NothingBack
  <2> QED BY <2>1, <2>2
<1>12. Kept'
  <2> SUFFICES ASSUME oRevived = 0, NEW m \in Box!Edits, oOutcome'[m] \in {"queued", "folded"}
               PROVE  (\E e \in Queued' : e.id # 0 /\ e.n >= m) \/ \E k \in oReached \cup oDiscarded : k >= m
    BY <1>1, <1>4 DEF Kept, Box!NotSaving
  <2>1. m # oSaving.n
    BY <1>8
  <2>2. (\E e \in Queued : e.id # oSaving.id /\ e.n >= m) \/ \E k \in oReached \cup oDiscarded : k >= m
    BY <1>7, <2>1 DEF BoxInv, Kept
  <2>3. \A e \in Queued : e.id # oSaving.id => e \in Queued' /\ e.id # 0
    <3>1. \A e \in Queued : e.id >= 1
      BY <1>4 DEF BoxInv, Numbers
    <3> QED BY <1>2, <3>1 DEF Loses
  <2> QED BY <2>2, <2>3
<1>13. Versions'
  <2>1. oShown' = oSaving.shown /\ oSaving'.shown = 0 /\ oDoc.v \in Nat
    BY <1>1 DEF Box!Shows, Box!NotSaving, BoxInv, Box!TypeOK
  <2> QED BY <1>1, <1>4, <2>1 DEF BoxInv, Versions
<1>14. Bases'
  <2> SUFFICES ASSUME ~oOlder', oRevived = 0 PROVE Bases'
    BY <1>1 DEF Bases
  <2>1. ~oOlder /\ oShown <= oShown' /\ oShown \in Nat /\ oShown' \in Nat /\ oKnown \in Nat
    <3>1. oShown \in Nat /\ oShown' \in Nat /\ oKnown \in Nat
      BY DEF BoxInv, Box!TypeOK
    <3>2. oShown' = oSaving.shown /\ oOlder' = (oOlder \/ oSaving.shown < oShown)
      BY DEF Box!Shows
    <3>3. ~oOlder /\ ~(oSaving.shown < oShown)
      BY <3>2
    <3> QED BY <3>1, <3>2, <3>3
  <2>2. /\ oKnown = oDoc.v /\ oShown < oKnown => oDoc.body \in MyBodies
        /\ \A e \in Copies : e.saw <= oShown /\ (e.base # Box!NoBase /\ e.base = oDoc.v /\ e.saw < e.base => oDoc.body \in MyBodies)
    BY <2>1 DEF BoxInv, Bases
  <2>3. \A e \in Copies : e.saw \in Nat
    BY CopiesTyped DEF BoxInv, Box!Entry
  <2>4. \A e \in Copies' : e.saw <= oShown' /\ (e.base # Box!NoBase /\ e.base = oDoc.v /\ e.saw < e.base => oDoc.body \in MyBodies)
    BY <1>4, <2>1, <2>2, <2>3
  <2>5. oKnown = oDoc.v /\ oShown' < oKnown => oDoc.body \in MyBodies
    BY <2>1, <2>2
  <2> QED BY <1>1, <1>4, <2>4, <2>5 DEF Bases
\* A copy of it that is still out is of an earlier edit than what is left behind it; what is before it was tried.
<1>15. Ordered'
  <2> SUFFICES ASSUME NEW q \in Queued', ~q.tries, q.n \notin oOvertaken, NEW y \in Out, y.id = oSaving.id, oSaving.id \notin Done
               PROVE  y.n < q.n
    BY <1>2, LossOrder
  <2>1. y.n = x.n /\ x.sent
    BY <1>4, <1>5 DEF BoxInv, Same
  <2>2. q \in Queued /\ q.id # oSaving.id
    BY <1>2 DEF Loses
  <2>3. PICK a \in DOMAIN oQueue : x = oQueue[a]
    BY DEF Queued, Box!Range
  <2>4. PICK b \in DOMAIN oQueue : q = oQueue[b]
    BY <2>2 DEF Queued, Box!Range
  <2>5. a # b /\ a \in Nat /\ b \in Nat
    <3>1. oQueue \in Seq(Box!Entry)
      BY DEF BoxInv, Box!TypeOK
    <3>2. a \in Nat /\ b \in Nat
      BY <3>1
    <3>3. a # b
      BY <1>5, <2>2, <2>3, <2>4
    <3> QED BY <3>2, <3>3
  <2>6. ~(b < a)
    BY <2>1, <2>3, <2>4 DEF BoxInv, Ordered
  <2>7. a < b
    BY <2>5, <2>6
  <2> QED BY <2>1, <2>3, <2>4, <2>7 DEF BoxInv, Ordered
<1> QED BY <1>4, <1>9, <1>10, <1>11, <1>12, <1>13, <1>14, <1>15 DEF BoxInv

LEMMA GiveUpKeeps == ASSUME BoxInv, Box!GiveUp PROVE BoxInv'
<1>1. Box!TypeOK'
  BY GiveUpTyped
<1>2. CASE oOutcome' = [oOutcome EXCEPT ![oSaving.n] = "queued"] /\ UNCHANGED <<Box!screen, oQueue, oMode>>
  BY <1>1, <1>2, GiveUpOffline
<1>3. CASE /\ Box!Shows(oSaving.before, oSaving.shown) /\ oQueue' = Box!Without(oQueue, oSaving.id)
           /\ oOutcome' = [oOutcome EXCEPT ![oSaving.n] = IF \E e \in Box!Range(oQueue) : e.id = oSaving.id /\ e.sent THEN "unconfirmed" ELSE "unreachable"]
  BY <1>1, <1>3, GiveUpGone
<1> QED BY <1>2, <1>3 DEF Box!GiveUp

LEMMA DiscardTyped == ASSUME BoxInv, NEW i \in DOMAIN oQueue, Box!Discard(i) PROVE Box!TypeOK'
<1>1. Box!TypeOK /\ oDoc.v \in Nat /\ oDoc.body \in Box!Bodies
  BY DEF BoxInv, Box!TypeOK
<1>2. UNCHANGED <<Box!server, oNextId, oRun, oSaving, oOutcome, oMade, oRevived, oOvertaken, oLink>>
  BY DEF Box!Discard
<1>3. oQueue' \in Seq(Box!Entry)
  BY WithoutTyped DEF Box!Discard
<1>4. oMode' \in Box!Modes
  <2>1. Box!SettleDrain(oQueue')
    BY DEF Box!Discard
  <2> QED BY <1>1, <2>1, ModeTyped DEF Box!TypeOK
<1>5. oEvents' \in Nat
  <2>1. oEvents' = oEvents + 1
    BY DEF Box!Discard, Box!Happens
  <2> QED BY <1>1, <2>1 DEF Box!TypeOK
<1>6. oDiscarded' \subseteq Box!Edits
  <2>1. oDiscarded' = oDiscarded \cup {oQueue[i].n}
    BY DEF Box!Discard
  <2>2. oQueue[i] \in Copies
    BY DEF Copies, Queued, Box!Range
  <2>3. oQueue[i].n \in Nat /\ oQueue[i].n >= 1 /\ oQueue[i].n <= oMade /\ oMade <= MaxSaves /\ MaxSaves \in Nat /\ oMade \in Nat
    BY <1>1, <2>2, CopiesTyped, BoxBounds DEF BoxInv, Numbers, Box!Entry, Box!TypeOK
  <2>4. oQueue[i].n \in Box!Edits
    BY <2>3 DEF Box!Edits
  <2> QED BY <1>1, <2>1, <2>4 DEF Box!TypeOK
<1>7. oRow' \in Box!Bodies /\ {oShown', oKnown', oCursor'} \subseteq Nat /\ oOlder' \in BOOLEAN
  <2>1. CASE UNCHANGED <<Box!screen, oKnown, oCursor>>
    BY <1>1, <2>1 DEF Box!screen, Box!TypeOK
  <2>2. CASE /\ IF oQueue' = <<>> THEN Box!Shows(oDoc.body, oDoc.v) /\ oKnown' = oDoc.v ELSE UNCHANGED <<Box!screen, oKnown>>
             /\ oCursor' = oDoc.v
    <3>1. CASE Box!Shows(oDoc.body, oDoc.v) /\ oKnown' = oDoc.v
      <4>1. oOlder' \in BOOLEAN
        BY <1>1, <3>1 DEF Box!Shows
      <4> QED BY <1>1, <2>2, <3>1, <4>1 DEF Box!Shows
    <3>2. CASE UNCHANGED <<Box!screen, oKnown>>
      BY <1>1, <2>2, <3>2 DEF Box!screen, Box!TypeOK
    <3> QED BY <2>2, <3>1, <3>2
  <2> QED BY <2>1, <2>2 DEF Box!Discard
<1> QED BY <1>1, <1>2, <1>3, <1>4, <1>5, <1>6, <1>7 DEF Box!TypeOK, Box!server

LEMMA DiscardKeeps == ASSUME BoxInv, NEW i \in DOMAIN oQueue, Box!Discard(i) PROVE BoxInv'
<1>0. Box!TypeOK'
  BY DiscardTyped
<1>1. /\ UNCHANGED <<oDoc, oAnswers, oLate, oReached, oNextId, oRun, oSaving, oOutcome, oMade, oRevived, oOvertaken>>
      /\ Box!Failed(oQueue[i]) /\ oQueue' = Box!Without(oQueue, oQueue[i].id) /\ oDiscarded' = oDiscarded \cup {oQueue[i].n}
      /\ UNCHANGED <<Box!screen, oKnown>> \/ (Box!Shows(oDoc.body, oDoc.v) /\ oKnown' = oDoc.v)
  BY DEF Box!Discard, Box!server
<1>2. Loses(oQueue[i].id)
  BY <1>1, LosesIt
<1>3. Distinct(oQueue') /\ Queued' \subseteq Queued /\ \A o \in Queued : o.id # oQueue[i].id => o \in Queued'
  BY <1>2 DEF Loses
<1>4. /\ Out' = Out /\ Done' = Done /\ Copies' \subseteq Copies /\ Out \subseteq Copies /\ Queued \subseteq Copies /\ MyBodies' = MyBodies
      /\ Same' /\ Creates'
  BY <1>2, LossFacts
<1>5. oQueue[i] \in Queued /\ oQueue[i].id \in Done
  <2>1. oQueue[i] \in Queued
    BY DEF Queued, Box!Range
  <2> QED BY <1>1, <2>1 DEF BoxInv, Same
<1>6. oDoc.v \in Nat /\ oShown \in Nat /\ oKnown \in Nat /\ oShown' \in Nat /\ oKnown' \in Nat
  BY <1>0 DEF BoxInv, Box!TypeOK
<1>7. Numbers'
  <2>1. oMade = 0 /\ oKnown' = 0 => oDoc.v = 0
    BY <1>1 DEF BoxInv, Numbers
  <2> QED BY <1>1, <1>3, <1>4, <2>1 DEF BoxInv, Numbers
<1>8. \A o \in Queued : o.id = oQueue[i].id => o = oQueue[i]
  <2> SUFFICES ASSUME NEW o \in Queued, o.id = oQueue[i].id PROVE o = oQueue[i]
    OBVIOUS
  <2>1. PICK j \in DOMAIN oQueue : o = oQueue[j]
    BY DEF Queued, Box!Range
  <2> QED BY <2>1 DEF BoxInv, Numbers, Distinct
<1>9. Waiting'
  <2> SUFFICES ASSUME oSaving # Box!NotSaving PROVE Waiting'
    BY <1>1 DEF Waiting
  <2>1. PICK x \in Queued : x.id = oSaving.id /\ x.n = oSaving.n /\ Box!Pending(x)
    BY DEF BoxInv, Waiting
  <2>2. x \in Queued'
    BY <1>1, <1>3, <1>8, <2>1 DEF Box!Failed
  <2> QED BY <1>1, <1>4, <2>1, <2>2 DEF BoxInv, Waiting
<1>10. NothingBack'
  BY <1>1, <1>3, <1>4 DEF BoxInv, NothingBack
<1>11. Kept'
  <2> SUFFICES ASSUME oRevived = 0, NEW m \in Box!Edits, oOutcome[m] \in {"queued", "folded"}
               PROVE  (\E x \in Queued' : x.id # oSaving.id /\ x.n >= m) \/ \E k \in oReached \cup oDiscarded' : k >= m
    BY <1>1 DEF Kept
  <2>1. (\E x \in Queued : x.id # oSaving.id /\ x.n >= m) \/ \E k \in oReached \cup oDiscarded : k >= m
    BY DEF BoxInv, Kept
  <2> QED BY <1>1, <1>3, <1>8, <2>1
<1>12. Versions'
  <2>1. {oKnown', oShown'} \subseteq 0 .. oDoc.v
    <3>1. CASE UNCHANGED <<Box!screen, oKnown>>
      BY <3>1 DEF Box!screen, BoxInv, Versions
    <3>2. CASE Box!Shows(oDoc.body, oDoc.v) /\ oKnown' = oDoc.v
      BY <1>6, <3>2 DEF Box!Shows
    <3> QED BY <1>1, <3>1, <3>2
  <2> QED BY <1>1, <1>4, <2>1 DEF BoxInv, Versions
<1>13. Bases'
  <2> SUFFICES ASSUME ~oOlder', oRevived = 0 PROVE Bases'
    BY <1>1 DEF Bases
  <2>1. CASE UNCHANGED <<Box!screen, oKnown>>
    BY <1>1, <1>4, <2>1 DEF Box!screen, BoxInv, Bases
  <2>2. CASE Box!Shows(oDoc.body, oDoc.v) /\ oKnown' = oDoc.v
    <3>1. ~oOlder /\ oShown' = oDoc.v
      BY <2>2 DEF Box!Shows
    <3>2. \A e \in Copies : e.saw <= oShown /\ (e.base # Box!NoBase /\ e.base = oDoc.v /\ e.saw < e.base => oDoc.body \in MyBodies)
      BY <3>1 DEF BoxInv, Bases
    <3>3. oShown <= oDoc.v /\ \A e \in Copies : e.saw \in Nat
      BY CopiesTyped DEF BoxInv, Versions, Box!Entry
    <3>4. \A e \in Copies' : e.saw <= oShown' /\ (e.base # Box!NoBase /\ e.base = oDoc.v /\ e.saw < e.base => oDoc.body \in MyBodies)
      BY <1>4, <1>6, <3>1, <3>2, <3>3
    <3>5. ~(oShown' < oKnown')
      BY <1>6, <2>2, <3>1
    <3> QED BY <1>1, <1>4, <3>4, <3>5 DEF Bases
  <2> QED BY <1>1, <2>1, <2>2
<1>14. Ordered'
  BY <1>2, <1>5, LossOrder
<1> QED BY <1>0, <1>4, <1>7, <1>9, <1>10, <1>11, <1>12, <1>13, <1>14 DEF BoxInv
-----------------------------------------------------------------------------
(* A failed change is sent again *)

\* Entry e, sent again, at place i: under a new id, as the same edit
RetriesBy(i, e) ==
  /\ PutAt(i, e) /\ i \in DOMAIN oQueue /\ oQueue[i] \in Queued /\ Box!Failed(oQueue[i])
  /\ e.id = oNextId /\ oNextId' = oNextId + 1 /\ Box!Pending(e) /\ ~e.sent
  /\ e.n = oQueue[i].n /\ e.method = oQueue[i].method /\ (e.tries <=> oQueue[i].tries) /\ e.saw = oShown
  /\ e.base = oQueue[i].base \/ (e.base = oKnown /\ oQueue[i].base # Box!NoBase)
  /\ UNCHANGED <<Box!server, Box!screen, oKnown, oCursor, oRun, Box!saves, oLink>>

LEMMA RetryIs == ASSUME BoxInv, NEW i \in DOMAIN oQueue, Box!Retry(i) PROVE (\E e : RetriesBy(i, e)) /\ Box!TypeOK'
<1> DEFINE e == [oQueue[i] EXCEPT !.id = oNextId, !.status = "pending", !.sent = FALSE, !.conflict = FALSE,
                 !.base = IF @ = Box!NoBase THEN Box!NoBase ELSE IF oKnown # 0 THEN oKnown ELSE @, !.saw = oShown]
<1>1. Box!TypeOK /\ oQueue \in Seq(Box!Entry) /\ oQueue[i] \in Box!Entry /\ oQueue[i] \in Queued /\ oNextId \in Nat /\ oShown \in Nat /\ oKnown \in Nat
  BY QueueTyped DEF BoxInv, Box!TypeOK
<1>2. /\ e \in Box!Entry /\ e.id = oNextId /\ e.status = "pending" /\ e.sent = FALSE /\ e.n = oQueue[i].n /\ e.method = oQueue[i].method
      /\ e.tries = oQueue[i].tries /\ e.saw = oShown
      /\ e.base = oQueue[i].base \/ (e.base = oKnown /\ oQueue[i].base # Box!NoBase)
  BY <1>1 DEF Box!Entry, Box!NoBase
<1>3. oQueue' = Box!Replaced(oQueue, i, e)
  BY DEF Box!Retry
<1>4. /\ Box!Failed(oQueue[i]) /\ Box!Happens /\ oNextId' = oNextId + 1 /\ Box!SettleDrain(oQueue')
      /\ UNCHANGED <<Box!server, Box!screen, oKnown, oCursor, oRun, Box!saves, oLink>>
  BY DEF Box!Retry
<1> HIDE DEF e
<1>5. PutAt(i, e)
  BY <1>1, <1>2, <1>3, Replacing
<1>6. RetriesBy(i, e)
  BY <1>1, <1>2, <1>4, <1>5 DEF RetriesBy, Box!Pending
<1>7. Box!TypeOK'
  <2>1. oMode' \in Box!Modes
    BY <1>1, <1>4, ModeTyped DEF Box!TypeOK
  <2>2. oQueue' \in Seq(Box!Entry) /\ oNextId' \in Nat
    BY <1>1, <1>4, <1>5 DEF PutAt
  <2>3. oEvents' \in Nat
    BY <1>1, <1>4 DEF Box!Happens, Box!TypeOK
  <2> QED BY <1>1, <1>4, <2>1, <2>2, <2>3 DEF Box!TypeOK, Box!server, Box!screen, Box!saves
<1> QED BY <1>6, <1>7

LEMMA RetrySets ==
  ASSUME BoxInv, NEW i, NEW e, RetriesBy(i, e)
  PROVE  /\ Out' = Out /\ Done' = Done /\ Copies' \subseteq Copies \cup {e} /\ Out \subseteq Copies /\ Queued \subseteq Copies /\ MyBodies' = MyBodies
         /\ UNCHANGED <<oDoc, oAnswers, oLate, oReached, oRow, oShown, oOlder, oKnown, oRun, oSaving, oOutcome, oMade, oDiscarded, oRevived, oOvertaken>>
         /\ e \in Queued' /\ e \in Box!Entry
         /\ \A x \in Queued' : x = e \/ (x \in Queued /\ x.id # oQueue[i].id)
         /\ \A x \in Queued : x \in Queued' \/ x = oQueue[i]
         /\ e.id \notin Done /\ \A c \in Copies : c.id # e.id /\ c \in Box!Entry
         /\ oQueue[i].id \in Done /\ oAnswers[oQueue[i].id].is # "applied" /\ oQueue[i].tries
         /\ \A j \in DOMAIN oQueue : j # i => oQueue'[j] = oQueue[j]
         /\ oQueue'[i] = e /\ DOMAIN oQueue' = DOMAIN oQueue /\ oNextId \in Nat
<1>1. UNCHANGED <<oDoc, oAnswers, oLate, oReached, oRow, oShown, oOlder, oKnown, oRun, oSaving, oOutcome, oMade, oDiscarded, oRevived, oOvertaken>>
  BY DEF RetriesBy, Box!server, Box!screen, Box!saves
<1>2. Out' = Out /\ Done' = Done /\ Out \subseteq Copies /\ Queued \subseteq Copies /\ MyBodies' = MyBodies
  BY <1>1 DEF Out, Asks, Done, Copies, MyBodies
<1>3. PutAt(i, e) /\ i \in DOMAIN oQueue /\ oQueue[i] \in Queued /\ Box!Failed(oQueue[i]) /\ e.id = oNextId
  BY DEF RetriesBy
<1>4. /\ \A j \in DOMAIN oQueue : j # i => oQueue'[j] = oQueue[j]
      /\ oQueue'[i] = e /\ DOMAIN oQueue' = DOMAIN oQueue /\ e \in Box!Entry
  BY <1>3 DEF PutAt
<1>5. \A x : (x \in Queued' <=> \E j \in DOMAIN oQueue' : x = oQueue'[j]) /\ (x \in Queued <=> \E j \in DOMAIN oQueue : x = oQueue[j])
  BY DEF Queued, Box!Range
<1>6. \A x \in Queued' : x = e \/ (x \in Queued /\ x.id # oQueue[i].id)
  <2> SUFFICES ASSUME NEW x \in Queued', x # e PROVE x \in Queued /\ x.id # oQueue[i].id
    OBVIOUS
  <2>1. PICK j \in DOMAIN oQueue : j # i /\ x = oQueue[j]
    BY <1>4, <1>5
  <2> QED BY <1>3, <1>5, <2>1 DEF BoxInv, Numbers, Distinct
<1>7. e \in Queued' /\ \A x \in Queued : x \in Queued' \/ x = oQueue[i]
  BY <1>3, <1>4, <1>5
<1>8. oNextId \in Nat /\ \A c \in Copies : c.id < oNextId /\ c.id \in Nat /\ c \in Box!Entry
  BY CopiesTyped DEF BoxInv, Box!TypeOK, Numbers, Box!Entry
<1>9. e.id \notin Done
  <2>1. oNextId \notin 1 .. oNextId - 1
    BY <1>8
  <2> QED BY <1>3, <2>1 DEF BoxInv, Numbers
<1>10. \A c \in Copies : c.id # e.id /\ c \in Box!Entry
  BY <1>3, <1>8
<1>11. oQueue[i].id \in Done /\ oAnswers[oQueue[i].id].is # "applied" /\ oQueue[i].tries
  BY <1>3 DEF BoxInv, Same
<1>12. Copies' \subseteq Copies \cup {e}
  BY <1>2, <1>6 DEF Copies
<1> QED BY <1>1, <1>2, <1>4, <1>6, <1>7, <1>8, <1>9, <1>10, <1>11, <1>12

LEMMA RetryKeeps == ASSUME BoxInv, NEW i \in DOMAIN oQueue, Box!Retry(i) PROVE BoxInv'
<1>1. Box!TypeOK'
  BY RetryIs
<1>2. PICK e : RetriesBy(i, e)
  BY RetryIs
<1>3. /\ oQueue[i] \in Queued /\ oQueue[i] \in Copies /\ Box!Failed(oQueue[i]) /\ e.id = oNextId /\ oNextId' = oNextId + 1 /\ Box!Pending(e) /\ ~e.sent
      /\ e.n = oQueue[i].n /\ e.method = oQueue[i].method /\ (e.tries <=> oQueue[i].tries) /\ e.saw = oShown
      /\ e.base = oQueue[i].base \/ (e.base = oKnown /\ oQueue[i].base # Box!NoBase)
  BY <1>2 DEF RetriesBy, Copies
<1>4. /\ Out' = Out /\ Done' = Done /\ Copies' \subseteq Copies \cup {e} /\ Out \subseteq Copies /\ Queued \subseteq Copies /\ MyBodies' = MyBodies
      /\ UNCHANGED <<oDoc, oAnswers, oLate, oReached, oRow, oShown, oOlder, oKnown, oRun, oSaving, oOutcome, oMade, oDiscarded, oRevived, oOvertaken>>
      /\ e \in Queued' /\ e \in Box!Entry /\ oNextId \in Nat
  BY <1>2, RetrySets
<1>5. /\ \A x \in Queued' : x = e \/ (x \in Queued /\ x.id # oQueue[i].id)
      /\ \A x \in Queued : x \in Queued' \/ x = oQueue[i]
      /\ e.id \notin Done /\ \A c \in Copies : c.id # e.id /\ c \in Box!Entry
      /\ oQueue[i].id \in Done /\ oAnswers[oQueue[i].id].is # "applied" /\ oQueue[i].tries
  BY <1>2, RetrySets
<1>6. /\ \A j \in DOMAIN oQueue : j # i => oQueue'[j] = oQueue[j]
      /\ oQueue'[i] = e /\ DOMAIN oQueue' = DOMAIN oQueue
  BY <1>2, RetrySets
<1>7. \A j \in DOMAIN oQueue : oQueue[j] \in Copies
  BY <1>4 DEF Queued, Box!Range
<1>8. Numbers'
  <2>1. Distinct(oQueue')
    BY <1>5, <1>6, <1>7 DEF BoxInv, Numbers, Distinct
  <2>2. ASSUME NEW c \in Copies' PROVE c.id >= 1 /\ c.id < oNextId' /\ c.n >= 1 /\ c.n <= oMade' /\ (c.method = "POST" => c.base = Box!NoBase)
    <3>1. CASE c \in Copies
      <4>1. c.id >= 1 /\ c.id < oNextId /\ c.n >= 1 /\ c.n <= oMade /\ (c.method = "POST" => c.base = Box!NoBase) /\ c.id \in Nat
        BY <1>5, <3>1 DEF BoxInv, Numbers, Box!Entry
      <4> QED BY <1>3, <1>4, <4>1
    <3>2. CASE c = e
      <4>1. oQueue[i].n >= 1 /\ oQueue[i].n <= oMade /\ (oQueue[i].method = "POST" => oQueue[i].base = Box!NoBase) /\ oNextId >= 1
        BY <1>3 DEF BoxInv, Numbers
      <4> QED BY <1>3, <1>4, <3>2, <4>1
    <3> QED BY <1>4, <3>1, <3>2
  <2>3. 1 .. oNextId - 1 \subseteq 1 .. oNextId' - 1 /\ oNextId' >= 1
    BY <1>3, <1>4
  <2>4. Done' \subseteq 1 .. oNextId' - 1 /\ oRun'.tried \subseteq 1 .. oNextId' - 1
    BY <1>4, <2>3 DEF BoxInv, Numbers
  <2> QED BY <1>4, <2>1, <2>2, <2>3, <2>4 DEF BoxInv, Numbers
<1>9. Same'
  <2>1. Same
    BY DEF BoxInv
  <2>2. \A x \in Queued' : ~x.sent => x.id \notin Done /\ \A o \in Out : o.id # x.id
    BY <1>4, <1>5, <2>1 DEF Same
  <2>3. \A x \in Copies', o \in Out : x.id = o.id => x.n = o.n /\ x.method = o.method /\ x.saw = o.saw /\ (x.base = Box!NoBase <=> o.base = Box!NoBase)
    BY <1>4, <1>5, <2>1 DEF Same
  <2>4. \A x \in Queued' : Box!Failed(x) => x.id \in Done /\ oAnswers[x.id].is # "applied" /\ x.tries
    BY <1>3, <1>5, <2>1 DEF Same, Box!Failed
  <2>5. oRun.st \in {"asked", "answered"} => \A x \in Queued' : x.id \in oRun.tried => x.tries
    BY <1>3, <1>5, <2>1 DEF Same
  <2>6. oRun.st = "answered" /\ oRun.got.is # "retry" => oRun.ask.id \in Done /\ oRun.got = oAnswers[oRun.ask.id]
    BY <2>1 DEF Same
  <2> QED BY <1>4, <2>2, <2>3, <2>4, <2>5, <2>6 DEF Same
\* The save that waits has an entry of its own that has not failed.
<1>10. ASSUME oSaving # Box!NotSaving
       PROVE  \E x \in Queued : x.id = oSaving.id /\ x.n = oSaving.n /\ Box!Pending(x) /\ x # oQueue[i] /\ x \in Queued'
  <2>1. PICK x \in Queued : x.id = oSaving.id /\ x.n = oSaving.n /\ Box!Pending(x)
    BY <1>10 DEF BoxInv, Waiting
  <2> QED BY <1>3, <1>5, <2>1 DEF Box!Failed
<1>11. \A x \in Queued : x.id = oQueue[i].id => x = oQueue[i]
  <2> SUFFICES ASSUME NEW o \in Queued, o.id = oQueue[i].id PROVE o = oQueue[i]
    OBVIOUS
  <2>1. PICK j \in DOMAIN oQueue : o = oQueue[j]
    BY DEF Queued, Box!Range
  <2> QED BY <2>1 DEF BoxInv, Numbers, Distinct
<1>12. Waiting'
  <2> SUFFICES ASSUME oSaving # Box!NotSaving PROVE Waiting'
    BY <1>4 DEF Waiting
  <2>1. /\ oSaving.n \in Box!Edits /\ oOutcome[oSaving.n] = "none"
        /\ \A c \in Copies : c.n = oSaving.n => c.id = oSaving.id
        /\ oSaving.n \in oReached => oSaving.id \in Done /\ oAnswers[oSaving.id].is = "applied"
    BY DEF BoxInv, Waiting
  <2>2. PICK x \in Queued : x.id = oSaving.id /\ x.n = oSaving.n /\ Box!Pending(x) /\ x # oQueue[i] /\ x \in Queued'
    BY <1>10
  <2>3. oQueue[i].n # oSaving.n
    BY <1>3, <1>11, <2>1, <2>2
  <2>4. \A c \in Copies' : c.n = oSaving.n => c.id = oSaving.id
    BY <1>3, <1>4, <2>1, <2>3
  <2> QED BY <1>4, <2>1, <2>2, <2>4 DEF Waiting
<1>13. NothingBack'
  BY <1>3, <1>4, <1>5 DEF BoxInv, NothingBack
<1>14. Kept'
  <2> SUFFICES ASSUME oRevived = 0, NEW m \in Box!Edits, oOutcome[m] \in {"queued", "folded"}
               PROVE  (\E x \in Queued' : x.id # oSaving.id /\ x.n >= m) \/ \E k \in oReached \cup oDiscarded : k >= m
    BY <1>4 DEF Kept
  <2>1. (\E x \in Queued : x.id # oSaving.id /\ x.n >= m) \/ \E k \in oReached \cup oDiscarded : k >= m
    BY DEF BoxInv, Kept
  <2>2. e.id # oSaving.id
    <3>1. CASE oSaving = Box!NotSaving
      <4>1. oNextId >= 1
        BY DEF BoxInv, Numbers
      <4> QED BY <1>3, <1>4, <3>1, <4>1 DEF Box!NotSaving
    <3>2. CASE oSaving # Box!NotSaving
      BY <1>4, <1>5, <1>10, <3>2
    <3> QED BY <3>1, <3>2
  <2> QED BY <1>3, <1>4, <1>5, <2>1, <2>2
<1>15. Creates'
  <2> SUFFICES ASSUME oRevived = 0 PROVE Creates'
    BY <1>4 DEF Creates
  <2>1. /\ \A x, o \in Queued : x.method = "POST" /\ o.method = "POST" => x.id = o.id
        /\ \A x, o \in Copies : x.method = "POST" /\ o.method = "POST" /\ o.id \notin Done =>
             oDoc.v = 0 /\ (x \in Queued \/ x.id \notin Done => x.id = o.id)
        /\ \A x \in Queued : x.method = "POST" /\ x.id \in Done /\ oAnswers[x.id].is # "applied" => oDoc.v = 0
        /\ \A x \in Copies : x.id \in Done /\ oAnswers[x.id].is = "applied" => x.n \in oReached
        /\ \A k \in Done : oAnswers[k].is = "applied" => oAnswers[k].body \in MyBodies
    BY DEF BoxInv, Creates
  <2>2. \A x, o \in Queued' : x.method = "POST" /\ o.method = "POST" => x.id = o.id
    BY <1>3, <1>5, <2>1
  <2>3. ASSUME e.method = "POST" PROVE oDoc.v = 0 /\ \A c \in Copies : c.method = "POST" => c.id \in Done
    BY ZenonT(60), <1>3, <1>5, <2>1, <2>3
  <2>4. ASSUME NEW x \in Copies', NEW o \in Copies', x.method = "POST", o.method = "POST", o.id \notin Done
        PROVE  oDoc.v = 0 /\ (x \in Queued' \/ x.id \notin Done => x.id = o.id)
    <3>1. CASE o = e
      <4>1. x \in Queued' /\ x # e => FALSE
        <5>1. \A y \in Queued : y.method = "POST" => y.id = oQueue[i].id
          BY <1>3, <2>1, <2>4, <3>1
        <5> QED BY <1>5, <2>4, <5>1
      <4> QED BY <1>4, <2>3, <2>4, <3>1, <4>1
    <3>2. CASE o # e
      <4>1. o \in Copies /\ e.method # "POST"
        BY <1>4, <2>3, <2>4, <3>2
      <4>2. x \in Copies /\ x # e /\ (x \in Queued' => x \in Queued)
        BY <1>4, <1>5, <2>4, <4>1
      <4> QED BY <2>1, <2>4, <4>1, <4>2
    <3> QED BY <3>1, <3>2
  <2>5. \A x \in Queued' : x.method = "POST" /\ x.id \in Done /\ oAnswers[x.id].is # "applied" => oDoc.v = 0
    BY <1>5, <2>1
  <2>6. \A x \in Copies' : x.id \in Done /\ oAnswers[x.id].is = "applied" => x.n \in oReached
    BY <1>4, <1>5, <2>1
  <2> QED BY <1>4, <2>1, <2>2, <2>4, <2>5, <2>6 DEF Creates
<1>16. Versions'
  <2>1. e.base <= oDoc.v
    BY <1>3 DEF BoxInv, Versions
  <2>2. \A c \in Copies' : c.base <= oDoc.v
    BY <1>4, <2>1 DEF BoxInv, Versions
  <2> QED BY <1>4, <2>2 DEF BoxInv, Versions
<1>17. Bases'
  <2> SUFFICES ASSUME ~oOlder, oRevived = 0 PROVE Bases'
    BY <1>4 DEF Bases
  <2>1. /\ oKnown = oDoc.v /\ oShown < oKnown => oDoc.body \in MyBodies
        /\ \A x \in Copies : x.saw <= oShown /\ (x.base # Box!NoBase /\ x.base = oDoc.v /\ x.saw < x.base => oDoc.body \in MyBodies)
    BY DEF BoxInv, Bases
  <2>2. oShown \in Nat /\ oQueue[i].saw \in Nat /\ oQueue[i].base \in Nat
    BY <1>3, <1>5 DEF BoxInv, Box!TypeOK, Box!Entry
  <2>3. e.saw <= oShown
    BY <1>3, <2>2
  <2>4. e.base # Box!NoBase /\ e.base = oDoc.v /\ e.saw < e.base => oDoc.body \in MyBodies
    <3>1. CASE e.base = oKnown
      BY <1>3, <2>1, <3>1
    <3>2. CASE e.base = oQueue[i].base
      <4>1. oQueue[i].saw <= oShown /\ e.saw = oShown
        BY <1>3, <2>1
      <4>2. e.saw < e.base => oQueue[i].saw < oQueue[i].base
        BY <2>2, <3>2, <4>1
      <4>3. oQueue[i].base # Box!NoBase /\ oQueue[i].base = oDoc.v /\ oQueue[i].saw < oQueue[i].base => oDoc.body \in MyBodies
        BY <1>3, <2>1
      <4> QED BY <3>2, <4>2, <4>3
    <3> QED BY <1>3, <3>1, <3>2
  <2>5. \A x \in Copies' : x.saw <= oShown /\ (x.base # Box!NoBase /\ x.base = oDoc.v /\ x.saw < x.base => oDoc.body \in MyBodies)
    BY <1>4, <2>1, <2>3, <2>4
  <2> QED BY <1>4, <2>1, <2>5 DEF Bases
<1>18. Ordered'
  <2>1. ASSUME NEW j \in DOMAIN oQueue, NEW k \in DOMAIN oQueue, j < k
        PROVE  /\ oQueue'[j].n < oQueue'[k].n \/ oQueue'[k].n \in oOvertaken
               /\ oQueue'[k].sent => oQueue'[j].tries
    <3>1. (oQueue[j].n < oQueue[k].n \/ oQueue[k].n \in oOvertaken) /\ (oQueue[k].sent => oQueue[j].tries)
      BY <2>1 DEF BoxInv, Ordered
    <3>2. oQueue'[j].n = oQueue[j].n /\ oQueue'[k].n = oQueue[k].n /\ (oQueue'[j].tries <=> oQueue[j].tries) /\ (oQueue'[k].sent => oQueue[k].sent)
      BY <1>3, <1>6
    <3> QED BY <3>1, <3>2
  <2>2. ASSUME NEW q \in Queued', ~q.tries, q.n \notin oOvertaken
        PROVE  /\ \A x \in Out : x.id \notin Done /\ (\A o \in Queued' : o.id # x.id) => x.n < q.n
               /\ q.id \notin Done => \A k \in oReached : k < q.n
    <3>1. q \in Queued
      BY <1>3, <1>5, <2>2
    <3>2. \A x \in Out : x.id \notin Done /\ (\A o \in Queued' : o.id # x.id) => \A o \in Queued : o.id # x.id
      BY <1>5
    <3> QED BY <2>2, <3>1, <3>2 DEF BoxInv, Ordered
  <2> QED BY <1>4, <1>6, <2>1, <2>2 DEF Ordered
<1> QED BY <1>1, <1>8, <1>9, <1>12, <1>13, <1>14, <1>15, <1>16, <1>17, <1>18 DEF BoxInv
-----------------------------------------------------------------------------
(* The steps that leave the queue alone *)

LEMMA RunsRan == ASSUME NEW e \in Out, Box!Runs(e) PROVE Ran(e) /\ oAnswers'[e.id].v = oDoc'.v /\ oAnswers'[e.id].body = oDoc'.body /\ oAnswers'[e.id].is # "retry"
<1>1. ASSUME NEW r, Box!Recorded(e, r) PROVE Done' = Done \cup {e.id} /\ oAnswers'[e.id] = r /\ \A i \in Done \ {e.id} : oAnswers'[i] = oAnswers[i]
  BY <1>1 DEF Box!Recorded, Done
<1>2. e.id \notin Done
  BY DEF Box!Runs, Done
<1>3. CASE \/ e.method = "POST" /\ oDoc.v = 0 /\ Box!Executed(e)
           \/ e.method = "PUT" /\ oDoc.v # 0 /\ e.base \in {Box!NoBase, oDoc.v} /\ Box!Executed(e)
  <2>1. PICK r : r = Box!Res("applied", oDoc')
    OBVIOUS
  <2>2. Box!Recorded(e, r) /\ oDoc' = [v |-> oDoc.v + 1, body |-> Box!Mine(e.n)] /\ oReached' = oReached \cup {e.n}
    BY <1>3, <2>1 DEF Box!Executed
  <2>3. r.v = oDoc'.v /\ r.body = oDoc'.body /\ r.is # "retry"
    BY <2>1 DEF Box!Res
  <2> QED BY <1>1, <1>2, <1>3, <2>1, <2>2, <2>3 DEF Ran
<1>4. CASE \/ e.method = "POST" /\ oDoc.v # 0 /\ Box!NotExecuted /\ Box!Recorded(e, Box!Res("applied", oDoc))
           \/ oDoc.v # 0 /\ Box!NotExecuted /\ Box!Recorded(e, Box!Res("conflict", oDoc))
           \/ Box!NotExecuted /\ Box!Recorded(e, Box!Res("rejected", oDoc))
  <2>1. PICK r : /\ \/ e.method = "POST" /\ oDoc.v # 0 /\ r = Box!Res("applied", oDoc)
                    \/ oDoc.v # 0 /\ r = Box!Res("conflict", oDoc)
                    \/ r = Box!Res("rejected", oDoc)
                 /\ Box!Recorded(e, r)
    BY <1>4
  <2>2. oDoc' = oDoc /\ oReached' = oReached
    BY <1>4 DEF Box!NotExecuted
  <2>3. r.v = oDoc.v /\ r.body = oDoc.body /\ r.is # "retry"
    BY <2>1 DEF Box!Res
  <2> QED BY <1>1, <1>2, <2>1, <2>2, <2>3 DEF Ran
<1> QED BY <1>3, <1>4 DEF Box!Runs

LEMMA QuietKeeps == ASSUME BoxInv, Box!TypeOK', Quiet PROVE BoxInv'
BY QuietNumbers, QuietSame, QuietWaiting, QuietNothing, QuietKept, QuietCreates, QuietVersions, QuietBases, QuietOrder DEF BoxInv

LEMMA GoKeeps == ASSUME BoxInv, Box!StartRun \/ Box!Handle PROVE BoxInv'
<1>1. Box!TypeOK' /\ GoesBy
  BY StartTyped, HandleTyped, StartsBy, HandlesBy
<1> QED BY <1>1, GoNumbers, GoSame, GoWaiting, GoNothing, GoKept, GoCreates, GoVersions, GoBases, GoOrder DEF BoxInv

\* What the run got stays what it was, of a server that may have moved on.
LEMMA GotStays ==
  ASSUME BoxInv, Box!TypeOK', ServerOf, oRun'.got = oRun.got, oRun'.st = oRun.st
  PROVE  /\ oRun'.got.v \in 0 .. oDoc'.v
         /\ oRun'.st \in {"answered", "pulled"} /\ oRun'.got.v = oDoc'.v => oRun'.got.body = oDoc'.body
<1>1. oDoc.v \in Nat /\ oDoc'.v \in Nat /\ oRun.got.v \in Nat /\ oRun.got.v <= oDoc.v
  BY DEF BoxInv, Box!TypeOK, Box!Result, Versions
<1>2. oDoc' = oDoc \/ oDoc'.v = oDoc.v + 1
  BY DEF ServerOf, Ran
<1>3. oRun.st \in {"answered", "pulled"} /\ oRun.got.v = oDoc.v => oRun.got.body = oDoc.body
  BY DEF BoxInv, Versions
<1> QED BY <1>1, <1>2, <1>3

LEMMA ServeQuiet == ASSUME BoxInv, Box!Serve PROVE Quiet
<1>0. Box!TypeOK'
  BY ServeTyped
<1>1. oRun.st = "asked" /\ oRun.ask \in Out /\ oRun.ask.id \in Nat
  BY DEF Box!Serve, Out, Asks, BoxInv, Box!TypeOK, Box!Entry
<1>2. UNCHANGED <<oLate, Box!store, oCursor, Box!saves, oMode, oLink>>
  BY DEF Box!Serve
<1>3. oRun \in TheRun /\ oDoc.v \in Nat /\ oDoc'.v \in Nat
  BY <1>0 DEF BoxInv, Box!TypeOK, TheRun
<1>4. PICK got : oRun' = [oRun EXCEPT !.st = "answered", !.got = got]
  BY DEF Box!Serve
<1>5. oRun'.st = "answered" /\ oRun'.ask = oRun.ask /\ oRun'.tried = oRun.tried /\ oRun'.got = got
  BY <1>3, <1>4 DEF TheRun
<1>6. Out' \subseteq Out
  BY <1>1, <1>2, <1>5 DEF Out, Asks
<1>7. /\ ServerOf
      /\ got.is # "retry" => oRun.ask.id \in Done' /\ got = oAnswers'[oRun.ask.id]
      /\ got.v \in 0 .. oDoc'.v /\ (got.v = oDoc'.v => got.body = oDoc'.body)
  <2>1. CASE Box!Runs(oRun.ask) /\ oRun' = [oRun EXCEPT !.st = "answered", !.got = oAnswers'[oRun.ask.id]]
    <3>1. got = oAnswers'[oRun.ask.id]
      BY <1>3, <1>5, <2>1 DEF TheRun
    <3>2. Ran(oRun.ask) /\ got.v = oDoc'.v /\ got.body = oDoc'.body
      BY <1>1, <2>1, <3>1, RunsRan
    <3> QED BY <1>3, <3>1, <3>2 DEF ServerOf, Ran
  <2>2. CASE /\ oRun.ask.id \in DOMAIN oAnswers
             /\ oRun' = [oRun EXCEPT !.st = "answered", !.got = oAnswers[oRun.ask.id]]
             /\ UNCHANGED <<oDoc, oAnswers, oReached, oEvents>>
    <3>1. got = oAnswers[oRun.ask.id]
      BY <1>3, <1>5, <2>2 DEF TheRun
    <3>2. oAnswers[oRun.ask.id].v <= oDoc.v /\ oAnswers[oRun.ask.id].v \in Nat /\ (oAnswers[oRun.ask.id].v = oDoc.v => oAnswers[oRun.ask.id].body = oDoc.body)
      BY <2>2 DEF BoxInv, Versions, Done, Box!TypeOK, Box!Result
    <3> QED BY <1>3, <2>2, <3>1, <3>2 DEF ServerOf, Done
  <2>3. CASE /\ oRun.ask.id \notin DOMAIN oAnswers /\ Box!Happens
             /\ oRun' = [oRun EXCEPT !.st = "answered", !.got = Box!Res("retry", oDoc)]
             /\ UNCHANGED <<oDoc, oAnswers, oReached>>
    <3>1. got = Box!Res("retry", oDoc)
      BY <1>3, <1>5, <2>3 DEF TheRun
    <3>2. got.is = "retry" /\ got.v = oDoc.v /\ got.body = oDoc.body
      BY <3>1 DEF Box!Res
    <3> QED BY <1>3, <2>3, <3>2 DEF ServerOf
  <2> QED BY <2>1, <2>2, <2>3 DEF Box!Serve
<1>8. RunOf
  BY <1>1, <1>5, <1>6, <1>7 DEF RunOf
<1> QED BY <1>2, <1>7, <1>8 DEF Quiet, Box!store, Box!saves

LEMMA LateQuiet == ASSUME BoxInv, NEW e \in oLate, Box!ServeLate(e) PROVE Quiet
<1>0. Box!TypeOK'
  BY LateTyped
<1>1. UNCHANGED <<Box!store, oCursor, oRun, Box!saves, oMode, oLink>> /\ oLate' \subseteq oLate /\ e \in Out
  BY DEF Box!ServeLate, Out
<1>2. Out' \subseteq Out
  BY <1>1 DEF Out, Asks
<1>3. ServerOf
  <2>1. CASE Box!Runs(e)
    BY <1>1, <2>1, RunsRan DEF ServerOf
  <2>2. CASE UNCHANGED <<oDoc, oAnswers, oReached, oEvents>>
    BY <2>2 DEF ServerOf
  <2> QED BY <2>1, <2>2 DEF Box!ServeLate
<1>4. oRun'.st = "answered" /\ oRun'.got.is # "retry" => oRun'.ask.id \in Done' /\ oRun'.got = oAnswers'[oRun'.ask.id]
  <2>1. Done \subseteq Done' /\ \A i \in Done : oAnswers'[i] = oAnswers[i]
    BY <1>3 DEF ServerOf, Ran, Done
  <2> QED BY <1>1, <2>1 DEF BoxInv, Same
<1>5. RunOf
  BY <1>0, <1>1, <1>2, <1>3, <1>4, GotStays DEF RunOf
<1> QED BY <1>1, <1>3, <1>5 DEF Quiet, Box!store, Box!saves

\* A run that ends, or turns to the pull, has got nothing.
LEMMA LinkQuiet ==
  ASSUME BoxInv, Box!NetError \/ Box!PushError \/ Box!Restart \/ Box!LinkLost \/ Box!LinkBack \/ Box!AcceptOffline \/ Box!Drain
  PROVE  Quiet
<1>0. Box!TypeOK'
  BY LinkTyped
<1>1. UNCHANGED <<oDoc, oAnswers, oReached, Box!store, oOutcome, oMade, oDiscarded, oRevived, oOvertaken>> /\ oSaving' \in {oSaving, Box!NotSaving}
  BY DEF Box!NetError, Box!PushError, Box!Restart, Box!LinkLost, Box!LinkBack, Box!AcceptOffline, Box!Drain, Box!server, Box!saves
<1>2. ServerOf
  BY <1>1 DEF ServerOf
<1>3. Done' = Done
  BY <1>1 DEF Done
<1>4. CASE Box!NetError \/ Box!Restart
  <2>1. oRun' = Box!Idle /\ oLate' \in {oLate} \cup {oLate \cup {e} : e \in Box!Asking}
    BY <1>4 DEF Box!NetError, Box!Restart
  <2>2. Box!Asking \subseteq Asks
    BY DEF Box!Asking, Asks
  <2>3. Out' \subseteq Out
    BY <2>1, <2>2 DEF Out, Asks, Box!Idle
  <2>4. oRun'.st = "idle" /\ oRun'.tried = {} /\ oRun'.got.v = 0
    BY <2>1 DEF Box!Idle, Box!NoRes
  <2>5. oDoc'.v \in Nat
    BY <1>0 DEF Box!TypeOK
  <2>6. RunOf
    BY <2>3, <2>4, <2>5 DEF RunOf
  <2> QED BY <1>1, <1>2, <2>6 DEF Quiet, Box!store
<1>5. CASE Box!PushError
  <2>1. oRun.st = "asked" /\ oRun' = [oRun EXCEPT !.st = "pull"] /\ oLate' \in {oLate} \cup {oLate \cup {e} : e \in Box!Asking}
    BY <1>5 DEF Box!PushError
  <2>2. Box!Asking \subseteq Asks
    BY DEF Box!Asking, Asks
  <2>3. oRun \in TheRun
    BY DEF BoxInv, Box!TypeOK, TheRun
  <2>4. oRun'.st = "pull" /\ oRun'.tried = oRun.tried /\ oRun'.got = oRun.got
    BY <2>1, <2>3 DEF TheRun
  <2>5. Out' \subseteq Out
    BY <2>1, <2>2, <2>4 DEF Out, Asks
  <2>6. oRun'.got.v \in 0 .. oDoc'.v
    BY <1>1, <2>4 DEF BoxInv, Versions
  <2>7. RunOf
    BY <2>4, <2>5, <2>6 DEF RunOf
  <2> QED BY <1>1, <1>2, <2>7 DEF Quiet, Box!store
<1>6. CASE Box!LinkLost \/ Box!LinkBack \/ Box!AcceptOffline \/ Box!Drain
  <2>1. oRun' = oRun /\ oLate' = oLate
    BY <1>6 DEF Box!LinkLost, Box!LinkBack, Box!AcceptOffline, Box!Drain, Box!server
  <2>2. Out' \subseteq Out
    BY <2>1 DEF Out, Asks
  <2>3. oRun'.st = "answered" /\ oRun'.got.is # "retry" => oRun'.ask.id \in Done' /\ oRun'.got = oAnswers'[oRun'.ask.id]
    BY <1>1, <1>3, <2>1 DEF BoxInv, Same
  <2>4. RunOf
    BY <1>0, <1>2, <2>1, <2>2, <2>3, GotStays DEF RunOf
  <2> QED BY <1>1, <1>2, <2>4 DEF Quiet, Box!store
<1> QED BY <1>4, <1>5, <1>6

LEMMA PullQuiet == ASSUME BoxInv, Box!Pull \/ Box!ApplyPull \/ Box!EditByOther PROVE Quiet
<1>0. Box!TypeOK' /\ oDoc.v \in Nat /\ oRun \in TheRun /\ oRun.got.v \in Nat /\ oCursor \in Nat
  BY PullTyped DEF BoxInv, Box!TypeOK, TheRun, Box!Result
<1>1. CASE Box!Pull
  <2>1. UNCHANGED <<Box!server, Box!store, oCursor, Box!saves, oMode, oLink, oEvents>> /\ oRun' = [oRun EXCEPT !.st = "pulled", !.got = Box!Res("applied", oDoc)]
    BY <1>1 DEF Box!Pull
  <2>2. oRun'.st = "pulled" /\ oRun'.tried = oRun.tried /\ oRun'.got = Box!Res("applied", oDoc)
    BY <1>0, <2>1 DEF TheRun
  <2>3. oRun'.got.v = oDoc'.v /\ oRun'.got.body = oDoc'.body /\ oDoc' = oDoc
    BY <2>1, <2>2 DEF Box!Res, Box!server
  <2>4. Out' \subseteq Out
    BY <2>1, <2>2 DEF Out, Asks, Box!server
  <2>5. RunOf
    BY <1>0, <2>2, <2>3, <2>4 DEF RunOf
  <2> QED BY <2>1, <2>5 DEF Quiet, ServerOf, Box!store, Box!server, Box!saves
<1>2. CASE Box!ApplyPull
  <2>1. UNCHANGED <<Box!server, oQueue, oNextId, Box!saves, oEvents>> /\ oRun' = Box!Idle
    BY <1>2 DEF Box!ApplyPull
  <2>2. oRun'.st = "idle" /\ oRun'.tried = {} /\ oRun'.got.v = 0
    BY <2>1 DEF Box!Idle, Box!NoRes
  <2>3. Out' \subseteq Out
    BY <2>1, <2>2 DEF Out, Asks, Box!server
  <2>4. RunOf
    BY <1>0, <2>1, <2>2, <2>3 DEF RunOf, Box!server
  <2>5. UNCHANGED <<Box!screen, oKnown>> \/ (oKnown' = oRun.got.v /\ oRun.got.v >= 1 /\ Box!Applied)
    <3>1. CASE oRun.got.v > oCursor /\ (oQueue = <<>> \/ oRow = Box!None)
      BY <1>0, <1>2, <3>1 DEF Box!ApplyPull
    <3>2. CASE ~(oRun.got.v > oCursor /\ (oQueue = <<>> \/ oRow = Box!None))
      BY <1>2, <3>2 DEF Box!ApplyPull
    <3> QED BY <3>1, <3>2
  <2> QED BY <2>1, <2>4, <2>5 DEF Quiet, ServerOf, Box!server, Box!saves
<1>3. CASE Box!EditByOther
  <2>1. /\ UNCHANGED <<oAnswers, oLate, oReached, Box!store, oCursor, oRun, Box!saves, oMode, oLink>>
        /\ oDoc.v # 0 /\ oDoc' = [v |-> oDoc.v + 1, body |-> Box!Theirs(oDoc.v + 1)]
    BY <1>3 DEF Box!EditByOther
  <2>2. ServerOf
    BY <2>1 DEF ServerOf
  <2>3. Out' \subseteq Out /\ Done' = Done
    BY <2>1 DEF Out, Asks, Done
  <2>4. RunOf
    BY <1>0, <2>1, <2>2, <2>3, GotStays DEF RunOf, BoxInv, Same
  <2> QED BY <2>1, <2>2, <2>4 DEF Quiet, Box!store, Box!saves
<1> QED BY <1>1, <1>2, <1>3
-----------------------------------------------------------------------------
(* The theorems *)

LEMMA Begins == ASSUME Box!Init PROVE BoxInv
<1>1. Box!TypeOK
  <2>1. PICK k \in Known0 : /\ oDoc = IF k THEN [v |-> 1, body |-> Box!Theirs(1)] ELSE [v |-> 0, body |-> Box!None]
                            /\ oRow = oDoc.body /\ oShown = oDoc.v /\ oKnown = oDoc.v /\ oCursor = oDoc.v
    BY DEF Box!Init
  <2>2. Box!Theirs(1) \in Box!Bodies
    BY DEF Box!Theirs, Box!Bodies
  <2>3. oDoc \in [v : Nat, body : Box!Bodies] /\ oRow \in Box!Bodies /\ oShown \in Nat /\ oKnown \in Nat /\ oCursor \in Nat
    BY <2>1, <2>2, Nones
  <2>4. oOutcome \in Outcomes
    BY DEF Box!Init, Outcomes
  <2>5. oQueue \in Seq(Box!Entry) /\ DOMAIN oAnswers = {}
    BY DEF Box!Init
  <2>6. oRun \in TheRun /\ oSaving \in TheSave
    BY Nones DEF Box!Init
  <2>7. oMode \in Box!Modes /\ oLink \in BOOLEAN /\ oOlder \in BOOLEAN
    BY DEF Box!Init, Box!Modes
  <2>8. oLate = {} /\ oReached = {} /\ oDiscarded = {} /\ oOvertaken = {} /\ oNextId = 1 /\ oMade = 0 /\ oRevived = 0 /\ oEvents = 0
    BY DEF Box!Init
  <2> QED BY <2>3, <2>4, <2>5, <2>6, <2>7, <2>8 DEF Box!TypeOK, TheRun, TheSave, Outcomes
<1>2. Queued = {} /\ Out = {} /\ Copies = {} /\ Done = {} /\ DOMAIN oQueue = {}
  BY DEF Box!Init, Queued, Box!Range, Out, Asks, Box!Idle, Copies, Done
<1>3. /\ oRun.st = "idle" /\ oRun.tried = {} /\ oRun.got.v = 0 /\ oSaving = Box!NotSaving /\ oSaving.shown = 0
      /\ oKnown = oDoc.v /\ oShown = oDoc.v /\ oDoc.v \in Nat /\ oMade = 0 /\ oNextId = 1 /\ oReached = {} /\ MaxSaves \in Nat
  BY <1>1, BoxBounds DEF Box!Init, Box!Idle, Box!NoRes, Box!NotSaving, Box!TypeOK
<1>4. \A n \in Box!Edits : oOutcome[n] = "none"
  BY DEF Box!Init
<1>5. Numbers
  BY <1>2, <1>3, <1>4 DEF Numbers, Distinct
<1>6. Versions
  BY <1>2, <1>3 DEF Versions
<1>7. Bases
  BY <1>2, <1>3 DEF Bases
<1>8. Same /\ Waiting /\ Creates /\ Ordered
  BY <1>2, <1>3 DEF Same, Waiting, Creates, Ordered
<1>9. NothingBack /\ Kept
  BY <1>4 DEF NothingBack, Kept
<1> QED BY <1>1, <1>5, <1>6, <1>7, <1>8, <1>9 DEF BoxInv

LEMMA QuietSteps ==
  ASSUME BoxInv, \/ Box!Serve \/ Box!Pull \/ Box!ApplyPull \/ Box!NetError \/ Box!PushError \/ Box!EditByOther \/ (\E e \in oLate : Box!ServeLate(e))
                 \/ Box!LinkLost \/ Box!LinkBack \/ Box!AcceptOffline \/ Box!Drain \/ Box!Restart
  PROVE  Quiet /\ Box!TypeOK'
BY ServeQuiet, ServeTyped, PullQuiet, PullTyped, LinkQuiet, LinkTyped, LateQuiet, LateTyped

LEMMA NextCases ==
  ASSUME Box!Next
  PROVE  \/ Box!Save \/ Box!GiveUp \/ Box!StartRun \/ Box!Handle \/ (\E i \in DOMAIN oQueue : Box!Retry(i) \/ Box!Discard(i))
         \/ Box!Serve \/ Box!Pull \/ Box!ApplyPull \/ Box!NetError \/ Box!PushError \/ Box!EditByOther \/ (\E e \in oLate : Box!ServeLate(e))
         \/ Box!LinkLost \/ Box!LinkBack \/ Box!AcceptOffline \/ Box!Drain \/ Box!Restart
BY DEF Box!Next, Box!RunStep

LEMMA StepKeeps == ASSUME BoxInv, [Box!Next]_Box!vars PROVE BoxInv'
<1>1. CASE Box!Save \/ Box!GiveUp \/ Box!StartRun \/ Box!Handle
  BY <1>1, SaveKeeps, GiveUpKeeps, GoKeeps
<1>2. CASE \E i \in DOMAIN oQueue : Box!Retry(i) \/ Box!Discard(i)
  BY <1>2, RetryKeeps, DiscardKeeps
<1>3. CASE \/ Box!Serve \/ Box!Pull \/ Box!ApplyPull \/ Box!NetError \/ Box!PushError \/ Box!EditByOther \/ (\E e \in oLate : Box!ServeLate(e))
           \/ Box!LinkLost \/ Box!LinkBack \/ Box!AcceptOffline \/ Box!Drain \/ Box!Restart
  BY <1>3, QuietSteps, QuietKeeps
<1>4. CASE UNCHANGED Box!vars
  <2>1. /\ UNCHANGED <<oDoc, oAnswers, oLate, oReached, oRow, oShown, oOlder, oKnown, oQueue, oNextId, oCursor, oRun>>
        /\ UNCHANGED <<oSaving, oOutcome, oMade, oDiscarded, oRevived, oOvertaken, oMode, oLink, oEvents>>
    BY <1>4 DEF Box!vars, Box!server, Box!store, Box!screen, Box!saves
  <2>2. Box!TypeOK'
    BY <2>1 DEF BoxInv, Box!TypeOK
  <2>3. Quiet
    <3>1. UNCHANGED <<Box!screen, oKnown>> /\ Out' = Out /\ Done' = Done
      BY <2>1 DEF Box!screen, Out, Asks, Done
    <3>2. ServerOf
      BY <2>1 DEF ServerOf
    <3>3. oRun'.got.v \in 0 .. oDoc'.v /\ (oRun'.st \in {"answered", "pulled"} /\ oRun'.got.v = oDoc'.v => oRun'.got.body = oDoc'.body)
      BY <2>1, <2>2, <3>2, GotStays
    <3>4. oRun'.st = "answered" /\ oRun'.got.is # "retry" => oRun'.ask.id \in Done' /\ oRun'.got = oAnswers'[oRun'.ask.id]
      BY <2>1, <3>1 DEF BoxInv, Same
    <3>5. RunOf
      BY <2>1, <3>1, <3>3, <3>4 DEF RunOf
    <3> QED BY <2>1, <3>1, <3>2, <3>5 DEF Quiet
  <2> QED BY <2>2, <2>3, QuietKeeps
<1> QED BY <1>1, <1>2, <1>3, <1>4, NextCases

(* A step of the composition is one of the outbox, or leaves it as it is. *)
LEMMA BoxSteps == ASSUME [EitherNext]_<<focus, feed, box>> PROVE [Box!Next]_Box!vars
BY DEF EitherNext, box, Box!vars, Box!server, Box!store, Box!screen, Box!saves

(* In every state of the composition the invariant of the outbox holds. *)
LEMMA Always == EitherSpec => []BoxInv
<1>1. EitherInit => BoxInv
  BY Begins DEF EitherInit
<1>2. BoxInv /\ [EitherNext]_<<focus, feed, box>> => BoxInv'
  BY StepKeeps, BoxSteps
<1> QED BY <1>1, <1>2, PTL DEF EitherSpec

(* For any number of edits, faults and choices of the person: an edit the person was told was refused or not kept *)
(* never reaches the server, and one that was queued is in the outbox, or the server has it or a later one, or    *)
(* the person discarded one made no earlier; so long as no create was made anew (outbox.ts, save.ts, retry.ts).   *)
THEOREM OutboxIsSound == EitherSpec => []QueueIsSound
<1>1. ASSUME BoxInv PROVE QueueIsSound
  <2>1. Box!NothingKeptIsNothingSent
    BY <1>1 DEF BoxInv, NothingBack, Box!NothingKeptIsNothingSent
  <2>2. Box!QueuedIsKeptUnlessRevived
    <3> SUFFICES ASSUME oRevived = 0, NEW n \in Box!Edits, oOutcome[n] \in {"queued", "folded"}
                 PROVE  (\E i \in DOMAIN oQueue : oQueue[i].n >= n) \/ \E k \in oReached \cup oDiscarded : k >= n
      BY DEF Box!QueuedIsKeptUnlessRevived, Box!QueuedIsKept
    <3>1. (\E x \in Queued : x.n >= n) \/ \E k \in oReached \cup oDiscarded : k >= n
      BY <1>1 DEF BoxInv, Kept
    <3> QED BY <3>1 DEF Queued, Box!Range
  <2> QED BY <1>1, <2>1, <2>2 DEF BoxInv, QueueIsSound, Box!QueueIsSound
<1>2. BoxInv => QueueIsSound
  BY <1>1
<1> QED BY <1>2, Always, PTL

\* A save hears that the server has its edit from the answer to its own entry.
LEMMA HeardOf == ASSUME BoxInv, [Box!Next]_Box!vars, NEW n \in Box!Edits, oSaving.n = n, oOutcome'[n] = "saved" PROVE n \in oReached \/ oRevived # 0
<1>1. oSaving # Box!NotSaving /\ n \in Nat
  BY BoxBounds DEF Box!NotSaving, Box!Edits
<1>2. oOutcome[n] = "none" /\ oOutcome \in Outcomes
  BY <1>1 DEF BoxInv, Waiting, Box!TypeOK, Outcomes
<1>3. oOutcome' # oOutcome
  BY <1>2
<1>4. CASE Box!StartRun \/ Box!Handle
  <2>1. /\ oRun.st = "answered" /\ oSaving.id = oRun.ask.id
        /\ \/ Box!Answered("applied")
           \/ oOutcome' = [oOutcome EXCEPT ![oSaving.n] = "refused"]
    BY <1>3, <1>4, ToldOf
  <2>2. Box!Answered("applied")
    BY <1>2, <2>1 DEF Outcomes
  <2>3. oSaving.id \in Done /\ oAnswers[oSaving.id].is = "applied"
    BY <2>1, <2>2, AskedIs DEF Box!Answered
  <2>4. PICK x \in Queued : x.id = oSaving.id /\ x.n = oSaving.n
    BY <1>1 DEF BoxInv, Waiting
  <2>5. oRevived = 0 => n \in oReached
    BY <2>3, <2>4 DEF BoxInv, Creates, Copies
  <2> QED BY <2>5
<1>5. CASE Box!Save
  BY <1>1, <1>5 DEF Box!Save
<1>6. CASE Box!GiveUp
  <2>1. \E o \in {"queued", "unconfirmed", "unreachable"} : oOutcome' = [oOutcome EXCEPT ![oSaving.n] = o]
    BY <1>6 DEF Box!GiveUp
  <2> QED BY <1>2, <2>1 DEF Outcomes
<1>7. CASE \E i \in DOMAIN oQueue : Box!Retry(i) \/ Box!Discard(i)
  BY <1>3, <1>7 DEF Box!Retry, Box!Discard, Box!saves
<1>8. CASE \/ Box!Serve \/ Box!Pull \/ Box!ApplyPull \/ Box!NetError \/ Box!PushError \/ Box!EditByOther \/ (\E e \in oLate : Box!ServeLate(e))
           \/ Box!LinkLost \/ Box!LinkBack \/ Box!AcceptOffline \/ Box!Drain \/ Box!Restart
  BY <1>3, <1>8, QuietSteps DEF Quiet
<1>9. CASE UNCHANGED Box!vars
  BY <1>3, <1>9 DEF Box!vars, Box!saves
<1> QED BY <1>4, <1>5, <1>6, <1>7, <1>8, <1>9, NextCases

\* What the server carries out is the one entry it had not answered.
LEMMA CarriesOut ==
  ASSUME BoxInv, [Box!Next]_Box!vars, NEW e \in oLate \cup Box!Asking, Box!CarriedOut(e)
  PROVE  /\ e \in Out /\ e.id \notin Done
         /\ \E x \in Out : x.id = e.id /\ IF x.method = "POST" THEN oDoc.v = 0 ELSE oDoc.v # 0 /\ x.base \in {Box!NoBase, oDoc.v}
<1>1. e \in Out
  BY DEF Out, Asks, Box!Asking
<1>2. e.id \notin Done /\ e.id \in Done' /\ oDoc' # oDoc
  BY DEF Box!CarriedOut, Done
<1>3. Quiet
  <2>1. CASE Box!Save \/ Box!GiveUp \/ Box!StartRun \/ Box!Handle \/ \E i \in DOMAIN oQueue : Box!Retry(i) \/ Box!Discard(i)
    <3>1. oAnswers' = oAnswers
      BY <2>1 DEF Box!Save, Box!GiveUp, Box!StartRun, Box!Handle, Box!HandleApplied, Box!HandleRetry, Box!HandleConflict, Box!HandleRejected, Box!Retry, Box!Discard, Box!server
    <3> QED BY <1>2, <3>1 DEF Done
  <2>2. CASE UNCHANGED Box!vars
    <3>1. oAnswers' = oAnswers
      BY <2>2 DEF Box!vars, Box!server
    <3> QED BY <1>2, <3>1 DEF Done
  <2> QED BY <2>1, <2>2, NextCases, QuietSteps
<1>4. PICK x : Ran(x)
  BY <1>2, <1>3 DEF Quiet, ServerOf, Done
<1>5. x \in Out /\ x.id = e.id
  BY <1>2, <1>4 DEF Ran
<1>6. IF x.method = "POST" THEN oDoc.v = 0 ELSE oDoc.v # 0 /\ x.base \in {Box!NoBase, oDoc.v}
  BY <1>2, <1>4 DEF Ran
<1> QED BY <1>1, <1>2, <1>5, <1>6

LEMMA OverwritesNot ==
  ASSUME BoxInv, [Box!Next]_Box!vars, NEW e \in oLate \cup Box!Asking, Box!CarriedOut(e), e.base # Box!NoBase
  PROVE  ~Box!Overwrites(e) \/ oOlder \/ oRevived # 0
<1> SUFFICES ASSUME Box!Overwrites(e), ~oOlder, oRevived = 0 PROVE FALSE
  OBVIOUS
<1>1. e \in Out /\ e \in Copies
  BY CarriesOut DEF Copies
<1>2. PICK x \in Out : x.id = e.id /\ IF x.method = "POST" THEN oDoc.v = 0 ELSE oDoc.v # 0 /\ x.base \in {Box!NoBase, oDoc.v}
  BY CarriesOut
<1>3. x \in Copies /\ x.saw = e.saw /\ x.base # Box!NoBase
  BY <1>1, <1>2 DEF BoxInv, Same, Copies
<1>4. x.method # "POST"
  BY <1>3 DEF BoxInv, Numbers
<1>5. x.base = oDoc.v /\ x.saw < x.base
  BY <1>2, <1>3, <1>4 DEF Box!Overwrites
<1>6. oDoc.body \in MyBodies
  BY <1>3, <1>5 DEF BoxInv, Bases
<1> QED BY <1>6 DEF Box!Overwrites, MyBodies

LEMMA InOrder ==
  ASSUME BoxInv, [Box!Next]_Box!vars, NEW e \in oLate \cup Box!Asking, Box!CarriedOut(e),
         NEW i \in DOMAIN oQueue, oQueue[i].id = e.id, ~oQueue[i].tries, e.n \notin oOvertaken
  PROVE  \A k \in oReached : k < e.n
<1>1. e \in Out /\ e.id \notin Done
  BY CarriesOut
<1>2. oQueue[i] \in Queued
  BY DEF Queued, Box!Range
<1>3. oQueue[i].n = e.n
  BY <1>1, <1>2 DEF BoxInv, Same, Copies
<1> QED BY <1>1, <1>2, <1>3 DEF BoxInv, Ordered

(* For the same: who is told the server has an edit is told so of one it carried out; an edit made against a       *)
(* version never replaces what another saved and this device did not show; and edits at first land in the order   *)
(* they were made (save.ts, outbox.ts, sync.ts).                                                                 *)
THEOREM EditsLandRight == EitherSpec => EditsLand
<1>1. ASSUME BoxInv, [Box!Next]_Box!vars
      PROVE  /\ \A n \in Box!Edits : oSaving.n = n /\ oOutcome'[n] = "saved" => n \in oReached \/ oRevived # 0
             /\ \A e \in oLate \cup Box!Asking : Box!CarriedOut(e) /\ e.base # Box!NoBase => ~Box!Overwrites(e) \/ oOlder \/ oRevived # 0
             /\ \A e \in oLate \cup Box!Asking : Box!CarriedOut(e) =>
                  \A i \in DOMAIN oQueue : oQueue[i].id = e.id /\ ~oQueue[i].tries /\ e.n \notin oOvertaken => \A k \in oReached : k < e.n
  BY <1>1, HeardOf, OverwritesNot, InOrder
<1> QED BY <1>1, BoxSteps, Always, PTL DEF EitherSpec, EditsLand, Box!EditsLand, Box!SavedIsThere, Box!NoSilentOverwriteWithBase, Box!EditsInOrderAtFirst
================================================================================
