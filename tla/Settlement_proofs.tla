--------------------------- MODULE Settlement_proofs ----------------------------
(***************************************************************************)
(* What settles documents, for any documents, notes, payments, accounts    *)
(* and requests: nothing is settled beyond what there is, what is kept     *)
(* beside the rows it is derived from agrees with them, and payments never *)
(* wait for each other in a ring.  What the composition promises of the    *)
(* documents, and that an amount is divided without loss, is at the end.   *)
(***************************************************************************)
EXTENDS MCSettlement, Money, SumTheorems, SequenceTheorems

Writes == {"create", "save", "refund"}
States == {"unborn", "kept", "gone"}
PayRows == [state : States, dir : Directions, amount : Nat, left : Nat, alloc : Allocs,
            of : Payments \cup {Nothing}, acc : Accounts \cup {Nothing}]
Said == [dir : Directions, amount : Nat, alloc : Allocs, of : Payments \cup {Nothing}, acc : Accounts \cup {Nothing}]

-----------------------------------------------------------------------------
(* The constants *)

LEMMA Rows_ ==
  /\ Docs = Invoices \cup Notes /\ Payables \subseteq Docs /\ Invoices \subseteq Payables /\ Notes \subseteq Docs
  /\ CreditNotes \subseteq Notes /\ DebitNotes \subseteq Notes
  /\ \A n \in Notes : Source[n] \in Invoices /\ Source[n] \in Payables /\ Source[n] \in Docs /\ Source[n] # n
  /\ \A d \in Docs : Total[d] \in Nat /\ Total[d] > 0
  /\ Payments \cap Docs = {} /\ Accounts \cap Docs = {} /\ Accounts \cap Payments = {}
  /\ Nothing \notin Docs /\ Nothing \notin Payments /\ Nothing \notin Accounts /\ Nothing \notin Sessions
BY ConstantsAssumption, RowsAssumption DEF Notes, Payables

LEMMA Finite == IsFiniteSet(Docs) /\ IsFiniteSet(Payables) /\ IsFiniteSet(Payments)
<1>1. IsFiniteSet(1 .. Len(DocSeq))
  <2>1. Len(DocSeq) \in Nat
    BY ConstantsAssumption
  <2> QED BY <2>1, FS_Interval
<1>2. DocSeq \in Surjection(1 .. Len(DocSeq), Docs)
  <2>1. DocSeq \in [1 .. Len(DocSeq) -> Docs]
    BY ConstantsAssumption
  <2>2. \A d \in Docs : \E i \in 1 .. Len(DocSeq) : DocSeq[i] = d
    BY <2>1 DEF Docs
  <2> QED BY <2>1, <2>2 DEF Surjection
<1>3. IsFiniteSet(Docs)
  BY <1>1, <1>2, FS_Surjection
<1> QED BY <1>3, Rows_, RowsAssumption, FS_Subset

LEMMA InputsSay ==
  /\ NoAlloc \in Allocs /\ DocsOf(NoAlloc) = {} /\ \A d \in Payables : Settles(NoAlloc, d) = 0
  /\ Inputs \cup Refunds \cup {NoInput} \subseteq Said
  /\ \A in \in Inputs : in.of = Nothing /\ in.acc \in Accounts
  /\ \A in \in Refunds : in.of \in Payments /\ in.dir = "paid" /\ in.alloc = NoAlloc /\ in.acc \in Accounts
  /\ NoInput.of = Nothing /\ NoInput.alloc = NoAlloc
<1>1. NoAlloc \in Allocs /\ DocsOf(NoAlloc) = {} /\ \A d \in Payables : Settles(NoAlloc, d) = 0
  BY DEF NoAlloc, Allocs, DocsOf, Settles
<1>2. \A in \in Refunds : in \in Said /\ in.of \in Payments /\ in.dir = "paid" /\ in.alloc = NoAlloc /\ in.acc \in Accounts
  BY <1>1, RowsAssumption DEF Refunds, Said, Directions
<1>3. \A in \in Inputs : in \in Said /\ in.of = Nothing /\ in.acc \in Accounts
  BY RowsAssumption DEF Said
<1>4. NoInput \in Said /\ NoInput.of = Nothing /\ NoInput.alloc = NoAlloc
  BY <1>1 DEF NoInput, Said, Directions
<1> QED BY <1>1, <1>2, <1>3, <1>4

(* What a request is, by its kind. *)
LEMMA Asked_ ==
  ASSUME NEW r \in Requests
  PROVE  /\ r.op \in {"create", "refund", "save", "remove", "finalize", "cancel"}
         /\ r.in \in Said
         /\ r.op \in Writes => r.p \in Payments /\ r.in \in Inputs \cup Refunds /\ r.in.acc \in Accounts
         /\ r.op = "create" => r.in.of = Nothing
         /\ r.op = "remove" => r.p \in Payments /\ r.in = NoInput
         /\ r.op \in {"finalize", "cancel"} => r.d \in Docs /\ r.p = Nothing /\ r.in = NoInput
  BY InputsSay DEF Requests, Writes

LEMMA NoRequest_ == NoRequest.op = Nothing /\ NoRequest.p = Nothing /\ NoRequest.in = NoInput /\ NoRequest.in.of = Nothing
                    /\ NoRequest.in \in Said
  BY InputsSay DEF NoRequest

(* Sums over the rows are numbers. *)
LEMMA Sums ==
  ASSUME NEW ps \in [Payments -> PayRows], NEW sts \in [Docs -> {"draft", "issued", "cancelled"}]
  PROVE  /\ \A d \in Payables : Allocated(ps, d) \in Nat
         /\ \A p : RefundedFrom(ps, p) \in Nat
         /\ \A d, ns : ns \subseteq Notes => Against(sts, ns, d) \in Nat
         /\ \A alloc \in Allocs : Cash(alloc) \in Nat
<1>1. ASSUME NEW d \in Payables PROVE Allocated(ps, d) \in Nat
  <2> DEFINE g == [p \in Payments |-> Settles(ps[p].alloc, d)]
  <2>1. g \in [Payments -> Int] /\ \A p \in Payments : g[p] >= 0
    BY DEF PayRows, Allocs, Settles
  <2>2. Kept(ps) \in SUBSET Payments /\ IsFiniteSet(Kept(ps))
    BY Finite, FS_Subset DEF Kept
  <2> HIDE DEF g
  <2>3. SumFunctionOnSet(g, Kept(ps)) \in Int /\ SumFunctionOnSet(g, Kept(ps)) >= 0
    BY <2>1, <2>2, SumIsInt, SumIsNat
  <2> QED BY <2>3 DEF Allocated, g
<1>2. ASSUME NEW p PROVE RefundedFrom(ps, p) \in Nat
  <2> DEFINE g == [r \in Payments |-> ps[r].amount]
             S == {r \in Kept(ps) : ps[r].of = p}
  <2>1. g \in [Payments -> Int] /\ \A r \in Payments : g[r] >= 0
    BY DEF PayRows
  <2>2. S \in SUBSET Payments /\ IsFiniteSet(S)
    BY Finite, FS_Subset DEF Kept
  <2> HIDE DEF g, S
  <2>3. SumFunctionOnSet(g, S) \in Int /\ SumFunctionOnSet(g, S) >= 0
    BY <2>1, <2>2, SumIsInt, SumIsNat
  <2> QED BY <2>3 DEF RefundedFrom, g, S
<1>3. ASSUME NEW d, NEW ns, ns \subseteq Notes PROVE Against(sts, ns, d) \in Nat
  <2> DEFINE S == {n \in ns : Source[n] = d /\ Live(sts, n)}
  <2>1. Total \in [Docs -> Int] /\ \A e \in Docs : Total[e] >= 0
    BY ConstantsAssumption
  <2>2. S \in SUBSET Docs /\ IsFiniteSet(S)
    BY <1>3, Rows_, Finite, FS_Subset
  <2> HIDE DEF S
  <2>3. SumFunctionOnSet(Total, S) \in Int /\ SumFunctionOnSet(Total, S) >= 0
    BY <2>1, <2>2, SumIsInt, SumIsNat
  <2> QED BY <2>3 DEF Against, S
<1>4. ASSUME NEW alloc \in Allocs PROVE Cash(alloc) \in Nat
  <2> DEFINE g == [d \in Payables |-> alloc[d].cash]
  <2>1. g \in [Payables -> Int] /\ \A d \in Payables : g[d] >= 0
    BY DEF Allocs
  <2> HIDE DEF g
  <2>2. SumFunctionOnSet(g, Payables) \in Int /\ SumFunctionOnSet(g, Payables) >= 0
    BY <2>1, Finite, SumIsInt, SumIsNat
  <2> QED BY <2>2 DEF Cash, g
<1> QED BY <1>1, <1>2, <1>3, <1>4

-----------------------------------------------------------------------------
(* The invariant *)

\* A request is answered for the payment it is about, and a new payment's id is its own.
Minds(s) ==
  LET r == req[s] IN
  /\ at[s] = "idle" => r = NoRequest /\ \A x \in Rows : lock[x] # s
  /\ at[s] # "idle" => r \in Requests
  /\ r.op \in {"create", "refund"} => pay[r.p] = Unborn /\ \A u \in Sessions \ {s} : req[u].p # r.p
  /\ r.op \in {"save", "remove"} => Known(r.p)
  /\ r.in.of # Nothing => Known(r.in.of)

\* What a request that writes has locked.
Holding(s) ==
  LET r == req[s] IN
  /\ r.op \in Writes => /\ lock[r.in.acc] = s
                        /\ \A d \in DocsOf(r.in.alloc) : lock[d] = s
                        /\ r.in.of # Nothing => lock[r.in.of] = s
  /\ r.op \in {"save", "remove"} => lock[r.p] = s /\ \A d \in DocsOf(pay[r.p].alloc) : lock[d] = s
  /\ r.op = "remove" /\ pay[r.p].of # Nothing => lock[pay[r.p].of] = s
  /\ r.op \in {"finalize", "cancel"} => lock[r.d] = s
  /\ r.op \in {"finalize", "cancel"} /\ r.d \in CreditNotes => lock[Source[r.d]] = s
  /\ r.op = "finalize" /\ r.d \in Notes => lock[Source[r.d]] = s

\* What debit notes ever issued charge on top of an invoice.
Charged(sts, d) == SumFunctionOnSet(Total, {n \in DebitNotes : Source[n] = d /\ sts[n] # "draft"})

\* What a request decided on, and what of it is still so when it writes.
WriteStands(s) ==
  LET r == req[s] IN
  /\ r.op = "save" => pay[r.p].state = "kept" /\ pay[r.p].of = r.in.of
  /\ r.in.amount > 0 \/ \E d \in Payables : r.in.alloc[d].adj > 0
  /\ \A d \in DocsOf(r.in.alloc) : status[d] = "issued" /\ r.in.dir = "received" /\ Settles(r.in.alloc, d) <= Owed(r, d)
  /\ Cash(r.in.alloc) + RefundedOf(r) <= r.in.amount
  /\ RefundFits(r)
  /\ seen[s] = [left |-> LeftOf(r.in.of), refunded |-> RefundedOf(r)]
RemoveStands(s) == RemoveFits(req[s]) /\ seen[s].left = LeftOf(pay[req[s].p].of)
FinalizeStands(s) ==
  LET d == req[s].d IN
  /\ status[d] = "draft"
  /\ d \in Notes => status[Source[d]] = "issued"
  /\ d \in CreditNotes => Total[d] + Against(status, CreditNotes, Source[d]) <= Total[Source[d]] + Charged(status, Source[d])
Stands(s) ==
  /\ req[s].op \in Writes => WriteStands(s)
  /\ req[s].op = "remove" => RemoveStands(s)
  /\ req[s].op = "finalize" => FinalizeStands(s)
  /\ req[s].op = "cancel" => CancelFits(req[s].d)

\* The rows of payments: an unborn one is blank and not locked; a refund is paid, and of a payment that refunds nothing.
RowsAreSound ==
  \A p \in Payments :
    /\ pay[p].state = "unborn" => pay[p] = Unborn
    /\ lock[p] # Nothing => Known(p)
    /\ pay[p].of # Nothing => pay[p].dir = "paid" /\ Known(pay[p].of) /\ pay[pay[p].of].of = Nothing

WorkIsSound == \A s \in Sessions : Minds(s) /\ (at[s] = "writing" => Holding(s) /\ Stands(s))
IInv ==
  /\ TypeOK /\ RowsAreSound /\ WorkIsSound
  /\ PaidIsDerived /\ NothingOverpaid /\ CreditWithinSource /\ CancelledStandsAlone

\* What holds besides if nothing turns from a receipt into a payment.
KeepsItsWay == \A s \in Sessions : req[s].op = "save" => req[s].in.dir = pay[req[s].p].dir
RefundsAreOfReceipts ==
  \A r \in Kept(pay) : pay[r].of # Nothing =>
    pay[r].amount > 0 /\ pay[pay[r].of].state = "kept" /\ pay[pay[r].of].dir = "received"
TurnInv == KeepsItsWay /\ RefundsAreOfReceipts /\ AdvanceIsWhatIsLeft

\* Rows are locked in one order: a refund taken off, its receipt, accounts, documents by id.
Ordinary(s) == at[s] = "locking" /\ req[s].op \in {"create", "save", "remove"} /\ req[s].in.of = Nothing
Above(s, x, y) ==
  \/ x \in Payments /\ y \in Payments /\ req[s].op = "remove" /\ x = req[s].p /\ y = pay[x].of
  \/ x \in Payments /\ y \in Accounts \cup Docs
  \/ x \in Accounts /\ y \in Docs
  \/ Earlier(x, y)
StillToLock(s) == {y \in Rows : \E i \in DOMAIN Path(req[s]) : y \in Missing(s, Path(req[s])[i])}
OwnFirst(s) == req[s].op \in {"save", "remove"} => \A x \in Rows : lock[x] = s => lock[req[s].p] = s
InOrder(s) == Ordinary(s) => \A x \in Rows : lock[x] = s => \A y \in StillToLock(s) : Above(s, x, y)
LocksInOrder == \A s \in Sessions : OwnFirst(s) /\ InOrder(s)

-----------------------------------------------------------------------------
(* What the operators come to *)

Statuses == {"draft", "issued", "cancelled"}

LEMMA Typed == ASSUME TypeOK PROVE pay \in [Payments -> PayRows] /\ status \in [Docs -> Statuses] /\ paid \in [Payables -> Nat]
  BY DEF TypeOK, PayRows, States, Statuses

\* What payments settle and refund when the row of one of them changes.
LEMMA AllocatedMoves ==
  ASSUME NEW ps \in [Payments -> PayRows], NEW qs \in [Payments -> PayRows], NEW p \in Payments, NEW d \in Payables,
         \A q \in Payments \ {p} : qs[q].state = ps[q].state /\ qs[q].alloc = ps[q].alloc
  PROVE  Allocated(qs, d) = Allocated(ps, d) - (IF ps[p].state = "kept" THEN Settles(ps[p].alloc, d) ELSE 0)
                                             + (IF qs[p].state = "kept" THEN Settles(qs[p].alloc, d) ELSE 0)
<1> DEFINE g == [q \in Payments |-> Settles(ps[q].alloc, d)]
           h == [q \in Payments |-> Settles(qs[q].alloc, d)]
           S == Kept(ps)
           T == Kept(qs)
<1>1. g \in [Payments -> Int] /\ h \in [Payments -> Int]
  BY DEF PayRows, Allocs, Settles
<1>2. S \in SUBSET Payments /\ T \in SUBSET Payments
  BY DEF Kept
<1>3. \A q \in Payments \ {p} : g[q] = h[q] /\ (q \in S <=> q \in T)
  BY DEF Kept
<1>4. Allocated(ps, d) = SumFunctionOnSet(g, S) /\ Allocated(qs, d) = SumFunctionOnSet(h, T)
  BY DEF Allocated
<1>5. g[p] = Settles(ps[p].alloc, d) /\ h[p] = Settles(qs[p].alloc, d)
  OBVIOUS
<1>6. (p \in S <=> ps[p].state = "kept") /\ (p \in T <=> qs[p].state = "kept")
  BY DEF Kept
<1> HIDE DEF g, h, S, T
<1>7. SumFunctionOnSet(h, T) = SumFunctionOnSet(g, S) - (IF p \in S THEN g[p] ELSE 0) + (IF p \in T THEN h[p] ELSE 0)
  BY <1>1, <1>2, <1>3, Finite, SumMoves
<1> QED BY <1>4, <1>5, <1>6, <1>7

LEMMA RefundedMoves ==
  ASSUME NEW ps \in [Payments -> PayRows], NEW qs \in [Payments -> PayRows], NEW p \in Payments, NEW x,
         \A q \in Payments \ {p} : qs[q].state = ps[q].state /\ qs[q].amount = ps[q].amount /\ qs[q].of = ps[q].of
  PROVE  RefundedFrom(qs, x) = RefundedFrom(ps, x) - (IF ps[p].state = "kept" /\ ps[p].of = x THEN ps[p].amount ELSE 0)
                                                   + (IF qs[p].state = "kept" /\ qs[p].of = x THEN qs[p].amount ELSE 0)
<1> DEFINE g == [q \in Payments |-> ps[q].amount]
           h == [q \in Payments |-> qs[q].amount]
           S == {r \in Kept(ps) : ps[r].of = x}
           T == {r \in Kept(qs) : qs[r].of = x}
<1>1. g \in [Payments -> Int] /\ h \in [Payments -> Int]
  BY DEF PayRows
<1>2. S \in SUBSET Payments /\ T \in SUBSET Payments
  BY DEF Kept
<1>3. \A q \in Payments \ {p} : g[q] = h[q] /\ (q \in S <=> q \in T)
  BY DEF Kept
<1>4. RefundedFrom(ps, x) = SumFunctionOnSet(g, S) /\ RefundedFrom(qs, x) = SumFunctionOnSet(h, T)
  BY DEF RefundedFrom
<1>5. g[p] = ps[p].amount /\ h[p] = qs[p].amount
  OBVIOUS
<1>6. (p \in S <=> ps[p].state = "kept" /\ ps[p].of = x) /\ (p \in T <=> qs[p].state = "kept" /\ qs[p].of = x)
  BY DEF Kept
<1> HIDE DEF g, h, S, T
<1>7. SumFunctionOnSet(h, T) = SumFunctionOnSet(g, S) - (IF p \in S THEN g[p] ELSE 0) + (IF p \in T THEN h[p] ELSE 0)
  BY <1>1, <1>2, <1>3, Finite, SumMoves
<1> QED BY <1>4, <1>5, <1>6, <1>7

\* What is refunded of a receipt is nothing only if each refund is.
LEMMA NothingRefunded ==
  ASSUME NEW ps \in [Payments -> PayRows], NEW x, RefundedFrom(ps, x) = 0
  PROVE  \A r \in Kept(ps) : ps[r].of = x => ps[r].amount = 0
<1> SUFFICES ASSUME NEW r \in Kept(ps), ps[r].of = x PROVE ps[r].amount = 0
  OBVIOUS
<1> DEFINE g == [q \in Payments |-> ps[q].amount]
           S == {q \in Kept(ps) : ps[q].of = x}
           R == S \ {r}
<1>1. g \in [Payments -> Int] /\ \A q \in Payments : g[q] >= 0
  BY DEF PayRows
<1>2. r \in Payments /\ r \in S /\ S \in SUBSET Payments /\ IsFiniteSet(S) /\ R \in SUBSET Payments /\ IsFiniteSet(R)
  BY Finite, FS_Subset DEF Kept
<1>3. SumFunctionOnSet(g, S) = 0 /\ g[r] = ps[r].amount
  BY <1>2 DEF RefundedFrom
<1> HIDE DEF g, S
<1>4. SumFunctionOnSet(g, S) = g[r] + SumFunctionOnSet(g, S \ {r})
  BY <1>1, <1>2, SumWithout
<1> HIDE DEF R
<1>5. SumFunctionOnSet(g, R) \in Int /\ SumFunctionOnSet(g, R) >= 0
  BY <1>1, <1>2, SumIsInt, SumIsNat
<1>6. g[r] \in Int /\ g[r] >= 0
  BY <1>1, <1>2
<1> QED BY <1>3, <1>4, <1>5, <1>6 DEF R

\* What notes come to when one of them becomes live or ceases to be.
LEMMA AgainstMoves ==
  ASSUME NEW sts \in [Docs -> Statuses], NEW sus \in [Docs -> Statuses], NEW e \in Docs, NEW ns \in SUBSET Notes, NEW d,
         \A n \in Docs \ {e} : sus[n] = sts[n]
  PROVE  Against(sus, ns, d) = Against(sts, ns, d) - (IF e \in ns /\ Source[e] = d /\ Live(sts, e) THEN Total[e] ELSE 0)
                                                   + (IF e \in ns /\ Source[e] = d /\ Live(sus, e) THEN Total[e] ELSE 0)
<1> DEFINE S == {n \in ns : Source[n] = d /\ Live(sts, n)}
           T == {n \in ns : Source[n] = d /\ Live(sus, n)}
<1>1. Total \in [Docs -> Int]
  BY ConstantsAssumption
<1>2. S \in SUBSET Docs /\ T \in SUBSET Docs
  BY Rows_
<1>3. \A n \in Docs \ {e} : Total[n] = Total[n] /\ (n \in S <=> n \in T)
  BY DEF Live
<1>4. Against(sts, ns, d) = SumFunctionOnSet(Total, S) /\ Against(sus, ns, d) = SumFunctionOnSet(Total, T)
  BY DEF Against
<1>5. (e \in S <=> e \in ns /\ Source[e] = d /\ Live(sts, e)) /\ (e \in T <=> e \in ns /\ Source[e] = d /\ Live(sus, e))
  OBVIOUS
<1> HIDE DEF S, T
<1>6. SumFunctionOnSet(Total, T) = SumFunctionOnSet(Total, S) - (IF e \in S THEN Total[e] ELSE 0) + (IF e \in T THEN Total[e] ELSE 0)
  BY <1>1, <1>2, <1>3, Finite, SumMoves
<1> QED BY <1>4, <1>5, <1>6

\* Once issued, a debit note has been charged.
LEMMA ChargedGrows ==
  ASSUME NEW sts \in [Docs -> Statuses], NEW sus \in [Docs -> Statuses], \A n \in Docs : sts[n] # "draft" => sus[n] # "draft", NEW d
  PROVE  Charged(sts, d) \in Nat /\ Charged(sts, d) <= Charged(sus, d) /\ Against(sts, DebitNotes, d) <= Charged(sts, d)
<1> DEFINE S == {n \in DebitNotes : Source[n] = d /\ sts[n] # "draft"}
           T == {n \in DebitNotes : Source[n] = d /\ sus[n] # "draft"}
           L == {n \in DebitNotes : Source[n] = d /\ Live(sts, n)}
<1>1. Total \in [Docs -> Int] /\ \A n \in Docs : Total[n] >= 0
  BY ConstantsAssumption
<1>2. S \in SUBSET Docs /\ T \in SUBSET Docs /\ IsFiniteSet(S) /\ IsFiniteSet(T)
  BY Rows_, Finite, FS_Subset
<1>3. S \in SUBSET T /\ L \in SUBSET S
  BY Rows_ DEF Live
<1>4. Charged(sts, d) = SumFunctionOnSet(Total, S) /\ Charged(sus, d) = SumFunctionOnSet(Total, T)
      /\ Against(sts, DebitNotes, d) = SumFunctionOnSet(Total, L)
  BY DEF Charged, Against
<1> HIDE DEF S, T, L
<1>5. SumFunctionOnSet(Total, S) <= SumFunctionOnSet(Total, T)
  BY <1>1, <1>2, <1>3, SumOfFewer
<1>6. SumFunctionOnSet(Total, L) <= SumFunctionOnSet(Total, S)
  BY <1>1, <1>2, <1>3, SumOfFewer
<1>7. SumFunctionOnSet(Total, S) \in Int /\ SumFunctionOnSet(Total, S) >= 0
  BY <1>1, <1>2, SumIsInt, SumIsNat
<1> QED BY <1>4, <1>5, <1>6, <1>7

LEMMA MaxMin == ASSUME NEW a \in Int, NEW b \in Int
                PROVE  Max({a, b}) = (IF a >= b THEN a ELSE b) /\ Min({a, b}) = (IF a <= b THEN a ELSE b)
  BY DEF Max, Min

\* What is paid of a document, of what is allocated and what credits come to.
LEMMA PaidIs ==
  ASSUME NEW ps \in [Payments -> PayRows], NEW sts \in [Docs -> Statuses], NEW d \in Payables
  PROVE  /\ AmountPaid(ps, sts, d) \in Nat /\ Allocated(ps, d) <= AmountPaid(ps, sts, d)
         /\ Allocated(ps, d) \in Nat
<1> DEFINE a == Allocated(ps, d)
           c == Against(sts, CreditNotes, d)
           t == Total[d]
<1>1. a \in Nat /\ c \in Nat /\ t \in Nat
  BY Rows_, Sums DEF Statuses
<1>2. AmountPaid(ps, sts, d) = Max({a, Min({a + c, t})})
  BY DEF AmountPaid
<1> DEFINE m == Min({a + c, t})
<1> HIDE DEF a, c, t
<1>3. m \in Nat
  BY <1>1, MaxMin
<1> HIDE DEF m
<1>4. Max({a, m}) \in Nat /\ a <= Max({a, m})
  BY <1>1, <1>3, MaxMin
<1> QED BY <1>1, <1>2, <1>4 DEF a, m

LEMMA PaidSame ==
  ASSUME NEW ps, NEW qs, NEW sts, NEW sus, NEW d, Allocated(ps, d) = Allocated(qs, d),
         Against(sts, CreditNotes, d) = Against(sus, CreditNotes, d)
  PROVE  AmountPaid(ps, sts, d) = AmountPaid(qs, sus, d)
  BY DEF AmountPaid

-----------------------------------------------------------------------------
(* What others do to a request that writes *)

\* What is not done to session s and the rows it has locked.
Untouched(s) ==
  at'[s] = at[s] /\ req'[s] = req[s] /\ seen'[s] = seen[s] /\ \A x \in Rows : lock'[x] = s <=> lock[x] = s
LeavesAlone(s) ==
  /\ \A p \in Payments : lock[p] = s => pay'[p] = pay[p] /\ RefundedFrom(pay', p) = RefundedFrom(pay, p)
  /\ \A d \in Docs : lock[d] = s =>
       /\ status'[d] = status[d] /\ Against(status', CreditNotes, d) = Against(status, CreditNotes, d)
       /\ \A n \in Notes : Source[n] = d /\ Live(status', n) => Live(status, n)
  /\ \A d \in Payables : lock[d] = s => paid'[d] = paid[d]
  /\ \A d \in Docs : Charged(status, d) \in Nat /\ Charged(status', d) \in Nat /\ Charged(status, d) <= Charged(status', d)

LEMMA StandsStays ==
  ASSUME TypeOK, NEW s \in Sessions, at[s] = "writing", Minds(s), Holding(s), Stands(s), Untouched(s), LeavesAlone(s)
  PROVE  Holding(s)' /\ Stands(s)'
<1> DEFINE r == req[s]
<1>0. r \in Requests /\ req'[s] = r /\ seen'[s] = seen[s]
  BY DEF Minds, Untouched
<1>a. r.in \in Said /\ (r.op \in Writes => r.p \in Payments /\ r.in.acc \in Accounts)
      /\ (r.op = "remove" => r.p \in Payments) /\ (r.op \in {"finalize", "cancel"} => r.d \in Docs)
  BY <1>0, Asked_
<1>b. r.in.alloc \in Allocs /\ r.in.of \in Payments \cup {Nothing} /\ r.in.amount \in Nat
  BY <1>a DEF Said
<1>c. Rows = Docs \cup Payments \cup Accounts /\ Payables \subseteq Docs /\ \A alloc : DocsOf(alloc) \subseteq Payables
  BY Rows_ DEF Rows, DocsOf
<1>d. \A x \in Rows : lock[x] = s => lock'[x] = s
  BY DEF Untouched
<1>e. \A n \in Notes : Source[n] \in Docs /\ Source[n] \in Payables
  BY Rows_
<1>f. \A p \in Payments : lock[p] = s => pay'[p] = pay[p] /\ pay[p].of \in Payments \cup {Nothing}
  BY Typed DEF LeavesAlone, PayRows
<1>p. r.op \in {"save", "remove"} => lock[r.p] = s /\ r.p \in Payments /\ pay'[r.p] = pay[r.p]
  BY <1>a, <1>f DEF Holding, Writes
<1> HIDE DEF r
<1>1. Holding(s)'
  <2>1. (r.op \in Writes => /\ lock[r.in.acc] = s
                            /\ \A d \in DocsOf(r.in.alloc) : lock[d] = s
                            /\ r.in.of # Nothing => lock[r.in.of] = s)'
    BY <1>0, <1>a, <1>b, <1>c, <1>d DEF Holding, r
  <2>2. (r.op \in {"save", "remove"} => lock[r.p] = s /\ \A d \in DocsOf(pay[r.p].alloc) : lock[d] = s)'
    BY <1>0, <1>c, <1>d, <1>p DEF Holding, r
  <2>3. (r.op = "remove" /\ pay[r.p].of # Nothing => lock[pay[r.p].of] = s)'
    BY <1>0, <1>c, <1>d, <1>f, <1>p DEF Holding, r
  <2>4. (/\ r.op \in {"finalize", "cancel"} => lock[r.d] = s
         /\ r.op \in {"finalize", "cancel"} /\ r.d \in CreditNotes => lock[Source[r.d]] = s
         /\ r.op = "finalize" /\ r.d \in Notes => lock[Source[r.d]] = s)'
    BY <1>0, <1>a, <1>c, <1>d, <1>e, Rows_ DEF Holding, r
  <2> QED BY <1>0, <2>1, <2>2, <2>3, <2>4 DEF Holding, r
<1>2. CASE r.op \in Writes
  <2>1. WriteStands(s) /\ req[s] = r
    BY <1>2 DEF Stands, r
  <2>2. \A d \in DocsOf(r.in.alloc) : d \in Payables /\ d \in Docs /\ lock[d] = s
    BY <1>2, <1>c DEF Holding, r
  <2>3. \A d \in DocsOf(r.in.alloc) : status'[d] = status[d] /\ paid'[d] = paid[d]
    BY <2>2 DEF LeavesAlone
  <2>4. r.in.of # Nothing => r.in.of \in Payments /\ pay'[r.in.of] = pay[r.in.of]
    BY <1>2, <1>b, <1>f DEF Holding, r
  <2>5. r.op = "save" => pay'[r.p] = pay[r.p] /\ RefundedFrom(pay', r.p) = RefundedFrom(pay, r.p)
    BY <1>p DEF LeavesAlone
  <2>6. \A d \in DocsOf(r.in.alloc) : Owed(r, d)' = Owed(r, d)
    BY <1>0, <2>3, <2>5 DEF Owed, r
  <2>7. RefundedOf(r)' = RefundedOf(r) /\ OldAmount(r)' = OldAmount(r)
    BY <1>0, <2>5 DEF RefundedOf, OldAmount, r
  <2>8. RefundFits(r)'
    BY <1>0, <2>1, <2>4, <2>7 DEF WriteStands, RefundFits, r
  <2>9. LeftOf(r.in.of)' = LeftOf(r.in.of)
    BY <1>0, <2>4 DEF LeftOf, r
  <2>10. WriteStands(s)'
    <3>1. \A d \in DocsOf(r.in.alloc) : status'[d] = "issued" /\ r.in.dir = "received" /\ Settles(r.in.alloc, d) <= Owed(r, d)'
      BY <2>1, <2>3, <2>6 DEF WriteStands
    <3>2. r.op = "save" => pay'[r.p].state = "kept" /\ pay'[r.p].of = r.in.of
      BY <2>1, <2>5 DEF WriteStands
    <3>3. Cash(r.in.alloc) + RefundedOf(r)' <= r.in.amount
      BY <2>1, <2>7 DEF WriteStands
    <3>4. seen'[s] = [left |-> LeftOf(r.in.of)', refunded |-> RefundedOf(r)']
      BY <1>0, <2>1, <2>7, <2>9 DEF WriteStands
    <3>5. r.in.amount > 0 \/ \E d \in Payables : r.in.alloc[d].adj > 0
      BY <2>1 DEF WriteStands
    <3>6. req'[s] = req[s]
      BY <1>0 DEF r
    <3> QED BY <1>0, <3>1, <3>2, <3>3, <3>4, <3>5, <3>6, <2>8 DEF WriteStands, r
  <2> QED BY <1>0, <1>1, <1>2, <2>10 DEF Stands, Writes, r
<1>3. CASE r.op = "remove"
  <2>1. RemoveStands(s) /\ req[s] = r
    BY <1>3 DEF Stands, r
  <2>2. pay'[r.p] = pay[r.p] /\ RefundedFrom(pay', r.p) = RefundedFrom(pay, r.p)
    BY <1>3, <1>p DEF LeavesAlone
  <2>3. pay[r.p].of # Nothing => pay[r.p].of \in Payments /\ pay'[pay[r.p].of] = pay[pay[r.p].of]
    BY <1>3, <1>p, <1>f DEF Holding, r
  <2>4. RemoveStands(s)'
    BY <1>0, <2>1, <2>2, <2>3 DEF RemoveStands, RemoveFits, LeftOf, r
  <2> QED BY <1>0, <1>1, <1>3, <2>4 DEF Stands, Writes, r
<1>4. CASE r.op = "finalize"
  <2>1. FinalizeStands(s) /\ req[s] = r /\ r.d \in Docs /\ lock[r.d] = s /\ (r.d \in Notes => lock[Source[r.d]] = s)
    BY <1>4, <1>a DEF Stands, Holding, r
  <2>2. status'[r.d] = status[r.d]
    BY <2>1 DEF LeavesAlone
  <2>3. r.d \in Notes => /\ status'[Source[r.d]] = status[Source[r.d]]
                         /\ Against(status', CreditNotes, Source[r.d]) = Against(status, CreditNotes, Source[r.d])
                         /\ Charged(status, Source[r.d]) \in Nat /\ Charged(status', Source[r.d]) \in Nat
                         /\ Charged(status, Source[r.d]) <= Charged(status', Source[r.d])
                         /\ Against(status, CreditNotes, Source[r.d]) \in Nat
    BY <1>e, <2>1, Sums, Typed, Rows_ DEF LeavesAlone, Statuses
  <2>4. Total[r.d] \in Nat /\ \A n \in Notes : Total[Source[n]] \in Nat
    BY <1>e, <2>1, Rows_
  <2>5. r.d \in CreditNotes =>
          Total[r.d] + Against(status', CreditNotes, Source[r.d]) <= Total[Source[r.d]] + Charged(status', Source[r.d])
    BY <2>1, <2>3, <2>4, Rows_ DEF FinalizeStands
  <2>6. FinalizeStands(s)'
    BY <1>0, <2>1, <2>2, <2>3, <2>5 DEF FinalizeStands, r
  <2> QED BY <1>0, <1>1, <1>4, <2>6 DEF Stands, Writes, r
<1>5. CASE r.op = "cancel"
  <2>1. CancelFits(r.d) /\ req[s] = r /\ r.d \in Docs /\ lock[r.d] = s
    BY <1>5, <1>a DEF Stands, Holding, r
  <2>2. status'[r.d] = status[r.d] /\ (r.d \in Payables => paid'[r.d] = paid[r.d])
        /\ \A n \in Notes : Source[n] = r.d /\ Live(status', n) => Live(status, n)
    BY <2>1 DEF LeavesAlone
  <2>3. CancelFits(r.d)'
    BY <1>0, <2>1, <2>2 DEF CancelFits, r
  <2> QED BY <1>0, <1>1, <1>5, <2>3 DEF Stands, Writes, r
<1> QED BY <1>0, <1>1, <1>2, <1>3, <1>4, <1>5, Asked_ DEF Stands, Writes

-----------------------------------------------------------------------------
(* What the steps write *)

\* A step put before a path of three.
LEMMA Prepended == ASSUME NEW a, NEW b, NEW c, NEW d PROVE <<a>> \o <<b, c, d>> = <<a, b, c, d>>
<1> DEFINE X == {a, b, c, d}
           z == <<a>> \o <<b, c, d>>
           w == <<a, b, c, d>>
<1>1. <<a>> \in Seq(X) /\ <<b, c, d>> \in Seq(X) /\ w \in Seq(X)
  OBVIOUS
<1>2. Len(<<a>>) = 1 /\ Len(<<b, c, d>>) = 3 /\ Len(w) = 4
  OBVIOUS
<1>3. z \in Seq(X) /\ Len(z) = 4 /\ \A i \in 1 .. 4 : z[i] = w[i]
  BY <1>1, <1>2, ConcatProperties
<1> HIDE DEF z, w, X
<1>4. z = w
  BY <1>1, <1>2, <1>3, SeqEqual
<1> QED BY <1>4 DEF z, w

LEMMA PathIs ==
  ASSUME NEW r \in Requests
  PROVE  /\ r.op \in {"create", "refund"} => Path(r) = <<{r.in.acc}, DocsOf(r.in.alloc), Receipt(r.in.of)>>
         /\ r.op = "save" /\ pay[r.p].state = "kept" =>
              Path(r) = <<{r.p}, {r.in.acc}, DocsOf(pay[r.p].alloc) \cup DocsOf(r.in.alloc), Receipt(r.in.of)>>
         /\ r.op = "save" /\ pay[r.p].state # "kept" => Path(r) = <<{r.p}>>
         /\ r.op = "remove" => Path(r) = <<{r.p}, Receipt(pay[r.p].of), DocsOf(pay[r.p].alloc)>>
         /\ r.op = "finalize" => Path(r) = <<{r.d}, SourceOfNote(r.d, Notes)>>
         /\ r.op = "cancel" => Path(r) = <<{r.d}, SourceOfNote(r.d, CreditNotes)>>
<1>1. r.op \in {"create", "refund"} => Path(r) = <<{r.in.acc}, DocsOf(r.in.alloc), Receipt(r.in.of)>>
  BY DEF Path, WritePath, Before
<1>2. r.op = "save" /\ pay[r.p].state = "kept" =>
        Path(r) = <<{r.p}, {r.in.acc}, DocsOf(pay[r.p].alloc) \cup DocsOf(r.in.alloc), Receipt(r.in.of)>>
  BY Prepended DEF Path, WritePath, Before
<1>3. r.op = "save" /\ pay[r.p].state # "kept" => Path(r) = <<{r.p}>>
  BY DEF Path
<1>4. r.op = "remove" => Path(r) = <<{r.p}, Receipt(pay[r.p].of), DocsOf(pay[r.p].alloc)>>
  BY DEF Path, Before
<1>5. r.op = "finalize" => Path(r) = <<{r.d}, SourceOfNote(r.d, Notes)>>
  BY DEF Path
<1>6. r.op = "cancel" => Path(r) = <<{r.d}, SourceOfNote(r.d, CreditNotes)>>
  BY Asked_ DEF Path
<1> QED BY <1>1, <1>2, <1>3, <1>4, <1>5, <1>6

\* The steps of a path of one to four.
LEMMA PathSteps ==
  /\ \A a : DOMAIN <<a>> = {1} /\ <<a>>[1] = a
  /\ \A a, b : DOMAIN <<a, b>> = {1, 2} /\ <<a, b>>[1] = a /\ <<a, b>>[2] = b
  /\ \A a, b, c : DOMAIN <<a, b, c>> = {1, 2, 3} /\ <<a, b, c>>[1] = a /\ <<a, b, c>>[2] = b /\ <<a, b, c>>[3] = c
  /\ \A a, b, c, d : DOMAIN <<a, b, c, d>> = {1, 2, 3, 4} /\ <<a, b, c, d>>[1] = a /\ <<a, b, c, d>>[2] = b
                     /\ <<a, b, c, d>>[3] = c /\ <<a, b, c, d>>[4] = d
  OBVIOUS

LEMMA LockedHolds ==
  ASSUME TypeOK, NEW s \in Sessions, req[s] \in Requests, HasLocked(s), Fits(req[s])
  PROVE  Holding(s)
<1> DEFINE r == req[s]
<1>0. r \in Requests /\ \A i \in DOMAIN Path(r) : \A x \in Path(r)[i] : lock[x] = s
  BY DEF HasLocked, Missing
<1>a. r.op = "save" => pay[r.p].state = "kept"
  BY <1>0, Asked_ DEF Fits, WriteFits
<1>b. r.in \in Said
  BY <1>0, Asked_
<1> HIDE DEF r
<1>1. CASE r.op \in {"create", "refund"}
  <2>1. lock[r.in.acc] = s /\ (\A d \in DocsOf(r.in.alloc) : lock[d] = s) /\ (\A x \in Receipt(r.in.of) : lock[x] = s)
    BY <1>0, <1>1, PathIs, PathSteps
  <2> QED BY <1>1, <2>1 DEF Holding, Writes, Receipt, r
<1>2. CASE r.op = "save"
  <2>1. lock[r.p] = s /\ lock[r.in.acc] = s /\ (\A x \in Receipt(r.in.of) : lock[x] = s)
        /\ \A d \in DocsOf(pay[r.p].alloc) \cup DocsOf(r.in.alloc) : lock[d] = s
    BY <1>0, <1>a, <1>2, PathIs, PathSteps
  <2> QED BY <1>2, <2>1 DEF Holding, Writes, Receipt, r
<1>3. CASE r.op = "remove"
  <2>1. lock[r.p] = s /\ (\A x \in Receipt(pay[r.p].of) : lock[x] = s) /\ \A d \in DocsOf(pay[r.p].alloc) : lock[d] = s
    BY <1>0, <1>3, PathIs, PathSteps
  <2> QED BY <1>3, <2>1 DEF Holding, Writes, Receipt, r
<1>4. CASE r.op = "finalize"
  <2>1. lock[r.d] = s /\ (\A x \in SourceOfNote(r.d, Notes) : lock[x] = s)
    BY <1>0, <1>4, PathIs, PathSteps
  <2> QED BY <1>4, <2>1, Rows_ DEF Holding, Writes, SourceOfNote, r
<1>5. CASE r.op = "cancel"
  <2>1. lock[r.d] = s /\ (\A x \in SourceOfNote(r.d, CreditNotes) : lock[x] = s)
    BY <1>0, <1>5, PathIs, PathSteps
  <2> QED BY <1>5, <2>1 DEF Holding, Writes, SourceOfNote, r
<1> QED BY <1>0, <1>1, <1>2, <1>3, <1>4, <1>5, Asked_

LEMMA DecidedStands ==
  ASSUME TypeOK, NEW s \in Sessions, req[s] \in Requests, Decide(s)
  PROVE  Stands(s)' /\ Holding(s)'
<1> DEFINE r == req[s]
<1>0. r \in Requests /\ Fits(r) /\ HasLocked(s) /\ status' = status /\ paid' = paid /\ pay' = pay /\ lock' = lock /\ req' = req
      /\ seen'[s] = [left |-> LeftOf(ReceiptOf(r)), refunded |-> RefundedOf(r)]
  BY DEF Decide, Locked, TypeOK
<1>1. Holding(s)'
  BY <1>0, LockedHolds DEF Holding, DocsOf, Settles
<1>2. CASE r.op \in Writes
  <2>1. WriteFits(r) /\ ReceiptOf(r) = r.in.of
    BY <1>0, <1>2 DEF Fits, ReceiptOf, Writes
  <2>2. WriteStands(s)'
    BY <1>0, <2>1 DEF WriteFits, WriteStands, RefundFits, RefundedOf, OldAmount, Owed, LeftOf
  <2> QED BY <1>0, <1>1, <1>2, <2>2 DEF Stands, Writes
<1>3. CASE r.op = "remove"
  <2>1. RemoveFits(r) /\ ReceiptOf(r) = pay[r.p].of
    BY <1>0, <1>3 DEF Fits, ReceiptOf
  <2>2. RemoveStands(s)'
    BY <1>0, <2>1 DEF RemoveStands, RemoveFits, LeftOf
  <2> QED BY <1>0, <1>1, <1>3, <2>2 DEF Stands, Writes
<1>4. CASE r.op = "finalize"
  <2>1. FinalizeFits(r.d) /\ r.d \in Docs
    BY <1>0, <1>4, Asked_ DEF Fits
  <2>2. r.d \in CreditNotes =>
          /\ Against(status, CreditNotes, Source[r.d]) \in Nat /\ Against(status, DebitNotes, Source[r.d]) \in Nat
          /\ Charged(status, Source[r.d]) \in Nat /\ Against(status, DebitNotes, Source[r.d]) <= Charged(status, Source[r.d])
          /\ Total[r.d] \in Nat /\ Total[Source[r.d]] \in Nat
    BY <2>1, Rows_, Typed, Sums, ChargedGrows DEF Statuses
  <2>3. r.d \in CreditNotes => Total[r.d] + Against(status, CreditNotes, Source[r.d]) <= Total[Source[r.d]] + Charged(status, Source[r.d])
    BY <2>1, <2>2 DEF FinalizeFits, Room
  <2>4. FinalizeStands(s)'
    BY <1>0, <2>1, <2>3 DEF FinalizeStands, FinalizeFits, Charged
  <2> QED BY <1>0, <1>1, <1>4, <2>4 DEF Stands, Writes
<1>5. CASE r.op = "cancel"
  <2>1. CancelFits(r.d)
    BY <1>0, <1>5 DEF Fits
  <2>2. CancelFits(r.d)'
    BY <1>0, <2>1 DEF CancelFits
  <2> QED BY <1>0, <1>1, <1>5, <2>2 DEF Stands, Writes
<1> QED BY <1>0, <1>1, <1>2, <1>3, <1>4, <1>5, Asked_ DEF Writes

\* What writing a payment does to the rows.
Wrote(s) ==
  LET r == req[s] IN
  /\ r \in Requests /\ r.op \in Writes /\ r.p \in Payments /\ status' = status
  /\ pay' \in [Payments -> PayRows]
  /\ pay'[r.p].state = "kept" /\ pay'[r.p].dir = r.in.dir /\ pay'[r.p].amount = r.in.amount
  /\ pay'[r.p].alloc = r.in.alloc /\ pay'[r.p].of = r.in.of
  /\ r.in.of = Nothing => pay'[r.p].left = r.in.amount - Cash(r.in.alloc) - RefundedOf(r)
  /\ r.in.of # Nothing => /\ r.in.of \in Payments /\ r.in.of # r.p /\ pay[r.in.of].state = "kept"
                          /\ pay[r.in.of].dir = "received" /\ pay[r.in.of].of = Nothing
                          /\ pay'[r.in.of] = [pay[r.in.of] EXCEPT !.left = pay[r.in.of].left - (r.in.amount - OldAmount(r))]
  /\ \A q \in Payments \ {r.p} :
       /\ q # r.in.of => pay'[q] = pay[q]
       /\ pay'[q].state = pay[q].state /\ pay'[q].dir = pay[q].dir /\ pay'[q].amount = pay[q].amount
       /\ pay'[q].alloc = pay[q].alloc /\ pay'[q].of = pay[q].of

LEMMA Written ==
  ASSUME TypeOK, RowsAreSound, NEW s \in Sessions, Minds(s), Stands(s), WritePayment(s)
  PROVE  Wrote(s)
<1> DEFINE r == req[s]
<1> DEFINE row == [state |-> "kept", dir |-> r.in.dir, amount |-> r.in.amount, alloc |-> r.in.alloc, of |-> r.in.of, acc |-> r.in.acc,
                   left |-> IF r.in.of # Nothing THEN 0 ELSE r.in.amount - Cash(r.in.alloc) - seen[s].refunded]
           ps == [pay EXCEPT ![r.p] = row]
           new == seen[s].left - (r.in.amount - OldAmount(r))
<1>0. r \in Requests /\ r.op \in Writes
  BY DEF WritePayment, Doing, Minds, Writes
<1>a. r.in \in Said /\ r.p \in Payments /\ r.in.acc \in Accounts /\ r.op \in Writes /\ (r.op = "create" => r.in.of = Nothing)
  BY <1>0, Asked_ DEF Writes
<1>b. r.in.alloc \in Allocs /\ r.in.of \in Payments \cup {Nothing} /\ r.in.amount \in Nat /\ r.in.dir \in Directions
  BY <1>a DEF Said
<1>c. WriteStands(s) /\ RefundFits(r)
  BY <1>0 DEF Stands, WriteStands
<1>d. pay \in [Payments -> PayRows]
  BY Typed
<1>e. Cash(r.in.alloc) \in Nat /\ RefundedOf(r) \in Nat /\ OldAmount(r) \in Nat
  <2>1. Cash(r.in.alloc) \in Nat /\ RefundedFrom(pay, r.p) \in Nat
    BY <1>a, <1>b, <1>d, Typed, Sums DEF Statuses
  <2>2. pay[r.p].amount \in Nat
    BY <1>a, <1>d DEF PayRows
  <2> QED BY <2>1, <2>2 DEF RefundedOf, OldAmount
<1>f. seen[s].refunded = RefundedOf(r) /\ seen[s].left = LeftOf(r.in.of)
  BY <1>c DEF WriteStands
<1>1. r.in.of # Nothing => /\ r.in.of \in Payments /\ pay[r.in.of].state = "kept" /\ pay[r.in.of].dir = "received"
                           /\ r.in.amount <= pay[r.in.of].left + OldAmount(r) /\ r.in.dir = "paid"
  BY <1>b, <1>c DEF RefundFits
<1>2. r.in.of # Nothing => pay[r.in.of].of = Nothing
  BY <1>1 DEF RowsAreSound
<1>3. r.in.of # Nothing => r.in.of # r.p
  <2>1. CASE r.op = "save"
    <3>1. pay[r.p].of = r.in.of
      BY <2>1, <1>c DEF WriteStands
    <3> QED BY <3>1, <1>2
  <2>2. CASE r.op = "refund"
    <3>1. pay[r.p] = Unborn /\ (r.in.of # Nothing => Known(r.in.of))
      BY <2>2 DEF Minds
    <3> QED BY <3>1 DEF Known
  <2> QED BY <1>a, <2>1, <2>2 DEF Writes
<1>4. row \in PayRows
  <2>1. (IF r.in.of # Nothing THEN 0 ELSE r.in.amount - Cash(r.in.alloc) - seen[s].refunded) \in Nat
    <3>1. Cash(r.in.alloc) + RefundedOf(r) <= r.in.amount
      BY <1>c DEF WriteStands
    <3> QED BY <3>1, <1>b, <1>e, <1>f
  <2> QED BY <2>1, <1>a, <1>b DEF PayRows, States, Said
<1>5. ps \in [Payments -> PayRows] /\ ps[r.p] = row /\ \A q \in Payments \ {r.p} : ps[q] = pay[q]
  BY <1>4, <1>a, <1>d
<1>6. pay' = MoveRefund(ps, s, r.in.amount - OldAmount(r)) /\ status' = status
  BY DEF WritePayment
<1>7. ReceiptOf(r) = r.in.of
  BY <1>0 DEF ReceiptOf, Writes
<1>8. row.state = "kept" /\ row.dir = r.in.dir /\ row.amount = r.in.amount /\ row.alloc = r.in.alloc /\ row.of = r.in.of
      /\ (r.in.of = Nothing => row.left = r.in.amount - Cash(r.in.alloc) - RefundedOf(r))
  BY <1>f
<1> HIDE DEF row, ps
<1>9. CASE r.in.of = Nothing
  <2>1. pay' = ps
    BY <1>6, <1>7, <1>9 DEF MoveRefund
  <2> QED BY <2>1, <1>0, <1>a, <1>5, <1>6, <1>8, <1>9 DEF Wrote
<1>10. CASE r.in.of # Nothing
  <2>1. ps[r.in.of] = pay[r.in.of]
    BY <1>1, <1>3, <1>5, <1>10
  <2>2. pay' = [ps EXCEPT ![r.in.of].left = new]
    BY <1>1, <1>6, <1>7, <1>10, <2>1 DEF MoveRefund
  <2>3. LeftOf(r.in.of) = pay[r.in.of].left /\ pay[r.in.of].left \in Nat
    BY <1>1, <1>10, <1>d DEF LeftOf, PayRows
  <2>4. new \in Nat /\ new = pay[r.in.of].left - (r.in.amount - OldAmount(r))
    BY <1>b, <1>e, <1>f, <1>1, <1>10, <2>3
  <2> HIDE DEF new
  <2> DEFINE moved == [pay[r.in.of] EXCEPT !.left = new]
  <2>5. moved \in PayRows /\ moved.state = pay[r.in.of].state /\ moved.dir = pay[r.in.of].dir /\ moved.amount = pay[r.in.of].amount
        /\ moved.alloc = pay[r.in.of].alloc /\ moved.of = pay[r.in.of].of
    BY <1>d, <1>1, <1>10, <2>4 DEF PayRows
  <2>6. pay' = [ps EXCEPT ![r.in.of] = moved]
    BY <2>1, <2>2
  <2>8. moved = [pay[r.in.of] EXCEPT !.left = pay[r.in.of].left - (r.in.amount - OldAmount(r))]
    BY <2>4
  <2> HIDE DEF moved
  <2>7. pay' \in [Payments -> PayRows] /\ pay'[r.in.of] = moved /\ pay'[r.p] = row
        /\ \A q \in Payments \ {r.p} : q # r.in.of => pay'[q] = pay[q]
    BY <1>a, <1>1, <1>3, <1>5, <1>10, <2>5, <2>6
  <2>9. \A q \in Payments \ {r.p} :
              /\ pay'[q].state = pay[q].state /\ pay'[q].dir = pay[q].dir /\ pay'[q].amount = pay[q].amount
              /\ pay'[q].alloc = pay[q].alloc /\ pay'[q].of = pay[q].of
    BY <2>5, <2>7
  <2> QED BY <1>0, <1>a, <1>1, <1>2, <1>3, <1>6, <1>8, <1>10, <2>7, <2>8, <2>9 DEF Wrote
<1> QED BY <1>9, <1>10

\* What taking one off does.
TookOff(s) ==
  LET r == req[s]
      of == pay[r.p].of
  IN
  /\ r \in Requests /\ r.op = "remove" /\ r.p \in Payments /\ status' = status
  /\ pay' \in [Payments -> PayRows]
  /\ pay[r.p].state = "kept" /\ pay'[r.p] = [pay[r.p] EXCEPT !.state = "gone"]
  /\ of # Nothing => of \in Payments /\ of # r.p /\ pay[of].of = Nothing
  /\ of # Nothing /\ pay[of].state = "kept" => pay'[of] = [pay[of] EXCEPT !.left = pay[of].left + pay[r.p].amount]
  /\ \A q \in Payments \ {r.p} :
       /\ q # of \/ pay[q].state # "kept" => pay'[q] = pay[q]
       /\ pay'[q].state = pay[q].state /\ pay'[q].dir = pay[q].dir /\ pay'[q].amount = pay[q].amount
       /\ pay'[q].alloc = pay[q].alloc /\ pay'[q].of = pay[q].of

LEMMA Deleted ==
  ASSUME TypeOK, RowsAreSound, NEW s \in Sessions, Minds(s), Stands(s), DeletePayment(s)
  PROVE  TookOff(s)
<1> DEFINE r == req[s]
           of == pay[r.p].of
<1> DEFINE row == [pay[r.p] EXCEPT !.state = "gone"]
           ps == [pay EXCEPT ![r.p] = row]
           new == seen[s].left - -pay[r.p].amount
<1>0. r \in Requests /\ r.op = "remove"
  BY DEF DeletePayment, Doing, Minds
<1>a. r.p \in Payments
  BY <1>0, Asked_
<1>d. pay \in [Payments -> PayRows]
  BY Typed
<1>b. of \in Payments \cup {Nothing} /\ pay[r.p].amount \in Nat
  BY <1>a, <1>d DEF PayRows
<1>c. pay[r.p].state = "kept" /\ seen[s].left = LeftOf(of)
  BY <1>0 DEF Stands, RemoveStands, RemoveFits
<1>1. of # Nothing => of \in Payments /\ pay[of].of = Nothing /\ of # r.p
  BY <1>a, <1>b DEF RowsAreSound
<1>4. row \in PayRows
  BY <1>a, <1>d DEF PayRows, States
<1>5. ps \in [Payments -> PayRows] /\ ps[r.p] = row /\ \A q \in Payments \ {r.p} : ps[q] = pay[q]
  BY <1>4, <1>a, <1>d
<1>6. pay' = MoveRefund([pay EXCEPT ![r.p].state = "gone"], s, -pay[r.p].amount) /\ status' = status
  BY DEF DeletePayment
<1>7. ReceiptOf(r) = of /\ [pay EXCEPT ![r.p].state = "gone"] = ps
  BY <1>0 DEF ReceiptOf
<1> HIDE DEF ps
<1>9. CASE of = Nothing \/ pay[of].state # "kept"
  <2>0. of = Nothing \/ ps[of].state # "kept"
    BY <1>1, <1>5, <1>9
  <2>1. pay' = ps
    BY <1>6, <1>7, <2>0 DEF MoveRefund
  <2> QED BY <2>1, <1>0, <1>a, <1>c, <1>1, <1>5, <1>6, <1>9 DEF TookOff
<1>10. CASE of # Nothing /\ pay[of].state = "kept"
  <2>1. ps[of] = pay[of]
    BY <1>1, <1>5, <1>10
  <2>2. pay' = [ps EXCEPT ![of].left = new]
    BY <1>1, <1>6, <1>7, <1>10, <2>1 DEF MoveRefund
  <2>3. LeftOf(of) = pay[of].left /\ pay[of].left \in Nat
    BY <1>1, <1>10, <1>d DEF LeftOf, PayRows
  <2>4. new \in Nat /\ new = pay[of].left + pay[r.p].amount
    BY <1>b, <1>c, <1>1, <1>10, <2>3
  <2> HIDE DEF new
  <2> DEFINE moved == [pay[of] EXCEPT !.left = new]
  <2>5. moved \in PayRows /\ moved.state = pay[of].state /\ moved.dir = pay[of].dir /\ moved.amount = pay[of].amount
        /\ moved.alloc = pay[of].alloc /\ moved.of = pay[of].of
    BY <1>d, <1>1, <1>10, <2>4 DEF PayRows
  <2>6. pay' = [ps EXCEPT ![of] = moved]
    BY <2>1, <2>2
  <2>8. moved = [pay[of] EXCEPT !.left = pay[of].left + pay[r.p].amount]
    BY <2>4
  <2> HIDE DEF moved, row
  <2>7. pay' \in [Payments -> PayRows] /\ pay'[of] = moved /\ pay'[r.p] = row
        /\ \A q \in Payments \ {r.p} : q # of => pay'[q] = pay[q]
    BY <1>a, <1>1, <1>5, <1>10, <2>5, <2>6
  <2>9. \A q \in Payments \ {r.p} :
              /\ pay'[q].state = pay[q].state /\ pay'[q].dir = pay[q].dir /\ pay'[q].amount = pay[q].amount
              /\ pay'[q].alloc = pay[q].alloc /\ pay'[q].of = pay[q].of
    BY <2>5, <2>7
  <2> QED BY <1>0, <1>a, <1>c, <1>1, <1>6, <1>10, <2>7, <2>8, <2>9 DEF row, TookOff
<1> QED BY <1>9, <1>10

LEMMA Settled_ ==
  ASSUME TypeOK, NEW s \in Sessions, Minds(s), Stands(s), FinalizeDocument(s) \/ CancelDocument(s), NEW d, d = req[s].d
  PROVE  /\ d \in Docs /\ pay' = pay /\ req[s].op \in {"finalize", "cancel"} /\ req[s] \in Requests
         /\ status' \in [Docs -> Statuses] /\ \A e \in Docs \ {d} : status'[e] = status[e]
         /\ req[s].op = "finalize" => FinalizeDocument(s) /\ status[d] = "draft" /\ status'[d] = "issued" /\ FinalizeStands(s)
         /\ req[s].op = "cancel" => CancelDocument(s) /\ status[d] # "cancelled" /\ status'[d] = "cancelled" /\ CancelFits(d)
         /\ paid' = [e \in Payables |-> IF e \in SourceOfNote(d, CreditNotes) THEN AmountPaid(pay', status', e) ELSE paid[e]]
<1>1. req[s].op \in {"finalize", "cancel"} /\ req[s] \in Requests /\ d \in Docs
  BY Asked_ DEF FinalizeDocument, CancelDocument, Doing, Minds
<1>2. status \in [Docs -> Statuses]
  BY Typed
<1>3. CASE FinalizeDocument(s)
  <2>1. req[s].op = "finalize" /\ pay' = pay /\ status' = [status EXCEPT ![d] = "issued"]
        /\ paid' = [e \in Payables |-> IF e \in SourceOfNote(d, CreditNotes) THEN AmountPaid(pay', status', e) ELSE paid[e]]
    BY <1>3 DEF FinalizeDocument, Doing, SyncPaymentState
  <2>2. FinalizeStands(s) /\ status[d] = "draft"
    BY <2>1 DEF Stands, FinalizeStands
  <2> QED BY <1>1, <1>2, <1>3, <2>1, <2>2 DEF Statuses
<1>4. CASE CancelDocument(s)
  <2>1. req[s].op = "cancel" /\ pay' = pay /\ status' = [status EXCEPT ![d] = "cancelled"]
        /\ paid' = [e \in Payables |-> IF e \in SourceOfNote(d, CreditNotes) THEN AmountPaid(pay', status', e) ELSE paid[e]]
    BY <1>4 DEF CancelDocument, Doing, SyncPaymentState
  <2>2. CancelFits(d) /\ status[d] # "cancelled"
    BY <2>1 DEF Stands, CancelFits
  <2> QED BY <1>1, <1>2, <1>4, <2>1, <2>2 DEF Statuses
<1> QED BY <1>3, <1>4

LEMMA Ends ==
  ASSUME TypeOK, NEW s \in Sessions, End(s)
  PROVE  /\ \A u \in Sessions \ {s} : Untouched(u)
         /\ at' \in [Sessions -> {"idle", "locking", "writing"}] /\ lock' \in [Rows -> Sessions \cup {Nothing}]
         /\ req' \in [Sessions -> Requests \cup {NoRequest}] /\ seen' \in [Sessions -> [left : Nat, refunded : Nat]]
         /\ made' \in 0 .. MaxRequests
         /\ at'[s] = "idle" /\ req'[s] = NoRequest /\ \A x \in Rows : lock'[x] # s /\ (lock'[x] # Nothing => lock'[x] = lock[x])
<1>1. at' = [at EXCEPT ![s] = "idle"] /\ req' = [req EXCEPT ![s] = NoRequest] /\ lock' = [r \in Rows |-> IF lock[r] = s THEN Nothing ELSE lock[r]]
      /\ seen' = [seen EXCEPT ![s] = [left |-> 0, refunded |-> 0]] /\ made' = made
  BY DEF End
<1>2. at \in [Sessions -> {"idle", "locking", "writing"}] /\ req \in [Sessions -> Requests \cup {NoRequest}]
      /\ seen \in [Sessions -> [left : Nat, refunded : Nat]] /\ lock \in [Rows -> Sessions \cup {Nothing}] /\ made \in 0 .. MaxRequests
  BY DEF TypeOK
<1>3. Nothing \notin Sessions
  BY Rows_
<1>4. \A u \in Sessions \ {s} : Untouched(u)
  BY <1>1, <1>2, <1>3 DEF Untouched
<1>5. seen' \in [Sessions -> [left : Nat, refunded : Nat]]
  BY <1>1, <1>2
<1>6. lock' \in [Rows -> Sessions \cup {Nothing}] /\ \A x \in Rows : lock'[x] # s /\ (lock'[x] # Nothing => lock'[x] = lock[x])
  BY <1>1, <1>2, <1>3
<1> QED BY <1>1, <1>2, <1>4, <1>5, <1>6

\* A payment that is written, changed or taken off leaves the others' requests alone.
LEMMA PaymentsLeaveAlone ==
  ASSUME IInv, NEW s \in Sessions, at[s] = "writing", WritePayment(s) \/ DeletePayment(s), NEW u \in Sessions \ {s}
  PROVE  LeavesAlone(u)
<1> DEFINE r == req[s]
<1>0. TypeOK /\ RowsAreSound /\ Minds(s) /\ Minds(u) /\ Holding(s) /\ Stands(s)
  BY DEF IInv, WorkIsSound
<1>w. WritePayment(s) => Wrote(s)
  BY <1>0, Written
<1>t. DeletePayment(s) => TookOff(s)
  BY <1>0, Deleted
<1>1. r \in Requests /\ r.p \in Payments /\ status' = status /\ pay' \in [Payments -> PayRows] /\ r.op \in Writes \cup {"remove"}
  BY <1>w, <1>t DEF Wrote, TookOff
<1>2. pay \in [Payments -> PayRows] /\ status \in [Docs -> Statuses]
  BY <1>0, Typed
<1>3. \A q \in Payments \ {r.p} : pay'[q].state = pay[q].state /\ pay'[q].amount = pay[q].amount /\ pay'[q].of = pay[q].of
  BY <1>w, <1>t DEF Wrote, TookOff
<1>4. lock[r.p] # u
  <2>1. CASE r.op \in {"create", "refund"}
    <3>1. pay[r.p] = Unborn
      BY <1>0, <2>1 DEF Minds
    <3>2. lock[r.p] = Nothing
      BY <1>0, <1>1, <3>1 DEF RowsAreSound, Known
    <3> QED BY <3>2, Rows_
  <2>2. CASE r.op \in {"save", "remove"}
    BY <1>0, <2>2 DEF Holding
  <2> QED BY <1>1, <2>1, <2>2 DEF Writes
<1>5. \A q \in Payments : lock[q] = u => pay'[q] = pay[q]
  <2>1. CASE WritePayment(s)
    <3>1. r.in.of # Nothing => lock[r.in.of] = s
      BY <1>0, <1>w, <2>1 DEF Wrote, Holding
    <3> QED BY <1>w, <1>4, <2>1, <3>1, Rows_ DEF Wrote
  <2>2. CASE DeletePayment(s)
    <3>1. pay[r.p].of # Nothing => lock[pay[r.p].of] = s
      BY <1>0, <1>t, <2>2 DEF TookOff, Holding
    <3> QED BY <1>t, <1>4, <2>2, <3>1, Rows_ DEF TookOff
  <2> QED BY <2>1, <2>2
<1>6. ASSUME NEW q \in Payments, lock[q] = u PROVE RefundedFrom(pay', q) = RefundedFrom(pay, q)
  <2>0. RefundedFrom(pay', q) = RefundedFrom(pay, q) - (IF pay[r.p].state = "kept" /\ pay[r.p].of = q THEN pay[r.p].amount ELSE 0)
                                                     + (IF pay'[r.p].state = "kept" /\ pay'[r.p].of = q THEN pay'[r.p].amount ELSE 0)
    BY <1>1, <1>2, <1>3, RefundedMoves
  <2>1. RefundedFrom(pay, q) \in Nat
    BY <1>2, Sums DEF Statuses
  <2>2. ~(pay[r.p].state = "kept" /\ pay[r.p].of = q)
    <3>1. CASE r.op \in {"create", "refund"}
      BY <1>0, <3>1 DEF Minds, Unborn
    <3>2. CASE r.op = "save"
      <4>1. pay[r.p].of = r.in.of
        BY <1>0, <3>2 DEF Stands, Writes, WriteStands
      <4>2. r.in.of # Nothing => lock[r.in.of] = s
        BY <1>0, <3>2 DEF Holding, Writes
      <4> QED BY <1>6, <4>1, <4>2, Rows_
    <3>3. CASE r.op = "remove"
      <4>1. pay[r.p].of # Nothing => lock[pay[r.p].of] = s
        BY <1>0, <3>3 DEF Holding
      <4> QED BY <1>6, <4>1, Rows_
    <3> QED BY <1>1, <3>1, <3>2, <3>3 DEF Writes
  <2>3. ~(pay'[r.p].state = "kept" /\ pay'[r.p].of = q)
    <3>1. CASE WritePayment(s)
      <4>1. pay'[r.p].of = r.in.of /\ r.op \in Writes
        BY <1>w, <3>1 DEF Wrote
      <4>2. r.in.of # Nothing => lock[r.in.of] = s
        BY <1>0, <4>1 DEF Holding
      <4> QED BY <1>6, <4>1, <4>2, Rows_
    <3>2. CASE DeletePayment(s)
      <4>1. pay'[r.p] = [pay[r.p] EXCEPT !.state = "gone"] /\ pay[r.p] \in PayRows
        BY <1>t, <1>1, <1>2, <3>2 DEF TookOff
      <4>2. pay'[r.p].state = "gone"
        BY <4>1 DEF PayRows
      <4> QED BY <4>2
    <3> QED BY <3>1, <3>2
  <2> QED BY <2>0, <2>1, <2>2, <2>3
<1>7. ASSUME NEW d \in Payables, lock[d] = u PROVE paid'[d] = paid[d]
  <2>1. CASE WritePayment(s)
    <3>1. paid' = [e \in Payables |-> IF e \in Before(r) \cup DocsOf(r.in.alloc) THEN AmountPaid(pay', status', e) ELSE paid[e]]
      BY <2>1 DEF WritePayment, SyncPaymentState
    <3>2. \A e \in Before(r) \cup DocsOf(r.in.alloc) : lock[e] = s
      BY <1>0, <1>w, <2>1 DEF Wrote, Holding, Before
    <3> QED BY <1>7, <3>1, <3>2
  <2>2. CASE DeletePayment(s)
    <3>1. paid' = [e \in Payables |-> IF e \in Before(r) THEN AmountPaid(pay', status', e) ELSE paid[e]]
      BY <2>2 DEF DeletePayment, SyncPaymentState
    <3>2. \A e \in Before(r) : lock[e] = s
      BY <1>0, <1>t, <2>2 DEF TookOff, Holding, Before
    <3> QED BY <1>7, <3>1, <3>2
  <2> QED BY <2>1, <2>2
<1>8. \A d \in Docs : Charged(status, d) \in Nat /\ Charged(status, d) <= Charged(status, d)
  BY <1>2, ChargedGrows
<1> QED BY <1>1, <1>5, <1>6, <1>7, <1>8 DEF LeavesAlone

\* So does a document that is issued or cancelled.
LEMMA DocumentsLeaveAlone ==
  ASSUME IInv, NEW s \in Sessions, at[s] = "writing", FinalizeDocument(s) \/ CancelDocument(s), NEW u \in Sessions \ {s}
  PROVE  LeavesAlone(u)
<1> DEFINE d == req[s].d
<1>0. TypeOK /\ Minds(s) /\ Holding(s) /\ Stands(s)
  BY DEF IInv, WorkIsSound
<1>1. /\ d \in Docs /\ pay' = pay /\ req[s].op \in {"finalize", "cancel"}
      /\ status' \in [Docs -> Statuses] /\ \A e \in Docs \ {d} : status'[e] = status[e]
      /\ req[s].op = "finalize" => status[d] = "draft" /\ status'[d] = "issued"
      /\ req[s].op = "cancel" => status'[d] = "cancelled"
      /\ paid' = [e \in Payables |-> IF e \in SourceOfNote(d, CreditNotes) THEN AmountPaid(pay', status', e) ELSE paid[e]]
  BY <1>0, Settled_
<1>2. status \in [Docs -> Statuses]
  BY <1>0, Typed
<1>3. lock[d] = s /\ (d \in CreditNotes => lock[Source[d]] = s) /\ (req[s].op = "finalize" /\ d \in Notes => lock[Source[d]] = s)
  BY <1>0, <1>1 DEF Holding
<1> HIDE DEF d
<1>4. \A e \in Docs : lock[e] = u => status'[e] = status[e]
  BY <1>1, <1>3
<1>5. ASSUME NEW e \in Docs, lock[e] = u PROVE Against(status', CreditNotes, e) = Against(status, CreditNotes, e)
  <2>1. CreditNotes \in SUBSET Notes
    BY Rows_
  <2>2. ~(d \in CreditNotes /\ Source[d] = e)
    BY <1>3, <1>5
  <2>3. Against(status', CreditNotes, e)
          = Against(status, CreditNotes, e) - (IF d \in CreditNotes /\ Source[d] = e /\ Live(status, d) THEN Total[d] ELSE 0)
                                            + (IF d \in CreditNotes /\ Source[d] = e /\ Live(status', d) THEN Total[d] ELSE 0)
    BY <1>1, <1>2, <2>1, AgainstMoves
  <2>4. Against(status, CreditNotes, e) \in Nat
    BY <1>2, <2>1, Sums, Typed, <1>0 DEF Statuses
  <2> QED BY <2>2, <2>3, <2>4
<1>6. ASSUME NEW e \in Docs, lock[e] = u, NEW n \in Notes, Source[n] = e, Live(status', n) PROVE Live(status, n)
  <2>1. n \in Docs
    BY Rows_
  <2>2. CASE n = d
    <3>1. req[s].op = "finalize"
      BY <1>1, <1>6, <2>2 DEF Live
    <3> QED BY <1>3, <1>6, <2>2, <3>1
  <2>3. CASE n # d
    BY <1>1, <1>6, <2>1, <2>3 DEF Live
  <2> QED BY <2>2, <2>3
<1>7. ASSUME NEW e \in Payables, lock[e] = u PROVE paid'[e] = paid[e]
  <2>1. e \notin SourceOfNote(d, CreditNotes)
    BY <1>3, <1>7 DEF SourceOfNote
  <2> QED BY <1>1, <2>1
<1>8. \A e \in Docs : Charged(status, e) \in Nat /\ Charged(status', e) \in Nat /\ Charged(status, e) <= Charged(status', e)
  <2>1. \A n \in Docs : status[n] # "draft" => status'[n] # "draft"
    BY <1>1
  <2> QED BY <1>1, <1>2, <2>1, ChargedGrows
<1>9. \A p \in Payments : pay'[p] = pay[p] /\ RefundedFrom(pay', p) = RefundedFrom(pay, p)
  BY <1>1
<1> QED BY <1>4, <1>5, <1>6, <1>7, <1>8, <1>9 DEF LeavesAlone

-----------------------------------------------------------------------------
(* The steps that write nothing to the books *)

BooksInv == PaidIsDerived /\ NothingOverpaid /\ CreditWithinSource /\ CancelledStandsAlone
Quiet == UNCHANGED <<status, paid, pay>>

LEMMA QuietBooks == ASSUME BooksInv, Quiet PROVE BooksInv'
  BY DEF BooksInv, Quiet, PaidIsDerived, NothingOverpaid, CreditWithinSource, CancelledStandsAlone

LEMMA QuietLeavesAlone == ASSUME TypeOK, Quiet, NEW u \in Sessions PROVE LeavesAlone(u)
<1>1. \A d \in Docs : Charged(status, d) \in Nat /\ Charged(status, d) <= Charged(status, d)
  BY Typed, ChargedGrows
<1> QED BY <1>1 DEF Quiet, LeavesAlone

LEMMA MindsStays ==
  ASSUME TypeOK, NEW u \in Sessions, Minds(u), Untouched(u), \A p \in Payments : Known(p) => Known(p)',
         req[u].op \in {"create", "refund"} => pay'[req[u].p] = pay[req[u].p] /\ \A v \in Sessions \ {u} : req'[v].p # req[u].p
  PROVE  Minds(u)'
<1> DEFINE r == req[u]
<1>1. req'[u] = r /\ at'[u] = at[u] /\ \A x \in Rows : lock'[x] = u <=> lock[x] = u
  BY DEF Untouched
<1>0. r \in Requests \/ r = NoRequest
  BY DEF TypeOK
<1>2. r.op \in {"save", "remove"} => r.p \in Payments
  BY <1>0, Asked_, NoRequest_ DEF Writes, Nothing
<1>3. r.in.of \in Payments \cup {Nothing}
  BY <1>0, Asked_, NoRequest_ DEF Said
<1> HIDE DEF r
<1>4. (r.op \in {"create", "refund"} => pay[r.p] = Unborn /\ \A v \in Sessions \ {u} : req[v].p # r.p)'
  BY <1>1 DEF Minds, r
<1>5. (r.op \in {"save", "remove"} => Known(r.p))'
  BY <1>1, <1>2 DEF Minds, r, Known
<1>6. (r.in.of # Nothing => Known(r.in.of))'
  BY <1>1, <1>3 DEF Minds, r, Known
<1>7. (at[u] = "idle" => r = NoRequest /\ \A x \in Rows : lock[x] # u)'
  BY <1>1 DEF Minds, r
<1>8. (at[u] # "idle" => r \in Requests)'
  BY <1>1 DEF Minds, r
<1> QED BY <1>4, <1>5, <1>6, <1>7, <1>8 DEF Minds, r

\* One session's step, and the others' requests.
LEMMA WorkStays ==
  ASSUME IInv, NEW s \in Sessions, \A u \in Sessions \ {s} : Untouched(u) /\ LeavesAlone(u),
         \A p \in Payments : Known(p) => Known(p)',
         \A u \in Sessions \ {s} : req[u].op \in {"create", "refund"} =>
           pay'[req[u].p] = pay[req[u].p] /\ req'[s].p # req[u].p,
         Minds(s)', at'[s] = "writing" => Holding(s)' /\ Stands(s)'
  PROVE  WorkIsSound'
<1> SUFFICES ASSUME NEW u \in Sessions \ {s} PROVE Minds(u)' /\ (at'[u] = "writing" => Holding(u)' /\ Stands(u)')
  BY DEF WorkIsSound
<1>0. TypeOK /\ Minds(u) /\ (at[u] = "writing" => Holding(u) /\ Stands(u)) /\ Untouched(u) /\ LeavesAlone(u)
  BY DEF IInv, WorkIsSound
<1>1. req[u].op \in {"create", "refund"} => \A v \in Sessions \ {u} : req'[v].p # req[u].p
  <2> SUFFICES ASSUME req[u].op \in {"create", "refund"}, NEW v \in Sessions \ {u} PROVE req'[v].p # req[u].p
    OBVIOUS
  <2>1. CASE v = s
    BY <2>1
  <2>2. CASE v # s
    <3>1. req'[v] = req[v]
      BY <2>2 DEF Untouched
    <3> QED BY <3>1, <1>0 DEF Minds
  <2> QED BY <2>1, <2>2
<1>2. Minds(u)'
  BY <1>0, <1>1, MindsStays
<1>3. at'[u] = at[u]
  BY <1>0 DEF Untouched
<1>4. at[u] = "writing" => Holding(u)' /\ Stands(u)'
  BY <1>0, StandsStays
<1> QED BY <1>2, <1>3, <1>4

\* The rows on a path are the ones a request names.
LEMMA OnPath ==
  ASSUME NEW r \in Requests, NEW i \in DOMAIN Path(r), NEW x \in Path(r)[i]
  PROVE  x \in Payments =>
           \/ r.op \in {"save", "remove"} /\ x = r.p
           \/ r.op \in Writes /\ x = r.in.of
           \/ r.op = "remove" /\ x = pay[r.p].of
<1> SUFFICES ASSUME x \in Payments PROVE \/ r.op \in {"save", "remove"} /\ x = r.p
                                         \/ r.op \in Writes /\ x = r.in.of
                                         \/ r.op = "remove" /\ x = pay[r.p].of
  OBVIOUS
<1>a. \A alloc : DocsOf(alloc) \subseteq Docs
  BY Rows_ DEF DocsOf
<1>b. x \notin Docs /\ x \notin Accounts /\ x # Nothing
  BY Rows_
<1>c. \A of : x \in Receipt(of) => x = of
  BY DEF Receipt
<1>d. \A d, ns : ns \subseteq Notes => x \notin SourceOfNote(d, ns)
  BY <1>b, Rows_ DEF SourceOfNote
<1>1. CASE r.op \in {"create", "refund"}
  <2>1. x = r.in.acc \/ x \in DocsOf(r.in.alloc) \/ x \in Receipt(r.in.of)
    BY <1>1, PathIs, PathSteps
  <2>2. r.in.acc \in Accounts
    BY <1>1, Asked_ DEF Writes
  <2> QED BY <1>1, <1>a, <1>b, <1>c, <2>1, <2>2 DEF Writes
<1>2. CASE r.op = "save" /\ pay[r.p].state = "kept"
  <2>1. x = r.p \/ x = r.in.acc \/ x \in DocsOf(r.in.alloc) \cup DocsOf(pay[r.p].alloc) \/ x \in Receipt(r.in.of)
    BY <1>2, PathIs, PathSteps
  <2>2. r.in.acc \in Accounts
    BY <1>2, Asked_ DEF Writes
  <2> QED BY <1>2, <1>a, <1>b, <1>c, <2>1, <2>2 DEF Writes
<1>3. CASE r.op = "save" /\ pay[r.p].state # "kept"
  BY <1>3, PathIs, PathSteps
<1>4. CASE r.op = "remove"
  <2>1. x = r.p \/ x \in Receipt(pay[r.p].of) \/ x \in DocsOf(pay[r.p].alloc)
    BY <1>4, PathIs, PathSteps
  <2> QED BY <1>4, <1>a, <1>b, <1>c, <2>1
<1>5. CASE r.op = "finalize"
  <2>1. x = r.d \/ x \in SourceOfNote(r.d, Notes)
    BY <1>5, PathIs, PathSteps
  <2> QED BY <1>5, <1>b, <1>d, <2>1, Asked_
<1>6. CASE r.op = "cancel"
  <2>1. x = r.d \/ x \in SourceOfNote(r.d, CreditNotes)
    BY <1>6, PathIs, PathSteps
  <2> QED BY <1>6, <1>b, <1>d, <2>1, Asked_, Rows_
<1> QED BY <1>1, <1>2, <1>3, <1>4, <1>5, <1>6, Asked_

LEMMA QuietKeeps ==
  ASSUME IInv, NEW s \in Sessions, Quiet, \A u \in Sessions \ {s} : Untouched(u), TypeOK',
         \A p \in Payments : lock'[p] # Nothing => lock[p] # Nothing \/ Known(p),
         \A u \in Sessions \ {s} : req[u].op \in {"create", "refund"} => req'[s].p # req[u].p,
         Minds(s)', at'[s] = "writing" => Holding(s)' /\ Stands(s)'
  PROVE  IInv'
<1>0. TypeOK /\ RowsAreSound /\ BooksInv
  BY DEF IInv, BooksInv
<1>1. RowsAreSound'
  BY <1>0 DEF RowsAreSound, Quiet, Known
<1>2. BooksInv'
  BY <1>0, QuietBooks
<1>3. WorkIsSound'
  <2>1. \A u \in Sessions \ {s} : LeavesAlone(u)
    BY <1>0, QuietLeavesAlone
  <2>2. \A p \in Payments : Known(p) => Known(p)'
    BY DEF Quiet, Known
  <2>3. pay' = pay
    BY DEF Quiet
  <2> QED BY <2>1, <2>2, <2>3, WorkStays
<1> QED BY <1>1, <1>2, <1>3 DEF IInv, BooksInv

LEMMA AskKeeps == ASSUME IInv, NEW s \in Sessions, NEW r \in Requests, Ask(s, r) PROVE IInv'
<1>0. TypeOK /\ WorkIsSound
  BY DEF IInv
<1>1. at[s] = "idle" /\ made < MaxRequests /\ Possible(r) /\ at' = [at EXCEPT ![s] = "locking"] /\ req' = [req EXCEPT ![s] = r]
      /\ made' = made + 1 /\ status' = status /\ paid' = paid /\ pay' = pay /\ lock' = lock /\ seen' = seen /\ drained' = drained
  BY DEF Ask
<1>2. Quiet
  BY <1>1 DEF Quiet
<1>3. TypeOK'
  <2>1. made' \in 0 .. MaxRequests
    BY <1>0, <1>1, ConstantsAssumption DEF TypeOK
  <2>2. at' \in [Sessions -> {"idle", "locking", "writing"}] /\ req' \in [Sessions -> Requests \cup {NoRequest}]
    BY <1>0, <1>1 DEF TypeOK
  <2> QED BY <1>0, <1>1, <2>1, <2>2 DEF TypeOK
<1>4. req'[s] = r /\ at'[s] = "locking" /\ \A u \in Sessions \ {s} : req'[u] = req[u] /\ Untouched(u)
  BY <1>0, <1>1 DEF TypeOK, Untouched
<1>5. Minds(s)'
  <2>1. (r.op \in {"create", "refund"} => pay[r.p] = Unborn /\ \A u \in Sessions \ {s} : req[u].p # r.p)'
    BY <1>1, <1>4 DEF Possible, NewId
  <2>2. (r.op \in {"save", "remove"} => Known(r.p))' /\ (r.in.of # Nothing => Known(r.in.of))'
    BY <1>1 DEF Possible, Known
  <2> QED BY <1>4, <2>1, <2>2 DEF Minds
<1>6. ASSUME NEW u \in Sessions \ {s}, req[u].op \in {"create", "refund"} PROVE req'[s].p # req[u].p
  <2>1. pay[req[u].p] = Unborn /\ req[u].p \in Payments
    <3>1. Minds(u) /\ (req[u] \in Requests \/ req[u] = NoRequest)
      BY <1>0 DEF WorkIsSound, TypeOK
    <3>2. req[u] \in Requests
      BY <3>1, <1>6, NoRequest_ DEF Nothing
    <3> QED BY <3>1, <3>2, <1>6, Asked_ DEF Minds, Writes
  <2>2. CASE r.op \in {"create", "refund"}
    BY <1>1, <1>4, <2>2 DEF Possible, NewId
  <2>3. CASE r.op \in {"save", "remove"}
    BY <1>1, <1>4, <2>1, <2>3 DEF Possible, Known
  <2>4. CASE r.op \in {"finalize", "cancel"}
    BY <1>4, <2>1, <2>4, Asked_, Rows_
  <2> QED BY <2>2, <2>3, <2>4, Asked_
<1>7. at'[s] # "writing" /\ lock' = lock
  BY <1>1, <1>4
<1> QED BY <1>2, <1>3, <1>4, <1>5, <1>6, <1>7, QuietKeeps

LEMMA LockKeeps == ASSUME IInv, NEW s \in Sessions, NEW x \in Rows, Lock(s, x) PROVE IInv'
<1>0. TypeOK /\ WorkIsSound /\ RowsAreSound
  BY DEF IInv
<1>1. lock[x] = Nothing /\ Wants(s, x) /\ lock' = [lock EXCEPT ![x] = s] /\ status' = status /\ paid' = paid /\ pay' = pay
      /\ at' = at /\ req' = req /\ seen' = seen /\ drained' = drained /\ made' = made
  BY DEF Lock
<1>2. Quiet
  BY <1>1 DEF Quiet
<1>3. TypeOK'
  BY <1>0, <1>1 DEF TypeOK
<1>4. \A u \in Sessions \ {s} : Untouched(u)
  BY <1>0, <1>1, Rows_ DEF TypeOK, Untouched
<1>5. at[s] = "locking" /\ \E i \in DOMAIN Path(req[s]) : x \in Path(req[s])[i]
  BY <1>1 DEF Wants, Missing
<1>6. Minds(s) /\ req[s] \in Requests
  BY <1>0, <1>5 DEF WorkIsSound, Minds
<1>7. Minds(s)'
  BY <1>1, <1>5, <1>6 DEF Minds, Known
<1>8. \A p \in Payments : lock'[p] # Nothing => lock[p] # Nothing \/ Known(p)
  <2>1. x \in Payments => Known(x)
    <3> SUFFICES ASSUME x \in Payments PROVE Known(x)
      OBVIOUS
    <3>1. \/ req[s].op \in {"save", "remove"} /\ x = req[s].p
          \/ req[s].op \in Writes /\ x = req[s].in.of
          \/ req[s].op = "remove" /\ x = pay[req[s].p].of
      BY <1>5, <1>6, OnPath
    <3>2. x # Nothing
      BY Rows_
    <3>3. req[s].op = "remove" => req[s].p \in Payments
      BY <1>6, Asked_
    <3> QED BY <1>0, <1>6, <3>1, <3>2, <3>3 DEF Minds, RowsAreSound
  <2> QED BY <1>0, <1>1, <2>1, Rows_ DEF TypeOK, Rows
<1>9. at'[s] # "writing"
  BY <1>1, <1>5
<1>10. \A u \in Sessions \ {s} : req[u].op \in {"create", "refund"} => req'[s].p # req[u].p
  BY <1>0, <1>1 DEF WorkIsSound, Minds
<1> QED BY <1>2, <1>3, <1>4, <1>7, <1>8, <1>9, <1>10, QuietKeeps

\* A request that is over minds nothing.
LEMMA Over ==
  ASSUME IInv, NEW s \in Sessions, End(s)
  PROVE  /\ Minds(s)' /\ at'[s] # "writing"
         /\ \A u \in Sessions \ {s} : Untouched(u) /\ (req[u].op \in {"create", "refund"} => req'[s].p # req[u].p)
         /\ \A p \in Payments : lock'[p] # Nothing => lock'[p] = lock[p]
<1>0. TypeOK /\ WorkIsSound
  BY DEF IInv
<1>1. /\ \A u \in Sessions \ {s} : Untouched(u)
      /\ at'[s] = "idle" /\ req'[s] = NoRequest /\ \A x \in Rows : lock'[x] # s /\ (lock'[x] # Nothing => lock'[x] = lock[x])
  BY <1>0, Ends
<1>2. Minds(s)'
  BY <1>1, NoRequest_ DEF Minds, Nothing
<1>3. ASSUME NEW u \in Sessions \ {s}, req[u].op \in {"create", "refund"} PROVE req'[s].p # req[u].p
  <2>1. req[u] \in Requests \/ req[u] = NoRequest
    BY <1>0 DEF TypeOK
  <2>2. req[u].p \in Payments
    BY <1>3, <2>1, Asked_, NoRequest_ DEF Writes, Nothing
  <2> QED BY <1>1, <2>2, NoRequest_, Rows_
<1> QED BY <1>1, <1>2, <1>3 DEF Rows

LEMMA QuietEndKeeps == ASSUME IInv, NEW s \in Sessions, End(s), Quiet, drained' = drained PROVE IInv'
<1>1. TypeOK'
  BY Ends DEF IInv, TypeOK, Quiet
<1>2. \A p \in Payments : lock'[p] # Nothing => lock[p] # Nothing \/ Known(p)
  BY Over
<1> QED BY <1>1, <1>2, Over, QuietKeeps

LEMMA DecideKeeps == ASSUME IInv, NEW s \in Sessions, Decide(s) PROVE IInv'
<1>0. TypeOK /\ WorkIsSound
  BY DEF IInv
<1>1. at[s] = "locking" /\ at' = [at EXCEPT ![s] = "writing"]
      /\ seen' = [seen EXCEPT ![s] = [left |-> LeftOf(ReceiptOf(req[s])), refunded |-> RefundedOf(req[s])]]
      /\ status' = status /\ paid' = paid /\ pay' = pay /\ lock' = lock /\ req' = req /\ drained' = drained /\ made' = made
  BY DEF Decide, Locked
<1>2. Quiet
  BY <1>1 DEF Quiet
<1>3. Minds(s) /\ req[s] \in Requests
  BY <1>0, <1>1 DEF WorkIsSound, Minds
<1>4. TypeOK'
  <2>1. LeftOf(ReceiptOf(req[s])) \in Nat
    <3>1. ReceiptOf(req[s]) \in Payments \cup {Nothing}
      BY <1>0, <1>3, Asked_ DEF ReceiptOf, Said, TypeOK
    <3> QED BY <1>0, <3>1 DEF LeftOf, TypeOK
  <2>2. RefundedOf(req[s]) \in Nat
    <3>1. \A p \in Payments : RefundedFrom(pay, p) \in Nat
      BY <1>0, Typed, Sums DEF Statuses
    <3>2. req[s].op = "save" => req[s].p \in Payments
      BY <1>3, Asked_ DEF Writes
    <3> QED BY <3>1, <3>2 DEF RefundedOf
  <2>3. at' \in [Sessions -> {"idle", "locking", "writing"}] /\ seen' \in [Sessions -> [left : Nat, refunded : Nat]]
    BY <1>0, <1>1, <2>1, <2>2 DEF TypeOK
  <2> QED BY <1>0, <1>1, <2>3 DEF TypeOK
<1>5. \A u \in Sessions \ {s} : Untouched(u)
  BY <1>0, <1>1 DEF TypeOK, Untouched
<1>6. Minds(s)'
  <2>1. at'[s] = "writing"
    BY <1>0, <1>1 DEF TypeOK
  <2> QED BY <1>1, <1>3, <2>1 DEF Minds, Known
<1>7. Holding(s)' /\ Stands(s)'
  BY <1>0, <1>3, DecidedStands
<1>8. \A u \in Sessions \ {s} : req[u].op \in {"create", "refund"} => req'[s].p # req[u].p
  BY <1>0, <1>1 DEF WorkIsSound, Minds
<1> QED BY <1>1, <1>2, <1>4, <1>5, <1>6, <1>7, <1>8, QuietKeeps

-----------------------------------------------------------------------------
(* The steps that write *)

LEMMA SettlesNat ==
  ASSUME NEW alloc \in Allocs, NEW d \in Payables
  PROVE  Settles(alloc, d) \in Nat /\ (d \notin DocsOf(alloc) => Settles(alloc, d) = 0)
  BY DEF Allocs, Settles, DocsOf

LEMMA KnownStates == ASSUME RowsAreSound, NEW p \in Payments PROVE Known(p) <=> pay[p].state # "unborn"
  BY DEF RowsAreSound, Known, Unborn

\* What is not a receipt's or payment's own keeps its kind; what was known stays known.
LEMMA WroteRows ==
  ASSUME TypeOK, RowsAreSound, NEW s \in Sessions, Minds(s), Stands(s), Wrote(s), \A p \in Payments : lock'[p] # Nothing => lock'[p] = lock[p]
  PROVE  RowsAreSound' /\ \A p \in Payments : Known(p) => Known(p)'
<1> DEFINE r == req[s]
<1>0. r.p \in Payments /\ pay'[r.p].state = "kept" /\ pay'[r.p].of = r.in.of /\ r.op \in Writes /\ r \in Requests
      /\ pay'[r.p].dir = r.in.dir
  BY DEF Wrote
<1>1. \A q \in Payments \ {r.p} : pay'[q].state = pay[q].state /\ pay'[q].of = pay[q].of /\ pay'[q].dir = pay[q].dir
  BY DEF Wrote
<1>2. pay'[r.p] # Unborn
  BY <1>0 DEF Unborn
<1>3. \A q \in Payments \ {r.p} : Known(q) => Known(q)'
  BY <1>1, KnownStates DEF Known, Unborn
<1>4. r.in.of # Nothing => r.in.of \in Payments /\ r.in.of # r.p /\ Known(r.in.of) /\ pay[r.in.of].of = Nothing /\ r.in.dir = "paid"
  BY <1>0 DEF Wrote, Minds, Stands, WriteStands, RefundFits
<1>5. \A q \in Payments \ {r.p} : pay[q].state = "unborn" => pay'[q] = Unborn
  <2>1. \A q \in Payments \ {r.p} : pay[q].state = "unborn" => q # r.in.of /\ pay[q] = Unborn
    BY <1>4, KnownStates, Rows_ DEF RowsAreSound
  <2> QED BY <2>1 DEF Wrote
<1>6. Known(r.p) => pay[r.p].of = r.in.of
  <2>1. Known(r.p) => r.op = "save"
    BY <1>0 DEF Minds, Known, Writes
  <2> QED BY <2>1, <1>0 DEF Stands, WriteStands
<1>7. \A p \in Payments : Known(p) => Known(p)'
  BY <1>0, <1>2, <1>3 DEF Known
<1>9. \A q \in Payments : pay[q] # Unborn => pay'[q] # Unborn
  BY <1>7 DEF Known
<1>8. RowsAreSound'
  <2> SUFFICES ASSUME NEW q \in Payments
               PROVE  /\ pay'[q].state = "unborn" => pay'[q] = Unborn
                      /\ lock'[q] # Nothing => pay'[q] # Unborn
                      /\ pay'[q].of # Nothing => pay'[q].dir = "paid" /\ pay'[pay'[q].of] # Unborn /\ pay'[pay'[q].of].of = Nothing
    BY DEF RowsAreSound, Known
  <2>1. pay'[q].state = "unborn" => pay'[q] = Unborn
    BY <1>0, <1>1, <1>5
  <2>2. lock'[q] # Nothing => pay'[q] # Unborn
    BY <1>9 DEF RowsAreSound, Known
  <2>3. CASE q = r.p
    <3>1. r.in.of # Nothing => pay'[r.in.of].of = Nothing /\ pay'[r.in.of] # Unborn
      BY <1>1, <1>9, <1>4 DEF Known
    <3>2. pay'[q].of = r.in.of /\ pay'[q].dir = r.in.dir
      BY <1>0, <2>3
    <3> QED BY <1>4, <2>1, <2>2, <3>1, <3>2
  <2>4. CASE q # r.p /\ pay[q].of # Nothing
    <3>1. pay'[q].of = pay[q].of /\ pay'[q].dir = pay[q].dir
      BY <1>1, <2>4
    <3>2. pay[q].dir = "paid" /\ pay[pay[q].of] # Unborn /\ pay[pay[q].of].of = Nothing /\ pay[q].of \in Payments
      BY <2>4, Typed DEF RowsAreSound, PayRows, Known
    <3>3. pay'[pay[q].of].of = Nothing
      BY <1>0, <1>1, <1>6, <3>2 DEF Known
    <3> QED BY <1>9, <2>1, <2>2, <3>1, <3>2, <3>3
  <2>5. CASE q # r.p /\ pay[q].of = Nothing
    BY <1>1, <2>1, <2>2, <2>5
  <2> QED BY <2>3, <2>4, <2>5
<1> QED BY <1>7, <1>8

LEMMA TookOffRows ==
  ASSUME TypeOK, RowsAreSound, NEW s \in Sessions, TookOff(s), \A p \in Payments : lock'[p] # Nothing => lock'[p] = lock[p]
  PROVE  RowsAreSound' /\ \A p \in Payments : Known(p) => Known(p)'
<1> DEFINE r == req[s]
<1>0. r.p \in Payments /\ pay[r.p].state = "kept" /\ pay'[r.p] = [pay[r.p] EXCEPT !.state = "gone"]
  BY DEF TookOff
<1>1. \A q \in Payments \ {r.p} : pay'[q].state = pay[q].state /\ pay'[q].of = pay[q].of /\ pay'[q].dir = pay[q].dir
                                  /\ (pay[q].state = "unborn" => pay'[q] = pay[q])
  BY DEF TookOff
<1>2. pay'[r.p].state = "gone" /\ pay'[r.p].of = pay[r.p].of /\ pay'[r.p].dir = pay[r.p].dir
  BY <1>0, Typed DEF PayRows
<1>3. \A q \in Payments : pay'[q].of = pay[q].of /\ pay'[q].dir = pay[q].dir
  BY <1>1, <1>2
<1>4. \A q \in Payments : pay[q] # Unborn => pay'[q] # Unborn
  BY <1>1, <1>2, KnownStates DEF Known, Unborn
<1>5. RowsAreSound'
  <2> SUFFICES ASSUME NEW q \in Payments
               PROVE  /\ pay'[q].state = "unborn" => pay'[q] = Unborn
                      /\ lock'[q] # Nothing => pay'[q] # Unborn
                      /\ pay'[q].of # Nothing => pay'[q].dir = "paid" /\ pay'[pay'[q].of] # Unborn /\ pay'[pay'[q].of].of = Nothing
    BY DEF RowsAreSound, Known
  <2>1. pay'[q].state = "unborn" => pay'[q] = Unborn
    BY <1>1, <1>2 DEF RowsAreSound
  <2>2. lock'[q] # Nothing => pay'[q] # Unborn
    BY <1>4 DEF RowsAreSound, Known
  <2>3. pay[q].of # Nothing => pay[q].dir = "paid" /\ pay[pay[q].of] # Unborn /\ pay[pay[q].of].of = Nothing /\ pay[q].of \in Payments
    BY Typed DEF RowsAreSound, PayRows, Known
  <2> QED BY <1>3, <1>4, <2>1, <2>2, <2>3
<1> QED BY <1>4, <1>5 DEF Known

LEMMA WroteBooks ==
  ASSUME IInv, NEW s \in Sessions, Minds(s), Stands(s), Wrote(s), SyncPaymentState(Before(req[s]) \cup DocsOf(req[s].in.alloc))
  PROVE  BooksInv' /\ paid' \in [Payables -> Nat]
<1> DEFINE r == req[s]
           ds == Before(r) \cup DocsOf(r.in.alloc)
<1>0. TypeOK /\ BooksInv
  BY DEF IInv, BooksInv
<1>1. r.p \in Payments /\ pay' \in [Payments -> PayRows] /\ status' = status /\ r.op \in Writes /\ pay'[r.p].state = "kept"
      /\ pay'[r.p].alloc = r.in.alloc /\ \A q \in Payments \ {r.p} : pay'[q].state = pay[q].state /\ pay'[q].alloc = pay[q].alloc
  BY DEF Wrote
<1>2. pay \in [Payments -> PayRows] /\ status \in [Docs -> Statuses] /\ paid \in [Payables -> Nat]
  BY <1>0, Typed
<1>3. r.in.alloc \in Allocs /\ pay[r.p].alloc \in Allocs
  BY <1>1, <1>2 DEF PayRows
<1>w. WriteStands(s)
  BY <1>1 DEF Stands
<1> DEFINE Old(d) == IF pay[r.p].state = "kept" THEN Settles(pay[r.p].alloc, d) ELSE 0
<1>4. ASSUME NEW d \in Payables
      PROVE  /\ Allocated(pay', d) = Allocated(pay, d) - Old(d) + Settles(r.in.alloc, d)
             /\ Allocated(pay', d) \in Nat /\ Allocated(pay, d) \in Nat /\ Old(d) \in Nat /\ Settles(r.in.alloc, d) \in Nat
             /\ d \notin DocsOf(r.in.alloc) => Settles(r.in.alloc, d) = 0
             /\ d \notin Before(r) => Old(d) = 0
             /\ Total[d] \in Nat /\ paid[d] \in Nat /\ Allocated(pay, d) <= paid[d] /\ Allocated(pay, d) <= Total[d]
  <2>1. Allocated(pay', d) = Allocated(pay, d) - Old(d) + Settles(r.in.alloc, d)
    BY <1>1, <1>2, AllocatedMoves
  <2>2. Allocated(pay', d) \in Nat /\ Allocated(pay, d) \in Nat
    BY <1>1, <1>2, PaidIs
  <2>3. Old(d) \in Nat /\ Settles(r.in.alloc, d) \in Nat /\ (d \notin DocsOf(r.in.alloc) => Settles(r.in.alloc, d) = 0)
    BY <1>3, SettlesNat
  <2>4. d \notin Before(r) => Old(d) = 0
    <3>1. CASE r.op = "save"
      BY <1>3, <3>1, SettlesNat DEF Before
    <3>2. CASE r.op \in {"create", "refund"}
      BY <3>2 DEF Minds, Unborn
    <3> QED BY <1>1, <3>1, <3>2 DEF Writes
  <2>5. Total[d] \in Nat /\ paid[d] \in Nat
    BY <1>2, Rows_
  <2>6. Allocated(pay, d) <= paid[d] /\ Allocated(pay, d) <= Total[d]
    BY <1>0, <1>2, PaidIs DEF BooksInv, PaidIsDerived, NothingOverpaid
  <2> QED BY <2>1, <2>2, <2>3, <2>4, <2>5, <2>6
<1>5. \A d \in Payables : paid'[d] = AmountPaid(pay', status', d)
  <2> SUFFICES ASSUME NEW d \in Payables PROVE paid'[d] = AmountPaid(pay', status', d)
    OBVIOUS
  <2>1. CASE d \in ds
    BY <2>1 DEF SyncPaymentState
  <2>2. CASE d \notin ds
    <3>1. Allocated(pay', d) = Allocated(pay, d)
      <4>1. Old(d) = 0 /\ Settles(r.in.alloc, d) = 0
        BY <1>4, <2>2
      <4>2. Allocated(pay', d) = Allocated(pay, d) - Old(d) + Settles(r.in.alloc, d) /\ Allocated(pay, d) \in Nat
        BY <1>4
      <4> QED BY <4>1, <4>2
    <3>2. AmountPaid(pay', status', d) = AmountPaid(pay, status, d)
      BY <1>1, <3>1, PaidSame
    <3>3. paid'[d] = paid[d]
      BY <2>2 DEF SyncPaymentState
    <3> QED BY <1>0, <3>2, <3>3 DEF BooksInv, PaidIsDerived
  <2> QED BY <2>1, <2>2
<1>6. paid' \in [Payables -> Nat]
  <2>1. \A d \in Payables : AmountPaid(pay', status', d) \in Nat
    BY <1>1, <1>2, PaidIs
  <2>2. paid' = [d \in Payables |-> AmountPaid(pay', status', d)]
    BY <1>5 DEF SyncPaymentState
  <2> QED BY <2>1, <2>2
<1>7. \A d \in Payables : Allocated(pay', d) <= Total[d]
  <2> SUFFICES ASSUME NEW d \in Payables PROVE Allocated(pay', d) <= Total[d]
    OBVIOUS
  <2> DEFINE a == Allocated(pay, d)
             b == Allocated(pay', d)
             old == Old(d)
             new == Settles(r.in.alloc, d)
             owed == Owed(r, d)
             p == paid[d]
             t == Total[d]
  <2>0. b = a - old + new /\ a \in Nat /\ b \in Nat /\ old \in Nat /\ new \in Nat /\ t \in Nat /\ p \in Nat /\ a <= p /\ a <= t
    BY <1>4
  <2>1. CASE d \in DocsOf(r.in.alloc)
    <3>1. new <= owed
      BY <1>w, <2>1 DEF WriteStands
    <3>2. owed = t - p + old
      <4>1. CASE r.op = "save"
        <5>1. pay[r.p].state = "kept"
          BY <1>w, <4>1 DEF WriteStands
        <5> QED BY <4>1, <5>1 DEF Owed
      <4>2. CASE r.op \in {"create", "refund"}
        BY <4>2 DEF Owed, Minds, Unborn
      <4> QED BY <1>1, <4>1, <4>2 DEF Writes
    <3> HIDE DEF a, b, new, old, owed, p, t
    <3>3. b <= t
      BY <2>0, <3>1, <3>2
    <3> QED BY <3>3 DEF b, t
  <2>2. CASE d \notin DocsOf(r.in.alloc)
    <3>1. new = 0
      BY <1>4, <2>2
    <3> HIDE DEF a, b, new, old, p, t
    <3>2. b <= t
      BY <2>0, <3>1
    <3> QED BY <3>2 DEF b, t
  <2> QED BY <2>1, <2>2
<1>8. CreditWithinSource'
  BY <1>0, <1>1 DEF BooksInv, CreditWithinSource
<1>9. CancelledStandsAlone'
  <2>1. ASSUME NEW d \in Payables, status[d] = "cancelled" PROVE Allocated(pay', d) = 0
    <3>1. d \notin DocsOf(r.in.alloc)
      BY <1>w, <2>1 DEF WriteStands
    <3>2. Settles(r.in.alloc, d) = 0 /\ Allocated(pay, d) = 0
      BY <1>0, <1>4, <2>1, <3>1, Rows_ DEF BooksInv, CancelledStandsAlone
    <3>3. Allocated(pay', d) = Allocated(pay, d) - Old(d) + Settles(r.in.alloc, d) /\ Allocated(pay', d) \in Nat /\ Old(d) \in Nat
      BY <1>4
    <3> HIDE DEF Old
    <3> QED BY <3>2, <3>3
  <2> QED BY <1>0, <1>1, <2>1 DEF BooksInv, CancelledStandsAlone
<1> QED BY <1>5, <1>6, <1>7, <1>8, <1>9 DEF BooksInv, PaidIsDerived, NothingOverpaid

LEMMA TookOffBooks ==
  ASSUME IInv, NEW s \in Sessions, TookOff(s), SyncPaymentState(Before(req[s]))
  PROVE  BooksInv' /\ paid' \in [Payables -> Nat]
<1> DEFINE r == req[s]
<1>0. TypeOK /\ BooksInv
  BY DEF IInv, BooksInv
<1>1. r.p \in Payments /\ pay' \in [Payments -> PayRows] /\ status' = status /\ r.op = "remove" /\ pay[r.p].state = "kept"
      /\ pay'[r.p] = [pay[r.p] EXCEPT !.state = "gone"]
  BY DEF TookOff
<1>q. r.p \in Payments /\ pay' \in [Payments -> PayRows]
      /\ \A q \in Payments \ {r.p} : pay'[q].state = pay[q].state /\ pay'[q].alloc = pay[q].alloc
  BY DEF TookOff
<1>2. pay \in [Payments -> PayRows] /\ status \in [Docs -> Statuses] /\ paid \in [Payables -> Nat]
  BY <1>0, Typed
<1>3. pay[r.p].alloc \in Allocs /\ pay'[r.p].state = "gone" /\ Before(r) = DocsOf(pay[r.p].alloc)
  BY <1>1, <1>2 DEF PayRows, Before
<1>4. ASSUME NEW d \in Payables
      PROVE  /\ Allocated(pay', d) = Allocated(pay, d) - Settles(pay[r.p].alloc, d)
             /\ Allocated(pay', d) \in Nat /\ Allocated(pay, d) \in Nat /\ Settles(pay[r.p].alloc, d) \in Nat
             /\ d \notin Before(r) => Settles(pay[r.p].alloc, d) = 0
             /\ Total[d] \in Nat /\ Allocated(pay, d) <= Total[d]
  <2>0. Allocated(pay', d) = Allocated(pay, d) - (IF pay[r.p].state = "kept" THEN Settles(pay[r.p].alloc, d) ELSE 0)
                                               + (IF pay'[r.p].state = "kept" THEN Settles(pay'[r.p].alloc, d) ELSE 0)
    BY <1>q, <1>2, AllocatedMoves
  <2>1. Allocated(pay', d) = Allocated(pay, d) - Settles(pay[r.p].alloc, d) + 0
    BY <1>1, <1>3, <2>0
  <2>2. Allocated(pay', d) \in Nat /\ Allocated(pay, d) \in Nat
    BY <1>1, <1>2, PaidIs
  <2>3. Settles(pay[r.p].alloc, d) \in Nat /\ (d \notin Before(r) => Settles(pay[r.p].alloc, d) = 0)
    BY <1>3, SettlesNat
  <2>4. Total[d] \in Nat /\ Allocated(pay, d) <= Total[d]
    BY <1>0, Rows_ DEF BooksInv, NothingOverpaid
  <2> QED BY <2>1, <2>2, <2>3, <2>4
<1>5. \A d \in Payables : paid'[d] = AmountPaid(pay', status', d)
  <2> SUFFICES ASSUME NEW d \in Payables PROVE paid'[d] = AmountPaid(pay', status', d)
    OBVIOUS
  <2>1. CASE d \in Before(r)
    BY <2>1 DEF SyncPaymentState
  <2>2. CASE d \notin Before(r)
    <3>1. Allocated(pay', d) = Allocated(pay, d)
      BY <1>4, <2>2
    <3>2. AmountPaid(pay', status', d) = AmountPaid(pay, status, d)
      BY <1>1, <3>1, PaidSame
    <3>3. paid'[d] = paid[d]
      BY <2>2 DEF SyncPaymentState
    <3> QED BY <1>0, <3>2, <3>3 DEF BooksInv, PaidIsDerived
  <2> QED BY <2>1, <2>2
<1>6. paid' \in [Payables -> Nat]
  <2>1. \A d \in Payables : AmountPaid(pay', status', d) \in Nat
    BY <1>1, <1>2, PaidIs
  <2>2. paid' = [d \in Payables |-> AmountPaid(pay', status', d)]
    BY <1>5 DEF SyncPaymentState
  <2> QED BY <2>1, <2>2
<1>7. NothingOverpaid'
  BY <1>4 DEF NothingOverpaid
<1>8. CreditWithinSource'
  BY <1>0, <1>1 DEF BooksInv, CreditWithinSource
<1>9. CancelledStandsAlone'
  BY <1>0, <1>1, <1>4 DEF BooksInv, CancelledStandsAlone
<1> QED BY <1>5, <1>6, <1>7, <1>8, <1>9 DEF BooksInv, PaidIsDerived

LEMMA DocumentBooks ==
  ASSUME IInv, NEW s \in Sessions, at[s] = "writing", FinalizeDocument(s) \/ CancelDocument(s)
  PROVE  BooksInv' /\ paid' \in [Payables -> Nat] /\ status' \in [Docs -> Statuses] /\ pay' = pay
<1> DEFINE d == req[s].d
<1>0. TypeOK /\ BooksInv /\ Minds(s) /\ Stands(s)
  BY DEF IInv, BooksInv, WorkIsSound
<1>1. /\ d \in Docs /\ pay' = pay /\ req[s].op \in {"finalize", "cancel"}
      /\ status' \in [Docs -> Statuses] /\ \A e \in Docs \ {d} : status'[e] = status[e]
      /\ req[s].op = "finalize" => status[d] = "draft" /\ status'[d] = "issued" /\ FinalizeStands(s)
      /\ req[s].op = "cancel" => status'[d] = "cancelled" /\ CancelFits(d)
      /\ paid' = [e \in Payables |-> IF e \in SourceOfNote(d, CreditNotes) THEN AmountPaid(pay', status', e) ELSE paid[e]]
  BY <1>0, Settled_
<1>2. pay \in [Payments -> PayRows] /\ status \in [Docs -> Statuses] /\ paid \in [Payables -> Nat]
  BY <1>0, Typed
<1>f. req[s].op = "finalize" => /\ d \in Notes => status[Source[d]] = "issued"
                                /\ d \in CreditNotes => Total[d] + Against(status, CreditNotes, Source[d])
                                                          <= Total[Source[d]] + Charged(status, Source[d])
  BY <1>1 DEF FinalizeStands
<1> HIDE DEF d
<1>3. \A e : Against(status', CreditNotes, e)
               = Against(status, CreditNotes, e) - (IF d \in CreditNotes /\ Source[d] = e /\ Live(status, d) THEN Total[d] ELSE 0)
                                                 + (IF d \in CreditNotes /\ Source[d] = e /\ Live(status', d) THEN Total[d] ELSE 0)
  <2>1. CreditNotes \in SUBSET Notes
    BY Rows_
  <2> QED BY <1>1, <1>2, <2>1, AgainstMoves
<1>4. \A e : Against(status, CreditNotes, e) \in Nat /\ Total[d] \in Nat
  BY <1>1, <1>2, Sums, Rows_ DEF Statuses
<1>5. \A e \in Payables : paid'[e] = AmountPaid(pay', status', e)
  <2> SUFFICES ASSUME NEW e \in Payables PROVE paid'[e] = AmountPaid(pay', status', e)
    OBVIOUS
  <2>1. CASE e \in SourceOfNote(d, CreditNotes)
    BY <1>1, <2>1
  <2>2. CASE e \notin SourceOfNote(d, CreditNotes)
    <3>1. ~(d \in CreditNotes /\ Source[d] = e)
      BY <2>2 DEF SourceOfNote
    <3>2. Against(status', CreditNotes, e) = Against(status, CreditNotes, e)
      BY <1>3, <1>4, <3>1
    <3>3. AmountPaid(pay', status', e) = AmountPaid(pay, status, e)
      BY <1>1, <3>2, PaidSame
    <3> QED BY <1>0, <1>1, <2>2, <3>3 DEF BooksInv, PaidIsDerived
  <2> QED BY <2>1, <2>2
<1>6. paid' \in [Payables -> Nat]
  <2>1. \A e \in Payables : AmountPaid(pay', status', e) \in Nat
    BY <1>1, <1>2, PaidIs
  <2>2. paid' = [e \in Payables |-> AmountPaid(pay', status', e)]
    BY <1>1, <1>5
  <2> QED BY <2>1, <2>2
<1>7. NothingOverpaid'
  BY <1>0, <1>1 DEF BooksInv, NothingOverpaid
<1>8. CreditWithinSource'
  <2> SUFFICES ASSUME NEW e \in Invoices PROVE Against(status', CreditNotes, e) <= Total[e] + Charged(status', e)
    BY DEF CreditWithinSource, Charged
  <2>0. e \in Docs /\ Total[e] \in Nat
    BY Rows_
  <2>1. Against(status, CreditNotes, e) <= Total[e] + Charged(status, e)
    BY <1>0 DEF BooksInv, CreditWithinSource, Charged
  <2>2. Charged(status, e) \in Nat /\ Charged(status', e) \in Nat /\ Charged(status, e) <= Charged(status', e)
    <3>1. \A n \in Docs : status[n] # "draft" => status'[n] # "draft"
      BY <1>1
    <3> QED BY <1>1, <1>2, <3>1, ChargedGrows
  <2>3. CASE d \in CreditNotes /\ Source[d] = e /\ req[s].op = "finalize"
    <3>1. Live(status', d) /\ ~Live(status, d)
      BY <1>1, <2>3 DEF Live
    <3>2. Against(status', CreditNotes, e) = Against(status, CreditNotes, e) - 0 + Total[d]
      BY <1>3, <2>3, <3>1
    <3>3. Total[d] + Against(status, CreditNotes, e) <= Total[e] + Charged(status, e)
      BY <1>f, <2>3
    <3> QED BY <1>4, <2>0, <2>2, <3>2, <3>3
  <2>4. CASE ~(d \in CreditNotes /\ Source[d] = e /\ req[s].op = "finalize")
    <3>1. ~(d \in CreditNotes /\ Source[d] = e /\ Live(status', d))
      BY <1>1, <2>4 DEF Live
    <3>2. Against(status', CreditNotes, e)
            = Against(status, CreditNotes, e) - (IF d \in CreditNotes /\ Source[d] = e /\ Live(status, d) THEN Total[d] ELSE 0) + 0
      BY <1>3, <3>1
    <3>3. Against(status', CreditNotes, e) <= Against(status, CreditNotes, e) /\ Against(status', CreditNotes, e) \in Int
      BY <1>4, <3>2
    <3> QED BY <1>4, <2>0, <2>1, <2>2, <3>3
  <2> QED BY <2>3, <2>4
<1>9. CancelledStandsAlone'
  <2> SUFFICES ASSUME NEW e \in Docs, status'[e] = "cancelled"
               PROVE  /\ e \in Payables => Allocated(pay', e) = 0
                      /\ \A n \in Notes : Source[n] = e => ~Live(status', n)
    BY DEF CancelledStandsAlone
  <2>1. CASE e = d
    <3>1. CancelFits(d)
      BY <1>1, <2>1
    <3>2. e \in Payables => Allocated(pay, e) = 0
      <4>1. e \in Payables => paid[e] = 0
        BY <2>1, <3>1 DEF CancelFits
      <4>2. e \in Payables => paid[e] = AmountPaid(pay, status, e)
        BY <1>0 DEF BooksInv, PaidIsDerived
      <4>3. e \in Payables => Allocated(pay, e) <= AmountPaid(pay, status, e) /\ Allocated(pay, e) \in Nat
        BY <1>2, PaidIs
      <4> QED BY <4>1, <4>2, <4>3
    <3>3. \A n \in Notes : Source[n] = e => ~Live(status', n)
      BY <1>1, <2>1, <3>1, Rows_ DEF CancelFits, Live
    <3> QED BY <1>1, <3>2, <3>3
  <2>2. CASE e # d
    <3>1. status[e] = "cancelled"
      BY <1>1, <2>2
    <3>2. (e \in Payables => Allocated(pay, e) = 0) /\ \A n \in Notes : Source[n] = e => ~Live(status, n)
      BY <1>0, <3>1 DEF BooksInv, CancelledStandsAlone
    <3>3. ASSUME NEW n \in Notes, Source[n] = e PROVE ~Live(status', n)
      <4>1. CASE n = d
        BY <1>1, <1>f, <3>1, <3>3, <4>1 DEF Live
      <4>2. CASE n # d
        BY <1>1, <3>2, <3>3, <4>2, Rows_ DEF Live
      <4> QED BY <4>1, <4>2
    <3> QED BY <1>1, <3>2, <3>3
  <2> QED BY <2>1, <2>2
<1> QED BY <1>1, <1>5, <1>6, <1>7, <1>8, <1>9 DEF BooksInv, PaidIsDerived

LEMMA TypeAfter ==
  ASSUME TypeOK, NEW s \in Sessions, End(s), pay' \in [Payments -> PayRows], status' \in [Docs -> Statuses], paid' \in [Payables -> Nat],
         drained' \subseteq Sessions
  PROVE  TypeOK'
  BY Ends DEF TypeOK, PayRows, States, Statuses

LEMMA PaymentKeeps == ASSUME IInv, NEW s \in Sessions, WritePayment(s) \/ DeletePayment(s) PROVE IInv'
<1>0. TypeOK /\ RowsAreSound /\ Minds(s) /\ at[s] = "writing" /\ Holding(s) /\ Stands(s) /\ End(s)
  BY DEF IInv, WorkIsSound, WritePayment, DeletePayment, Doing
<1>1. /\ Minds(s)' /\ at'[s] # "writing"
      /\ \A u \in Sessions \ {s} : Untouched(u) /\ (req[u].op \in {"create", "refund"} => req'[s].p # req[u].p)
      /\ \A p \in Payments : lock'[p] # Nothing => lock'[p] = lock[p]
  BY <1>0, Over
<1>2. WritePayment(s) => Wrote(s) /\ SyncPaymentState(Before(req[s]) \cup DocsOf(req[s].in.alloc))
  BY <1>0, Written DEF WritePayment
<1>3. DeletePayment(s) => TookOff(s) /\ SyncPaymentState(Before(req[s]))
  BY <1>0, Deleted DEF DeletePayment
<1>4. RowsAreSound' /\ \A p \in Payments : Known(p) => Known(p)'
  BY <1>0, <1>1, <1>2, <1>3, WroteRows, TookOffRows
<1>5. BooksInv' /\ paid' \in [Payables -> Nat]
  BY <1>0, <1>2, <1>3, WroteBooks, TookOffBooks
<1>6. pay' \in [Payments -> PayRows] /\ status' = status
  BY <1>2, <1>3 DEF Wrote, TookOff
<1>7. TypeOK'
  <2>1. status' \in [Docs -> Statuses]
    BY <1>0, <1>6, Typed
  <2>2. drained' \subseteq Sessions
    BY DEF WritePayment, DeletePayment, Drain
  <2> QED BY <1>0, <1>5, <1>6, <2>1, <2>2, TypeAfter
<1>8. \A u \in Sessions \ {s} : LeavesAlone(u)
  BY <1>0, PaymentsLeaveAlone
<1>9. ASSUME NEW u \in Sessions \ {s}, req[u].op \in {"create", "refund"} PROVE pay'[req[u].p] = pay[req[u].p]
  <2>0. req[s] \in Requests /\ req[s].p \in Payments
    BY <1>2, <1>3 DEF Wrote, TookOff
  <2>1. Minds(u) /\ (req[u] \in Requests \/ req[u] = NoRequest)
    BY DEF IInv, WorkIsSound, TypeOK
  <2>2. req[u] \in Requests
    BY <2>1, <1>9, NoRequest_ DEF Nothing
  <2>3. req[u].p \in Payments /\ pay[req[u].p] = Unborn /\ req[s].p # req[u].p
    BY <1>9, <2>1, <2>2, Asked_ DEF Minds, Writes
  <2>4. pay[req[u].p].state = "unborn"
    BY <2>3 DEF Unborn
  <2>5. CASE WritePayment(s)
    <3>1. req[u].p # req[s].in.of
      BY <1>2, <2>3, <2>4, <2>5, Rows_ DEF Wrote
    <3> QED BY <1>2, <2>3, <2>5, <3>1 DEF Wrote
  <2>6. CASE DeletePayment(s)
    BY <1>3, <2>3, <2>4, <2>6 DEF TookOff
  <2> QED BY <2>5, <2>6
<1>10. WorkIsSound'
  BY <1>1, <1>4, <1>8, <1>9, WorkStays
<1> QED BY <1>4, <1>5, <1>7, <1>10 DEF IInv, BooksInv

LEMMA DocumentKeeps == ASSUME IInv, NEW s \in Sessions, FinalizeDocument(s) \/ CancelDocument(s) PROVE IInv'
<1>0. TypeOK /\ RowsAreSound /\ at[s] = "writing" /\ End(s)
  BY DEF IInv, FinalizeDocument, CancelDocument, Doing
<1>1. /\ Minds(s)' /\ at'[s] # "writing"
      /\ \A u \in Sessions \ {s} : Untouched(u) /\ (req[u].op \in {"create", "refund"} => req'[s].p # req[u].p)
      /\ \A p \in Payments : lock'[p] # Nothing => lock'[p] = lock[p]
  BY <1>0, Over
<1>2. BooksInv' /\ paid' \in [Payables -> Nat] /\ status' \in [Docs -> Statuses] /\ pay' = pay
  BY <1>0, DocumentBooks
<1>3. pay' \in [Payments -> PayRows]
  BY <1>0, <1>2, Typed
<1>4. TypeOK'
  <2>1. drained' \subseteq Sessions
    BY <1>0 DEF TypeOK, FinalizeDocument, CancelDocument
  <2> QED BY <1>0, <1>2, <1>3, <2>1, TypeAfter
<1>5. RowsAreSound' /\ \A p \in Payments : Known(p) => Known(p)'
  BY <1>0, <1>1, <1>2 DEF RowsAreSound, Known
<1>6. \A u \in Sessions \ {s} : LeavesAlone(u)
  BY <1>0, DocumentsLeaveAlone
<1>7. WorkIsSound'
  BY <1>1, <1>2, <1>5, <1>6, WorkStays
<1> QED BY <1>2, <1>4, <1>5, <1>7 DEF IInv, BooksInv

-----------------------------------------------------------------------------
(* The invariant holds *)

LEMMA InitHolds == ASSUME Init PROVE IInv
<1>1. \A p \in Payments : pay[p] = Unborn
  BY DEF Init
<1>u. Unborn \in PayRows /\ Unborn.state = "unborn" /\ Unborn.of = Nothing
  BY InputsSay DEF Unborn, PayRows, States, Directions
<1>2. TypeOK
  <2>1. pay \in [Payments -> PayRows] /\ status \in [Docs -> Statuses] /\ paid \in [Payables -> Nat]
    BY <1>u DEF Init, Statuses
  <2>2. lock \in [Rows -> Sessions \cup {Nothing}] /\ at \in [Sessions -> {"idle", "locking", "writing"}]
        /\ req \in [Sessions -> Requests \cup {NoRequest}] /\ seen \in [Sessions -> [left : Nat, refunded : Nat]]
    BY DEF Init
  <2>3. made \in 0 .. MaxRequests /\ drained \subseteq Sessions
    BY ConstantsAssumption DEF Init
  <2> QED BY <2>1, <2>2, <2>3 DEF TypeOK, PayRows, States, Statuses
<1>3. RowsAreSound
  <2>1. \A p \in Payments : lock[p] = Nothing
    BY DEF Init, Rows
  <2> QED BY <1>1, <1>u, <2>1 DEF RowsAreSound
<1>4. WorkIsSound
  <2> SUFFICES ASSUME NEW s \in Sessions PROVE Minds(s) /\ (at[s] = "writing" => Holding(s) /\ Stands(s))
    BY DEF WorkIsSound
  <2>1. at[s] = "idle" /\ req[s] = NoRequest /\ \A x \in Rows : lock[x] # s
    BY Rows_ DEF Init
  <2> QED BY <2>1, NoRequest_ DEF Minds, Nothing
<1>5. Kept(pay) = {}
  BY <1>1, <1>u DEF Kept
<1>6. ASSUME NEW d \in Payables PROVE Allocated(pay, d) = 0
  <2> DEFINE g == [p \in Payments |-> Settles(pay[p].alloc, d)]
  <2>1. Allocated(pay, d) = SumFunctionOnSet(g, {})
    BY <1>5 DEF Allocated
  <2>2. g \in [Payments -> Int]
    BY <1>2, Typed DEF PayRows, Allocs, Settles
  <2> HIDE DEF g
  <2> QED BY <2>1, <2>2, SumOfNone
<1>7. \A d : {n \in CreditNotes : Source[n] = d /\ Live(status, n)} = {}
  BY Rows_, ConstantsAssumption DEF Init, Live
<1>8. ASSUME NEW d PROVE Against(status, CreditNotes, d) = 0
  <2>1. Against(status, CreditNotes, d) = SumFunctionOnSet(Total, {})
    BY <1>7 DEF Against
  <2>2. Total \in [Docs -> Int]
    BY ConstantsAssumption
  <2> QED BY <2>1, <2>2, SumOfNone
<1>9. PaidIsDerived
  <2> SUFFICES ASSUME NEW d \in Payables PROVE paid[d] = AmountPaid(pay, status, d)
    BY DEF PaidIsDerived
  <2> DEFINE t == Total[d]
  <2>1. t \in Nat
    BY Rows_
  <2> HIDE DEF t
  <2>2. Min({0, t}) = 0
    BY SMTT(30), <2>1, MaxMin
  <2>3. Max({0, 0}) = 0
    BY MaxMin
  <2>4. AmountPaid(pay, status, d) = Max({0, Min({0 + 0, t})})
    BY <1>6, <1>8 DEF AmountPaid, t
  <2>5. paid[d] = 0
    BY DEF Init
  <2> QED BY <2>2, <2>3, <2>4, <2>5
<1>10. NothingOverpaid
  BY <1>6, Rows_ DEF NothingOverpaid
<1>11. CreditWithinSource
  <2> SUFFICES ASSUME NEW d \in Invoices PROVE Against(status, CreditNotes, d) <= Total[d] + Charged(status, d)
    BY DEF CreditWithinSource, Charged
  <2>1. Charged(status, d) \in Nat /\ Total[d] \in Nat
    BY <1>2, Typed, ChargedGrows, Rows_
  <2> QED BY <1>8, <2>1
<1>12. CancelledStandsAlone
  <2>1. \A d \in Docs : status[d] # "cancelled"
    BY DEF Init
  <2> QED BY <2>1 DEF CancelledStandsAlone
<1> QED BY <1>2, <1>3, <1>4, <1>9, <1>10, <1>11, <1>12 DEF IInv

LEMMA StepKeeps == ASSUME IInv, [Next]_vars PROVE IInv'
<1>1. CASE UNCHANGED vars
  <2>0. TypeOK /\ RowsAreSound /\ WorkIsSound /\ BooksInv /\ Quiet
    BY <1>1 DEF vars, IInv, BooksInv, Quiet
  <2>1. TypeOK' /\ RowsAreSound'
    BY <1>1, <2>0 DEF vars, TypeOK, RowsAreSound, Known
  <2>2. BooksInv'
    BY <2>0, QuietBooks
  <2>3. ASSUME NEW u \in Sessions PROVE Minds(u)' /\ (at'[u] = "writing" => Holding(u)' /\ Stands(u)')
    <3>1. Untouched(u) /\ LeavesAlone(u)
      BY <1>1, <2>0, QuietLeavesAlone DEF vars, Untouched
    <3>2. Minds(u) /\ (at[u] = "writing" => Holding(u) /\ Stands(u))
      BY <2>0 DEF WorkIsSound
    <3>3. Minds(u)'
      BY <1>1, <3>2 DEF vars, Minds, Known
    <3>4. at'[u] = "writing" => Holding(u)' /\ Stands(u)'
      BY <1>1, <2>0, <3>1, <3>2, StandsStays DEF vars
    <3> QED BY <3>3, <3>4
  <2>4. WorkIsSound'
    BY <2>3 DEF WorkIsSound
  <2> QED BY <2>1, <2>2, <2>4 DEF IInv, BooksInv
<1>2. ASSUME NEW s \in Sessions, NEW r \in Requests, Ask(s, r) PROVE IInv'
  BY <1>2, AskKeeps
<1>3. ASSUME NEW s \in Sessions, NEW x \in Rows, Lock(s, x) PROVE IInv'
  BY <1>3, LockKeeps
<1>4. ASSUME NEW s \in Sessions, BreakRing(s) \/ Refuse(s) PROVE IInv'
  <2>1. End(s) /\ Quiet /\ drained' = drained
    BY <1>4 DEF BreakRing, Refuse, Quiet
  <2> QED BY <2>1, QuietEndKeeps
<1>5. ASSUME NEW s \in Sessions, Decide(s) PROVE IInv'
  BY <1>5, DecideKeeps
<1>6. ASSUME NEW s \in Sessions, WritePayment(s) \/ DeletePayment(s) PROVE IInv'
  BY <1>6, PaymentKeeps
<1>7. ASSUME NEW s \in Sessions, FinalizeDocument(s) \/ CancelDocument(s) PROVE IInv'
  BY <1>7, DocumentKeeps
<1> QED BY <1>1, <1>2, <1>3, <1>4, <1>5, <1>6, <1>7 DEF Next

THEOREM Invariance == Spec => []IInv
<1>1. Init => IInv
  BY InitHolds
<1>2. IInv /\ [Next]_vars => IInv'
  BY StepKeeps
<1> QED BY <1>1, <1>2, PTL DEF Spec

(* Rows, locks and requests keep their types, whatever is asked for and however sessions interleave: the advance of a  *)
(* receipt never goes below zero (writePayment, moveRefund), and no lock is held for nobody.                           *)
THEOREM TypeCorrect == Spec => []TypeOK
<1>1. IInv => TypeOK
  BY DEF IInv
<1> QED BY <1>1, Invariance, PTL

(* However payments, edits, removals, credits and cancellations race, no document is settled beyond its total, and no  *)
(* invoice is credited beyond what it and its debit notes charge (writePayment, checkAgainstSource).                   *)
THEOREM NothingIsOversettled == Spec => []NothingOversettled
<1>1. IInv => NothingOversettled
  BY DEF IInv, NothingOversettled
<1> QED BY <1>1, Invariance, PTL

-----------------------------------------------------------------------------
(* What is kept beside the rows, if nothing turns from a receipt into a payment *)

LEMMA NoneRefunded ==
  ASSUME NEW ps \in [Payments -> PayRows], NEW x, \A r \in Kept(ps) : ps[r].of # x
  PROVE  RefundedFrom(ps, x) = 0
<1> DEFINE g == [r \in Payments |-> ps[r].amount]
<1>1. {r \in Kept(ps) : ps[r].of = x} = {}
  OBVIOUS
<1>2. RefundedFrom(ps, x) = SumFunctionOnSet(g, {})
  BY <1>1 DEF RefundedFrom
<1>3. g \in [Payments -> Int]
  BY DEF PayRows
<1> HIDE DEF g
<1> QED BY <1>2, <1>3, SumOfNone

LEMMA QuietTurns ==
  ASSUME TurnInv, Quiet, \A s \in Sessions : req'[s] = req[s] \/ (req'[s].op = "save" => req'[s].in.dir = pay[req'[s].p].dir)
  PROVE  TurnInv'
<1>1. KeepsItsWay'
  BY DEF TurnInv, Quiet, KeepsItsWay
<1>2. RefundsAreOfReceipts' /\ AdvanceIsWhatIsLeft'
  BY DEF TurnInv, Quiet, RefundsAreOfReceipts, AdvanceIsWhatIsLeft
<1> QED BY <1>1, <1>2 DEF TurnInv

LEMMA WroteTurns ==
  ASSUME IInv, TurnInv, NEW s \in Sessions, at[s] = "writing", WritePayment(s)
  PROVE  TurnInv'
<1> DEFINE r == req[s]
<1>0. TypeOK /\ RowsAreSound /\ Minds(s) /\ Stands(s) /\ End(s)
  BY DEF IInv, WorkIsSound, WritePayment
<1>1. Wrote(s)
  BY <1>0, Written
<1>2. pay \in [Payments -> PayRows] /\ status \in [Docs -> Statuses] /\ pay' \in [Payments -> PayRows]
      /\ r.p \in Payments /\ r.op \in Writes /\ r \in Requests
  BY <1>0, <1>1, Typed DEF Wrote
<1>3. /\ pay'[r.p].state = "kept" /\ pay'[r.p].dir = r.in.dir /\ pay'[r.p].amount = r.in.amount
      /\ pay'[r.p].alloc = r.in.alloc /\ pay'[r.p].of = r.in.of
      /\ r.in.of = Nothing => pay'[r.p].left = r.in.amount - Cash(r.in.alloc) - RefundedOf(r)
  BY <1>1 DEF Wrote
<1>4. r.in.of # Nothing => /\ r.in.of \in Payments /\ r.in.of # r.p /\ pay[r.in.of].state = "kept"
                           /\ pay[r.in.of].dir = "received" /\ pay[r.in.of].of = Nothing
                           /\ pay'[r.in.of] = [pay[r.in.of] EXCEPT !.left = pay[r.in.of].left - (r.in.amount - OldAmount(r))]
  BY <1>1 DEF Wrote
<1>5. \A q \in Payments \ {r.p} :
              /\ q # r.in.of => pay'[q] = pay[q]
              /\ pay'[q].state = pay[q].state /\ pay'[q].dir = pay[q].dir /\ pay'[q].amount = pay[q].amount
              /\ pay'[q].alloc = pay[q].alloc /\ pay'[q].of = pay[q].of
  BY <1>1 DEF Wrote
<1>6. WriteStands(s) /\ (r.op = "save" => pay[r.p].state = "kept" /\ pay[r.p].of = r.in.of /\ r.in.dir = pay[r.p].dir)
      /\ (r.op # "save" => pay[r.p] = Unborn /\ pay[r.p].state = "unborn" /\ pay[r.p].of = Nothing)
  BY <1>0, <1>2 DEF Stands, WriteStands, TurnInv, KeepsItsWay, Minds, Writes, Unborn
<1>7. r.in.amount \in Nat /\ r.in.alloc \in Allocs /\ pay[r.p].amount \in Nat /\ r.in.of \in Payments \cup {Nothing}
      /\ OldAmount(r) = IF r.op = "save" THEN pay[r.p].amount ELSE 0
  <2>1. r.in \in Said
    BY <1>2, Asked_
  <2> QED BY <1>2, <2>1 DEF Said, PayRows, OldAmount
<1>8. Cash(r.in.alloc) \in Nat /\ \A x : RefundedFrom(pay, x) \in Nat
  BY <1>2, <1>7, Sums DEF Statuses
<1>i. RefundsAreOfReceipts /\ AdvanceIsWhatIsLeft /\ KeepsItsWay
  BY DEF TurnInv
<1> HIDE DEF r
<1>9. KeepsItsWay'
  <2> SUFFICES ASSUME NEW u \in Sessions, req'[u].op = "save" PROVE req'[u].in.dir = pay'[req'[u].p].dir
    BY DEF KeepsItsWay
  <2>1. u # s /\ req'[u] = req[u]
    BY <1>0, Ends, NoRequest_ DEF Untouched, Nothing
  <2>2. req[u] \in Requests \/ req[u] = NoRequest
    BY <1>0 DEF TypeOK
  <2>3. req[u].p \in Payments
    BY <2>1, <2>2, Asked_, NoRequest_ DEF Writes, Nothing
  <2>4. req[u].in.dir = pay[req[u].p].dir
    BY <1>i, <2>1 DEF KeepsItsWay
  <2>5. CASE req[u].p = r.p
    <3>1. Minds(u)
      BY DEF IInv, WorkIsSound
    <3>2. pay[r.p] # Unborn
      BY <2>1, <2>5, <3>1 DEF Minds, Known
    <3> QED BY <1>3, <1>6, <2>1, <2>4, <2>5, <3>2
  <2>6. CASE req[u].p # r.p
    BY <1>5, <2>1, <2>3, <2>4, <2>6
  <2> QED BY <2>5, <2>6
<1>10. RefundsAreOfReceipts'
  <2> SUFFICES ASSUME NEW x \in Payments, pay'[x].state = "kept", pay'[x].of # Nothing
               PROVE  pay'[x].amount > 0 /\ pay'[pay'[x].of].state = "kept" /\ pay'[pay'[x].of].dir = "received"
    BY DEF RefundsAreOfReceipts, Kept
  <2>1. CASE x = r.p
    <3>1. r.in.amount > 0
      <4>1. r.in.amount > 0 \/ \E d \in Payables : r.in.alloc[d].adj > 0
        BY <1>6 DEF WriteStands, r
      <4>2. DocsOf(r.in.alloc) = {}
        BY <1>3, <1>6, <2>1 DEF WriteStands, RefundFits, r
      <4>3. \A d \in Payables : ~(r.in.alloc[d].adj > 0)
        BY <1>7, <4>2 DEF DocsOf, Settles, Allocs
      <4> QED BY <4>1, <4>3
    <3>2. pay'[r.in.of].state = "kept" /\ pay'[r.in.of].dir = "received"
      BY <1>3, <1>4, <1>5, <2>1
    <3> QED BY <1>3, <2>1, <3>1, <3>2
  <2>2. CASE x # r.p
    <3>1. pay[x].state = "kept" /\ pay'[x].of = pay[x].of /\ pay'[x].amount = pay[x].amount /\ pay[x].of \in Payments
      BY <1>2, <1>5, <2>2 DEF PayRows
    <3>2. pay[x].amount > 0 /\ pay[pay[x].of].state = "kept" /\ pay[pay[x].of].dir = "received"
      BY <1>i, <3>1 DEF RefundsAreOfReceipts, Kept
    <3>3. CASE pay[x].of = r.p
      <4>1. r.op = "save"
        BY <1>6, <3>2, <3>3
      <4> QED BY <1>3, <1>6, <3>1, <3>2, <3>3, <4>1
    <3>4. CASE pay[x].of # r.p
      BY <1>5, <3>1, <3>2, <3>4
    <3> QED BY <3>3, <3>4
  <2> QED BY <2>1, <2>2
<1>11. ASSUME NEW x
       PROVE  RefundedFrom(pay', x) = RefundedFrom(pay, x) - (IF r.op = "save" /\ r.in.of = x THEN pay[r.p].amount ELSE 0)
                                                           + (IF r.in.of = x THEN r.in.amount ELSE 0)
  <2>1. RefundedFrom(pay', x) = RefundedFrom(pay, x) - (IF pay[r.p].state = "kept" /\ pay[r.p].of = x THEN pay[r.p].amount ELSE 0)
                                                     + (IF pay'[r.p].state = "kept" /\ pay'[r.p].of = x THEN pay'[r.p].amount ELSE 0)
    BY <1>2, <1>5, RefundedMoves
  <2>2. (pay[r.p].state = "kept" /\ pay[r.p].of = x) <=> (r.op = "save" /\ r.in.of = x)
    BY <1>6
  <2>3. (pay'[r.p].state = "kept" /\ pay'[r.p].of = x) <=> r.in.of = x
    BY <1>3
  <2> QED BY <1>3, <2>1, <2>2, <2>3
<1>12. AdvanceIsWhatIsLeft'
  <2> SUFFICES ASSUME NEW x \in Payments, pay'[x].state = "kept", pay'[x].of = Nothing
               PROVE  pay'[x].left = pay'[x].amount - Cash(pay'[x].alloc) - RefundedFrom(pay', x)
    BY DEF AdvanceIsWhatIsLeft, Kept
  <2>0. x # Nothing
    BY Rows_
  <2>1. CASE x = r.p
    <3>1. r.in.of = Nothing
      BY <1>3, <2>1
    <3>2. RefundedFrom(pay', x) = RefundedFrom(pay, x)
      <4>1. r.in.of # x
        BY <2>0, <3>1
      <4>2. RefundedFrom(pay', x) = RefundedFrom(pay, x) - 0 + 0
        BY <1>11, <4>1
      <4> QED BY <1>8, <4>2
    <3>3. RefundedFrom(pay, x) = RefundedOf(r)
      <4>1. CASE r.op = "save" /\ r.in.dir = "received"
        BY <2>1, <4>1 DEF RefundedOf
      <4>2. CASE ~(r.op = "save" /\ r.in.dir = "received")
        <5>1. ~(pay[x].state = "kept" /\ pay[x].dir = "received")
          BY <1>6, <2>1, <4>2
        <5>2. \A q \in Kept(pay) : pay[q].of # x
          BY <1>i, <2>0, <5>1 DEF RefundsAreOfReceipts
        <5>3. RefundedFrom(pay, x) = 0
          BY <1>2, <5>2, NoneRefunded
        <5> QED BY <4>2, <5>3 DEF RefundedOf
      <4> QED BY <4>1, <4>2
    <3> QED BY <1>3, <2>1, <3>1, <3>2, <3>3
  <2>2. CASE x # r.p
    <3>1. pay[x].state = "kept" /\ pay[x].of = Nothing /\ pay'[x].amount = pay[x].amount /\ pay'[x].alloc = pay[x].alloc
      BY <1>5, <2>2
    <3>2. pay[x].left = pay[x].amount - Cash(pay[x].alloc) - RefundedFrom(pay, x)
      BY <1>i, <3>1 DEF AdvanceIsWhatIsLeft, Kept
    <3>3. CASE x = r.in.of
      <4> DEFINE old == IF r.op = "save" THEN pay[r.p].amount ELSE 0
                 n == r.in.amount
                 a == RefundedFrom(pay, x)
                 b == RefundedFrom(pay', x)
                 l == pay[x].left
                 m == pay'[x].left
                 t == pay[x].amount
                 c == Cash(pay[x].alloc)
      <4>1. b = a - old + n
        BY <1>11, <3>3
      <4>2. m = l - (n - old)
        <5>1. pay'[x] = [pay[x] EXCEPT !.left = pay[x].left - (r.in.amount - OldAmount(r))]
          BY <1>4, <2>0, <3>3
        <5>2. pay[x] \in PayRows
          BY <1>2
        <5> QED BY <1>7, <5>1, <5>2 DEF PayRows
      <4>3. l = t - c - a
        BY <3>2
      <4>4. old \in Nat /\ n \in Nat /\ a \in Nat /\ t \in Nat /\ c \in Nat
        <5>1. pay[x].alloc \in Allocs /\ pay[x].amount \in Nat
          BY <1>2 DEF PayRows
        <5> QED BY <1>2, <1>7, <1>8, <5>1, Sums DEF Statuses
      <4> HIDE DEF old, n, a, b, l, m, t, c
      <4>5. m = t - c - b
        BY <4>1, <4>2, <4>3, <4>4
      <4> QED BY <3>1, <4>5 DEF m, t, c, b
    <3>4. CASE x # r.in.of
      <4>1. RefundedFrom(pay', x) = RefundedFrom(pay, x) - 0 + 0
        BY <1>11, <3>4
      <4>2. RefundedFrom(pay', x) = RefundedFrom(pay, x)
        BY <1>8, <4>1
      <4>3. pay'[x] = pay[x]
        BY <1>5, <2>2, <3>4
      <4> QED BY <3>2, <4>2, <4>3
    <3> QED BY <3>3, <3>4
  <2> QED BY <2>1, <2>2
<1> QED BY <1>9, <1>10, <1>12 DEF TurnInv

LEMMA TookOffTurns ==
  ASSUME IInv, TurnInv, NEW s \in Sessions, at[s] = "writing", DeletePayment(s)
  PROVE  TurnInv'
<1> DEFINE r == req[s]
           of == pay[r.p].of
<1>0. TypeOK /\ RowsAreSound /\ Minds(s) /\ Stands(s) /\ End(s)
  BY DEF IInv, WorkIsSound, DeletePayment
<1>1. TookOff(s)
  BY <1>0, Deleted
<1>2. pay \in [Payments -> PayRows] /\ status \in [Docs -> Statuses] /\ pay' \in [Payments -> PayRows]
      /\ r.p \in Payments /\ r.op = "remove" /\ pay[r.p].state = "kept"
  BY <1>0, <1>1, Typed DEF TookOff
<1>3. pay'[r.p].state = "gone" /\ pay'[r.p].dir = pay[r.p].dir
  <2>1. pay'[r.p] = [pay[r.p] EXCEPT !.state = "gone"] /\ pay[r.p] \in PayRows
    BY <1>1, <1>2 DEF TookOff
  <2> QED BY <2>1 DEF PayRows
<1>4. of # Nothing => of \in Payments /\ of # r.p
  BY <1>1 DEF TookOff
<1>4a. of # Nothing /\ pay[of].state = "kept" => pay'[of] = [pay[of] EXCEPT !.left = pay[of].left + pay[r.p].amount]
  BY <1>1 DEF TookOff
<1>5. \A q \in Payments \ {r.p} :
              /\ q # of => pay'[q] = pay[q]
              /\ pay'[q].state = pay[q].state /\ pay'[q].dir = pay[q].dir /\ pay'[q].amount = pay[q].amount
              /\ pay'[q].alloc = pay[q].alloc /\ pay'[q].of = pay[q].of
  BY <1>1 DEF TookOff
<1>6. pay[r.p].dir = "received" => RefundedFrom(pay, r.p) = 0
  BY <1>0, <1>2 DEF Stands, RemoveStands, RemoveFits
<1>7. pay[r.p].amount \in Nat /\ \A x : RefundedFrom(pay, x) \in Nat
  BY <1>2, Sums DEF Statuses, PayRows
<1>i. RefundsAreOfReceipts /\ AdvanceIsWhatIsLeft /\ KeepsItsWay
  BY DEF TurnInv
<1> HIDE DEF r, of
<1>8. KeepsItsWay'
  <2> SUFFICES ASSUME NEW u \in Sessions, req'[u].op = "save" PROVE req'[u].in.dir = pay'[req'[u].p].dir
    BY DEF KeepsItsWay
  <2>1. u # s /\ req'[u] = req[u]
    BY <1>0, Ends, NoRequest_ DEF Untouched, Nothing
  <2>2. req[u] \in Requests \/ req[u] = NoRequest
    BY <1>0 DEF TypeOK
  <2>3. req[u].p \in Payments
    BY <2>1, <2>2, Asked_, NoRequest_ DEF Writes, Nothing
  <2>4. req[u].in.dir = pay[req[u].p].dir
    BY <1>i, <2>1 DEF KeepsItsWay
  <2> QED BY <1>3, <1>5, <2>1, <2>3, <2>4
<1>9. RefundsAreOfReceipts'
  <2> SUFFICES ASSUME NEW x \in Payments, pay'[x].state = "kept", pay'[x].of # Nothing
               PROVE  pay'[x].amount > 0 /\ pay'[pay'[x].of].state = "kept" /\ pay'[pay'[x].of].dir = "received"
    BY DEF RefundsAreOfReceipts, Kept
  <2>1. x # r.p
    BY <1>3
  <2>2. pay[x].state = "kept" /\ pay'[x].of = pay[x].of /\ pay'[x].amount = pay[x].amount /\ pay[x].of \in Payments
    BY <1>2, <1>5, <2>1 DEF PayRows
  <2>3. pay[x].amount > 0 /\ pay[pay[x].of].state = "kept" /\ pay[pay[x].of].dir = "received"
    BY <1>i, <2>2 DEF RefundsAreOfReceipts, Kept
  <2>4. pay[x].of # r.p
    <3> SUFFICES ASSUME pay[x].of = r.p PROVE FALSE
      OBVIOUS
    <3>1. RefundedFrom(pay, r.p) = 0 /\ x \in Kept(pay)
      BY <1>6, <2>2, <2>3 DEF Kept
    <3>2. pay[x].amount = 0
      BY <1>2, <3>1, NothingRefunded
    <3> QED BY <2>3, <3>2
  <2> QED BY <1>5, <2>2, <2>3, <2>4
<1>10. ASSUME NEW x
       PROVE  RefundedFrom(pay', x) = RefundedFrom(pay, x) - (IF of = x THEN pay[r.p].amount ELSE 0)
  <2>1. RefundedFrom(pay', x) = RefundedFrom(pay, x) - (IF pay[r.p].state = "kept" /\ pay[r.p].of = x THEN pay[r.p].amount ELSE 0)
                                                     + (IF pay'[r.p].state = "kept" /\ pay'[r.p].of = x THEN pay'[r.p].amount ELSE 0)
    BY <1>2, <1>5, RefundedMoves
  <2> QED BY <1>2, <1>3, <1>7, <2>1 DEF of
<1>11. AdvanceIsWhatIsLeft'
  <2> SUFFICES ASSUME NEW x \in Payments, pay'[x].state = "kept", pay'[x].of = Nothing
               PROVE  pay'[x].left = pay'[x].amount - Cash(pay'[x].alloc) - RefundedFrom(pay', x)
    BY DEF AdvanceIsWhatIsLeft, Kept
  <2>0. x # Nothing /\ x # r.p
    BY <1>3, Rows_
  <2>1. pay[x].state = "kept" /\ pay[x].of = Nothing /\ pay'[x].amount = pay[x].amount /\ pay'[x].alloc = pay[x].alloc
    BY <1>5, <2>0
  <2>2. pay[x].left = pay[x].amount - Cash(pay[x].alloc) - RefundedFrom(pay, x)
    BY <1>i, <2>1 DEF AdvanceIsWhatIsLeft, Kept
  <2>3. CASE x = of
    <3> DEFINE n == pay[r.p].amount
               a == RefundedFrom(pay, x)
               b == RefundedFrom(pay', x)
               l == pay[x].left
               m == pay'[x].left
               t == pay[x].amount
               c == Cash(pay[x].alloc)
    <3>1. b = a - n
      BY <1>10, <2>3
    <3>2. m = l + n
      <4>1. pay'[x] = [pay[x] EXCEPT !.left = pay[x].left + pay[r.p].amount] /\ pay[x] \in PayRows
        BY <1>2, <1>4a, <2>0, <2>1, <2>3
      <4> QED BY <4>1 DEF PayRows
    <3>3. l = t - c - a
      BY <2>2
    <3>4. n \in Nat /\ a \in Nat /\ t \in Nat /\ c \in Nat
      <4>1. pay[x].alloc \in Allocs /\ pay[x].amount \in Nat
        BY <1>2 DEF PayRows
      <4> QED BY <1>2, <1>7, <4>1, Sums DEF Statuses
    <3> HIDE DEF n, a, b, l, m, t, c
    <3>5. m = t - c - b
      BY <3>1, <3>2, <3>3, <3>4
    <3> QED BY <2>1, <3>5 DEF m, t, c, b
  <2>4. CASE x # of
    <3>1. RefundedFrom(pay', x) = RefundedFrom(pay, x) - 0
      BY <1>10, <2>4
    <3>2. RefundedFrom(pay', x) = RefundedFrom(pay, x)
      BY <1>7, <3>1
    <3>3. pay'[x] = pay[x]
      BY <1>5, <2>0, <2>4
    <3> QED BY <2>2, <3>2, <3>3
  <2> QED BY <2>3, <2>4
<1> QED BY <1>8, <1>9, <1>11 DEF TurnInv

LEMMA InitTurns == ASSUME Init PROVE TurnInv
<1>1. \A p \in Payments : pay[p] = Unborn
  BY DEF Init
<1>2. Kept(pay) = {}
  BY <1>1 DEF Kept, Unborn
<1>3. \A s \in Sessions : req[s].op # "save"
  BY NoRequest_ DEF Init, Nothing
<1> QED BY <1>2, <1>3 DEF TurnInv, KeepsItsWay, RefundsAreOfReceipts, AdvanceIsWhatIsLeft

LEMMA StepTurns == ASSUME ~MayTurn, IInv, TurnInv, [Next]_vars PROVE TurnInv'
<1>0. TypeOK
  BY DEF IInv
<1>1. CASE UNCHANGED vars
  BY <1>1, QuietTurns DEF vars, Quiet
<1>2. ASSUME NEW s \in Sessions, NEW r \in Requests, Ask(s, r) PROVE TurnInv'
  <2>1. Quiet /\ req' = [req EXCEPT ![s] = r] /\ (r.op = "save" => r.in.dir = pay[r.p].dir)
    BY <1>2 DEF Ask, Possible, Quiet
  <2>2. \A u \in Sessions : req'[u] = req[u] \/ (req'[u].op = "save" => req'[u].in.dir = pay[req'[u].p].dir)
    BY <1>0, <2>1 DEF TypeOK
  <2> QED BY <2>1, <2>2, QuietTurns
<1>3. ASSUME NEW s \in Sessions, NEW x \in Rows, Lock(s, x) PROVE TurnInv'
  BY <1>3, QuietTurns DEF Lock, Quiet
<1>4. ASSUME NEW s \in Sessions, End(s), Quiet PROVE TurnInv'
  <2>1. \A u \in Sessions : req'[u] = req[u] \/ req'[u] = NoRequest
    BY <1>0, <1>4, Ends DEF Untouched
  <2>2. \A u \in Sessions : req'[u] = req[u] \/ (req'[u].op = "save" => req'[u].in.dir = pay[req'[u].p].dir)
    BY <2>1, NoRequest_ DEF Nothing
  <2> QED BY <1>4, <2>2, QuietTurns
<1>5. ASSUME NEW s \in Sessions, Decide(s) PROVE TurnInv'
  BY <1>5, QuietTurns DEF Decide, Quiet
<1>6. ASSUME NEW s \in Sessions, WritePayment(s) PROVE TurnInv'
  BY <1>6, WroteTurns DEF WritePayment, Doing
<1>7. ASSUME NEW s \in Sessions, DeletePayment(s) PROVE TurnInv'
  BY <1>7, TookOffTurns DEF DeletePayment, Doing
<1>8. ASSUME NEW s \in Sessions, FinalizeDocument(s) \/ CancelDocument(s) PROVE TurnInv'
  <2>1. pay' = pay /\ End(s)
    BY <1>8 DEF FinalizeDocument, CancelDocument
  <2>2. \A u \in Sessions : req'[u] = req[u] \/ req'[u] = NoRequest
    BY <1>0, <2>1, Ends DEF Untouched
  <2>3. KeepsItsWay'
    BY <2>1, <2>2, NoRequest_ DEF TurnInv, KeepsItsWay, Nothing
  <2> QED BY <2>1, <2>3 DEF TurnInv, RefundsAreOfReceipts, AdvanceIsWhatIsLeft
<1>9. ASSUME NEW s \in Sessions, BreakRing(s) \/ Refuse(s) PROVE TurnInv'
  BY <1>4, <1>9 DEF BreakRing, Refuse, Quiet
<1> QED BY <1>1, <1>2, <1>3, <1>5, <1>6, <1>7, <1>8, <1>9 DEF Next

LEMMA TurnInvariance == ~MayTurn => (Spec => [](IInv /\ TurnInv))
<1> SUFFICES ASSUME ~MayTurn PROVE Spec => [](IInv /\ TurnInv)
  OBVIOUS
<1>1. Init => IInv /\ TurnInv
  BY InitHolds, InitTurns
<1>2. (IInv /\ TurnInv) /\ [Next]_vars => (IInv /\ TurnInv)'
  BY StepKeeps, StepTurns
<1> QED BY <1>1, <1>2, PTL DEF Spec

(* What is kept beside the rows it is derived from agrees with them at all times (syncPaymentState, moveRefund), and   *)
(* nothing on the books refers to what was taken off them (changeStatus, deletePayment).  A save that turns a receipt  *)
(* into a payment is left out: it breaks the receipt's refunds (writePayment does not look at them then).              *)
THEOREM BooksAlwaysAgree == ~MayTurn => (Spec => []BooksAgree)
<1> SUFFICES ASSUME ~MayTurn PROVE Spec => []BooksAgree
  OBVIOUS
<1>1. IInv /\ TurnInv => BooksAgree
  BY DEF IInv, TurnInv, BooksAgree, RefundsAreOfReceipts, RefundsHaveTheirReceipt
<1> QED BY <1>1, TurnInvariance, PTL

-----------------------------------------------------------------------------
(* Rows are locked in one order *)

\* An earlier step of an ordinary path comes above a later one.
LEMMA PathGoesDown ==
  ASSUME TypeOK, NEW r \in Requests, r.op \in {"create", "save", "remove"}, r.in.of = Nothing,
         NEW i \in DOMAIN Path(r), NEW j \in DOMAIN Path(r), i < j, NEW x \in Path(r)[i], NEW y \in Path(r)[j]
  PROVE  \/ r.op = "remove" /\ x \in Payments /\ x = r.p /\ y = pay[x].of
         \/ x \in Payments /\ y \in Accounts \cup Docs
         \/ x \in Accounts /\ y \in Docs
<1>a. \A alloc : DocsOf(alloc) \subseteq Docs
  BY Rows_ DEF DocsOf
<1>b. Receipt(r.in.of) = {} /\ \A of : Receipt(of) \subseteq {of}
  BY DEF Receipt
<1>c. r.p \in {p \in Payments : r.op \in {"save", "remove"}} \/ r.op = "create"
  BY Asked_ DEF Writes
<1>1. CASE r.op = "create"
  <2>1. r.in.acc \in Accounts
    BY <1>1, Asked_ DEF Writes
  <2>2. (i = 1 /\ j = 2) \/ j = 3
    BY <1>1, PathIs, PathSteps
  <2>3. j # 3 /\ (i = 1 => x = r.in.acc) /\ (j = 2 => y \in DocsOf(r.in.alloc))
    BY <1>1, <1>b, PathIs, PathSteps
  <2> QED BY <1>a, <2>1, <2>2, <2>3
<1>2. CASE r.op = "save" /\ pay[r.p].state = "kept"
  <2>1. r.in.acc \in Accounts /\ r.p \in Payments
    BY <1>2, Asked_ DEF Writes
  <2>2. i \in 1 .. 4 /\ j \in 1 .. 4
    BY <1>2, PathIs, PathSteps
  <2>3. /\ j # 4
        /\ (i = 1 => x = r.p) /\ (i = 2 => x = r.in.acc)
        /\ (j = 2 => y = r.in.acc) /\ (j = 3 => y \in DocsOf(pay[r.p].alloc) \cup DocsOf(r.in.alloc))
    BY <1>2, <1>b, PathIs, PathSteps
  <2> QED BY <1>a, <2>1, <2>2, <2>3
<1>3. CASE r.op = "save" /\ pay[r.p].state # "kept"
  BY <1>3, PathIs, PathSteps
<1>4. CASE r.op = "remove"
  <2>1. r.p \in Payments
    BY <1>4, Asked_
  <2>2. i \in 1 .. 3 /\ j \in 1 .. 3
    BY <1>4, PathIs, PathSteps
  <2>3. (i = 1 => x = r.p) /\ (i = 2 => x \in Receipt(pay[r.p].of)) /\ (j = 2 => y = pay[r.p].of) /\ (j = 3 => y \in DocsOf(pay[r.p].alloc))
    BY <1>4, <1>b, PathIs, PathSteps
  <2>4. i = 2 => x \in Payments
    BY <2>1, <2>3, Typed DEF PayRows, Receipt
  <2> QED BY <1>4, <1>a, <2>1, <2>2, <2>3, <2>4
<1> QED BY <1>1, <1>2, <1>3, <1>4

\* The rows of a path are rows, and a request to save or remove a payment locks it first.
LEMMA PathStarts ==
  ASSUME NEW r \in Requests, r.op \in {"save", "remove"}
  PROVE  1 \in DOMAIN Path(r) /\ Path(r)[1] = {r.p} /\ DOMAIN Path(r) \subseteq 1 .. 4
<1>1. CASE r.op = "save" /\ pay[r.p].state = "kept"
  BY <1>1, PathIs, PathSteps
<1>2. CASE r.op = "save" /\ pay[r.p].state # "kept"
  BY <1>2, PathIs, PathSteps
<1>3. CASE r.op = "remove"
  BY <1>3, PathIs, PathSteps
<1> QED BY <1>1, <1>2, <1>3

LEMMA PathShort == ASSUME NEW r \in Requests, r.op \in {"create", "save", "remove"} PROVE DOMAIN Path(r) \subseteq 1 .. 4
<1>1. r.op = "create" => DOMAIN Path(r) = {1, 2, 3}
  BY PathIs, PathSteps
<1> QED BY <1>1, PathStarts

\* What a session holds and is still to lock stays in order while others work.
LEMMA OrderStays ==
  ASSUME TypeOK, NEW s \in Sessions, req[s] \in Requests, OwnFirst(s), InOrder(s), Untouched(s),
         \A p \in Payments : lock[p] = s => pay'[p] = pay[p]
  PROVE  OwnFirst(s)' /\ InOrder(s)'
<1> DEFINE r == req[s]
<1>1. at'[s] = at[s] /\ req'[s] = r /\ \A x \in Rows : lock'[x] = s <=> lock[x] = s
  BY DEF Untouched
<1>2. r.op \in {"save", "remove"} => r.p \in Payments /\ r.p \in Rows
  BY Asked_ DEF Writes, Rows
<1>3. OwnFirst(s)'
  BY <1>1, <1>2 DEF OwnFirst
<1>4. SUFFICES ASSUME Ordinary(s)', NEW x \in Rows, lock[x] = s, NEW y \in StillToLock(s)' PROVE Above(s, x, y)'
  BY <1>1, <1>3 DEF InOrder
<1>5. Ordinary(s)
  BY <1>1, <1>4 DEF Ordinary
<1>6. r.op \in {"save", "remove"} => pay'[r.p] = pay[r.p]
  BY <1>2, <1>4 DEF OwnFirst
<1>7. Path(r)' = Path(r)
  BY <1>1, <1>5, <1>6 DEF Ordinary, Path, WritePath, Before
<1>8. y \in StillToLock(s)
  BY <1>1, <1>4, <1>7 DEF StillToLock, Missing
<1>9. Above(s, x, y)
  BY <1>4, <1>5, <1>8 DEF InOrder
<1>10. r.op = "remove" /\ x = r.p => pay'[x] = pay[x]
  BY <1>6
<1> QED BY <1>1, <1>9, <1>10 DEF Above

\* A session locks its rows from the top.
LEMMA LockInOrder ==
  ASSUME IInv, NEW s \in Sessions, OwnFirst(s), InOrder(s), NEW x \in Rows, Lock(s, x)
  PROVE  OwnFirst(s)' /\ InOrder(s)'
<1> DEFINE r == req[s]
<1>0. TypeOK /\ Minds(s)
  BY DEF IInv, WorkIsSound
<1>1. Wants(s, x) /\ lock' = [lock EXCEPT ![x] = s] /\ pay' = pay /\ at' = at /\ req' = req /\ at[s] = "locking"
  BY DEF Lock, Wants
<1>2. r \in Requests
  BY <1>0, <1>1 DEF Minds
<1>3. lock'[x] = s /\ \A y \in Rows \ {x} : lock'[y] = lock[y]
  BY <1>0, <1>1 DEF TypeOK
<1>4. PICK i \in DOMAIN Path(r) :
        /\ x \in Missing(s, Path(r)[i]) /\ \A y \in Missing(s, Path(r)[i]) \ {x} : Earlier(x, y)
        /\ \A j \in 1 .. i - 1 : Missing(s, Path(r)[j]) = {}
  BY <1>1 DEF Wants
<1>5. x \in Path(r)[i] /\ \A j \in 1 .. i - 1 : \A y \in Path(r)[j] : lock[y] = s
  BY <1>4 DEF Missing
<1>6. OwnFirst(s)'
  <2> SUFFICES ASSUME r.op \in {"save", "remove"} PROVE lock'[r.p] = s
    BY <1>1 DEF OwnFirst
  <2>1. Path(r)[1] = {r.p} /\ i \in 1 .. 4 /\ r.p \in Rows
    BY <1>2, PathStarts, Asked_ DEF Writes, Rows
  <2>2. CASE i = 1
    BY <1>3, <1>5, <2>1, <2>2
  <2>3. CASE i # 1
    <3>1. 1 \in 1 .. i - 1
      BY <2>1, <2>3
    <3>2. lock[r.p] = s
      BY <1>5, <2>1, <3>1
    <3> QED BY <1>3, <2>1, <3>2
  <2> QED BY <2>2, <2>3
<1>7. Path(r)' = Path(r)
  BY <1>1 DEF Path, WritePath, Before
<1>8. ASSUME Ordinary(s), NEW z \in Rows, lock'[z] = s, NEW y \in StillToLock(s)' PROVE Above(s, z, y)
  <2>0. PICK j \in DOMAIN Path(r) : y \in Path(r)[j] /\ lock'[y] # s /\ y \in Rows
    BY <1>1, <1>7, <1>8 DEF StillToLock, Missing
  <2>1. y # x /\ lock[y] # s
    BY <1>3, <2>0
  <2>2. CASE z # x
    <3>1. lock[z] = s /\ y \in StillToLock(s)
      BY <1>3, <1>8, <2>0, <2>1, <2>2 DEF StillToLock, Missing
    <3> QED BY <1>8, <3>1 DEF InOrder
  <2>3. CASE z = x
    <3>1. i \in Nat /\ j \in Nat /\ j >= 1
      BY <1>2, <2>0, <1>8, PathShort DEF Ordinary
    <3>2. ~(j < i)
      <4> SUFFICES ASSUME j < i PROVE FALSE
        OBVIOUS
      <4>1. j \in 1 .. i - 1
        BY <3>1
      <4> QED BY <1>5, <2>0, <2>1, <4>1
    <3>3. CASE j = i
      <4>1. Earlier(x, y)
        BY <1>4, <2>0, <2>1, <3>3 DEF Missing
      <4> QED BY <2>3, <4>1 DEF Above
    <3>4. CASE i < j
      <4>1. \/ r.op = "remove" /\ x \in Payments /\ x = r.p /\ y = pay[x].of
            \/ x \in Payments /\ y \in Accounts \cup Docs
            \/ x \in Accounts /\ y \in Docs
        BY <1>0, <1>2, <1>5, <1>8, <2>0, <3>4, PathGoesDown DEF Ordinary
      <4> QED BY <2>0, <2>3, <4>1 DEF Above, Rows
    <3> QED BY <3>1, <3>2, <3>3, <3>4
  <2> QED BY <2>2, <2>3
<1>9. InOrder(s)'
  BY <1>1, <1>8 DEF InOrder, Ordinary, Above
<1> QED BY <1>6, <1>9

LEMMA StepsInOrder == ASSUME IInv, LocksInOrder, [Next]_vars PROVE LocksInOrder'
<1>0. TypeOK /\ WorkIsSound /\ \A s \in Sessions : OwnFirst(s) /\ InOrder(s)
  BY DEF IInv, LocksInOrder
<1>q. ASSUME NEW u \in Sessions, Untouched(u), LeavesAlone(u) PROVE OwnFirst(u)' /\ InOrder(u)'
  <2>1. CASE req[u] \in Requests
    BY <1>0, <1>q, <2>1, OrderStays DEF LeavesAlone
  <2>2. CASE req[u] \notin Requests
    <3>1. req[u] = NoRequest /\ req'[u] = NoRequest
      BY <1>0, <1>q, <2>2 DEF TypeOK, Untouched
    <3> QED BY <3>1, NoRequest_ DEF OwnFirst, InOrder, Ordinary, Nothing
  <2> QED BY <2>1, <2>2
<1>e. ASSUME NEW s \in Sessions, End(s), \A u \in Sessions \ {s} : LeavesAlone(u) PROVE LocksInOrder'
  <2>1. (\A u \in Sessions \ {s} : Untouched(u)) /\ \A x \in Rows : lock'[x] # s
    BY <1>0, <1>e, Ends
  <2>2. OwnFirst(s)' /\ InOrder(s)'
    BY <2>1 DEF OwnFirst, InOrder
  <2> QED BY <1>e, <1>q, <2>1, <2>2 DEF LocksInOrder
<1>1. CASE UNCHANGED vars
  <2>1. \A u \in Sessions : Untouched(u) /\ LeavesAlone(u)
    BY <1>0, <1>1, QuietLeavesAlone DEF vars, Untouched, Quiet
  <2> QED BY <1>q, <2>1 DEF LocksInOrder
<1>2. ASSUME NEW s \in Sessions, NEW r \in Requests, Ask(s, r) PROVE LocksInOrder'
  <2>1. at[s] = "idle" /\ lock' = lock /\ \A u \in Sessions \ {s} : Untouched(u) /\ LeavesAlone(u)
    BY <1>0, <1>2, QuietLeavesAlone DEF Ask, TypeOK, Untouched, Quiet
  <2>2. \A x \in Rows : lock'[x] # s
    BY <1>0, <2>1 DEF WorkIsSound, Minds
  <2>3. OwnFirst(s)' /\ InOrder(s)'
    BY <2>2 DEF OwnFirst, InOrder
  <2> QED BY <1>q, <2>1, <2>3 DEF LocksInOrder
<1>3. ASSUME NEW s \in Sessions, NEW x \in Rows, Lock(s, x) PROVE LocksInOrder'
  <2>1. OwnFirst(s)' /\ InOrder(s)'
    BY <1>0, <1>3, LockInOrder
  <2>2. \A u \in Sessions \ {s} : Untouched(u) /\ LeavesAlone(u)
    BY <1>0, <1>3, QuietLeavesAlone, Rows_ DEF Lock, TypeOK, Untouched, Quiet
  <2> QED BY <1>q, <2>1, <2>2 DEF LocksInOrder
<1>4. ASSUME NEW s \in Sessions, BreakRing(s) \/ Refuse(s) PROVE LocksInOrder'
  <2>1. End(s) /\ Quiet
    BY <1>4 DEF BreakRing, Refuse, Quiet
  <2> QED BY <1>0, <1>e, <2>1, QuietLeavesAlone
<1>5. ASSUME NEW s \in Sessions, Decide(s) PROVE LocksInOrder'
  <2>1. lock' = lock /\ req' = req /\ at'[s] = "writing" /\ \A u \in Sessions \ {s} : Untouched(u) /\ LeavesAlone(u)
    BY <1>0, <1>5, QuietLeavesAlone DEF Decide, TypeOK, Untouched, Quiet
  <2>2. OwnFirst(s)' /\ InOrder(s)'
    BY <1>0, <2>1 DEF OwnFirst, InOrder, Ordinary
  <2> QED BY <1>q, <2>1, <2>2 DEF LocksInOrder
<1>6. ASSUME NEW s \in Sessions, WritePayment(s) \/ DeletePayment(s) PROVE LocksInOrder'
  <2>1. at[s] = "writing" /\ End(s)
    BY <1>6 DEF WritePayment, DeletePayment, Doing
  <2> QED BY <1>6, <1>e, <2>1, PaymentsLeaveAlone
<1>7. ASSUME NEW s \in Sessions, FinalizeDocument(s) \/ CancelDocument(s) PROVE LocksInOrder'
  <2>1. at[s] = "writing" /\ End(s)
    BY <1>7 DEF FinalizeDocument, CancelDocument, Doing
  <2> QED BY <1>7, <1>e, <2>1, DocumentsLeaveAlone
<1> QED BY <1>1, <1>2, <1>3, <1>4, <1>5, <1>6, <1>7 DEF Next

\* How far a row is from the end of the order.
Depth(x) ==
  IF x \in Payments THEN (IF pay[x].of = Nothing THEN Len(DocSeq) + 1 ELSE Len(DocSeq) + 2)
  ELSE IF x \in Accounts THEN Len(DocSeq)
  ELSE Len(DocSeq) - (CHOOSE i \in DOMAIN DocSeq : DocSeq[i] = x)

LEMMA DepthOfDocs ==
  /\ Len(DocSeq) \in Nat /\ DOMAIN DocSeq = 1 .. Len(DocSeq)
  /\ \A i \in DOMAIN DocSeq : Depth(DocSeq[i]) = Len(DocSeq) - i
<1>1. DocSeq \in Seq(Docs) /\ \A i, j \in DOMAIN DocSeq : DocSeq[i] = DocSeq[j] => i = j
  BY ConstantsAssumption DEF IsInjective
<1>2. Len(DocSeq) \in Nat /\ DOMAIN DocSeq = 1 .. Len(DocSeq)
  BY <1>1
<1>3. ASSUME NEW i \in DOMAIN DocSeq PROVE Depth(DocSeq[i]) = Len(DocSeq) - i
  <2>1. DocSeq[i] \in Docs
    BY <1>3 DEF Docs
  <2>2. DocSeq[i] \notin Payments /\ DocSeq[i] \notin Accounts
    BY <2>1, Rows_
  <2>3. (CHOOSE j \in DOMAIN DocSeq : DocSeq[j] = DocSeq[i]) = i
    BY <1>1, <1>3
  <2> QED BY <2>2, <2>3 DEF Depth
<1> QED BY <1>2, <1>3

LEMMA DepthsAreNumbers == ASSUME NEW x \in Rows PROVE Depth(x) \in Nat
<1>0. Len(DocSeq) \in Nat
  BY DepthOfDocs
<1>1. CASE x \in Payments
  BY <1>0, <1>1 DEF Depth
<1>2. CASE x \in Accounts
  BY <1>0, <1>2, Rows_ DEF Depth
<1>3. CASE x \in Docs
  <2>1. PICK i \in DOMAIN DocSeq : x = DocSeq[i]
    BY <1>3 DEF Docs
  <2>2. i \in 1 .. Len(DocSeq) /\ Depth(x) = Len(DocSeq) - i
    BY <2>1, DepthOfDocs
  <2> QED BY <1>0, <2>2
<1> QED BY <1>1, <1>2, <1>3 DEF Rows

\* Of two rows locked one after the other, the second is nearer to the end.
LEMMA AboveIsDeeper ==
  ASSUME TypeOK, RowsAreSound, NEW s \in Sessions, NEW x \in Rows, NEW y \in Rows, Above(s, x, y)
  PROVE  Depth(y) < Depth(x)
<1>0. Len(DocSeq) \in Nat
  BY DepthOfDocs
<1>a. \A z \in Docs : Depth(z) < Len(DocSeq) /\ Depth(z) \in Nat
  <2> SUFFICES ASSUME NEW z \in Docs PROVE Depth(z) < Len(DocSeq) /\ Depth(z) \in Nat
    OBVIOUS
  <2>1. PICK i \in DOMAIN DocSeq : z = DocSeq[i]
    BY DEF Docs
  <2>2. i \in 1 .. Len(DocSeq) /\ Depth(z) = Len(DocSeq) - i
    BY <2>1, DepthOfDocs
  <2> QED BY <1>0, <2>2
<1>b. \A z \in Accounts : Depth(z) = Len(DocSeq)
  BY Rows_ DEF Depth
<1>c. \A z \in Payments : Depth(z) \in Nat /\ Depth(z) > Len(DocSeq)
  BY <1>0 DEF Depth
<1>1. CASE x \in Payments /\ y \in Payments /\ y = pay[x].of
  <2>1. pay[x].of # Nothing
    BY <1>1, Rows_
  <2>2. pay[y].of = Nothing
    BY <1>1, <2>1 DEF RowsAreSound
  <2> QED BY <1>0, <1>1, <2>1, <2>2 DEF Depth
<1>2. CASE x \in Payments /\ y \in Accounts \cup Docs
  BY <1>0, <1>2, <1>a, <1>b, <1>c
<1>3. CASE x \in Accounts /\ y \in Docs
  BY <1>0, <1>3, <1>a, <1>b
<1>4. CASE Earlier(x, y)
  <2>1. PICK i \in DOMAIN DocSeq, j \in DOMAIN DocSeq : i < j /\ x = DocSeq[i] /\ y = DocSeq[j]
    BY <1>4 DEF Earlier
  <2>2. i \in 1 .. Len(DocSeq) /\ j \in 1 .. Len(DocSeq) /\ Depth(x) = Len(DocSeq) - i /\ Depth(y) = Len(DocSeq) - j
    BY <2>1, DepthOfDocs
  <2> QED BY <1>0, <2>1, <2>2
<1> QED BY <1>1, <1>2, <1>3, <1>4 DEF Above

\* A ring of ordinary requests would have no row nearest to the end.
LEMMA NoOrdinaryRing ==
  ASSUME TypeOK, RowsAreSound, LocksInOrder, NEW C \in SUBSET Sessions, C # {}, \A s \in C : Ordinary(s),
         \A s \in C : \E u \in C : WaitsFor(s, u)
  PROVE  FALSE
<1> DEFINE Wanted == {x \in Rows : lock[x] \in C /\ \E s \in C : Wants(s, x)}
           Depths == {Depth(x) : x \in Wanted}
<1>1. ASSUME NEW u \in C PROVE \E y \in Wanted : y \in StillToLock(u)
  <2>1. PICK v \in C : WaitsFor(u, v)
    OBVIOUS
  <2>2. PICK y \in Rows : lock[y] = v /\ Wants(u, y)
    BY <2>1 DEF WaitsFor
  <2>3. y \in StillToLock(u)
    BY <2>2 DEF Wants, StillToLock
  <2> QED BY <2>2, <2>3
<1>2. Depths \in SUBSET Nat /\ Depths # {}
  BY <1>1, DepthsAreNumbers
<1>3. PICK x \in Wanted : \A y \in Wanted : ~(Depth(y) < Depth(x))
  <2>1. PICK n \in Depths : \A m \in Depths : <<m, n>> \notin OpToRel(<, Nat)
    BY <1>2, NatLessThanWellFounded, WFMin
  <2>2. PICK x \in Wanted : n = Depth(x)
    OBVIOUS
  <2>3. \A m \in Depths : ~(m < n)
    BY <1>2, <2>1 DEF OpToRel
  <2> QED BY <2>2, <2>3
<1>4. PICK u \in C : lock[x] = u
  OBVIOUS
<1>5. PICK y \in Wanted : y \in StillToLock(u)
  BY <1>1
<1>6. Above(u, x, y)
  BY <1>4, <1>5 DEF LocksInOrder, InOrder
<1>7. Depth(y) < Depth(x)
  BY <1>6, AboveIsDeeper
<1> QED BY <1>3, <1>5, <1>7

(* Requests that only create, save or remove payments never wait for each other in a ring: however they interleave,   *)
(* each locks a refund, its receipt, the account and the documents in one order (writePayment's stable order).         *)
THEOREM PaymentsNeverInARing == Spec => []PaymentsNeverDeadlock
<1>1. Init => IInv /\ LocksInOrder
  <2>1. ASSUME Init, NEW s \in Sessions PROVE OwnFirst(s) /\ InOrder(s)
    <3>1. \A x \in Rows : lock[x] # s
      BY <2>1, Rows_ DEF Init
    <3> QED BY <3>1 DEF OwnFirst, InOrder
  <2> QED BY <2>1, InitHolds DEF LocksInOrder
<1>2. (IInv /\ LocksInOrder) /\ [Next]_vars => (IInv /\ LocksInOrder)'
  BY StepKeeps, StepsInOrder
<1>3. IInv /\ LocksInOrder => PaymentsNeverDeadlock
  <2> SUFFICES ASSUME IInv, LocksInOrder, NEW C \in SUBSET Sessions, Ring(C),
                      ~\E s \in C : req[s].op \in {"refund", "finalize", "cancel"} \/ req[s].in.of # Nothing
               PROVE  FALSE
    BY DEF PaymentsNeverDeadlock
  <2>1. ASSUME NEW s \in C PROVE Ordinary(s)
    <3>1. at[s] = "locking"
      BY DEF Ring, WaitsFor, Wants
    <3>2. req[s] \in Requests
      BY <3>1 DEF IInv, WorkIsSound, Minds
    <3> QED BY <3>1, <3>2, Asked_ DEF Ordinary
  <2> QED BY <2>1, NoOrdinaryRing DEF Ring, IInv
<1> QED BY <1>1, <1>2, <1>3, PTL DEF Spec

-----------------------------------------------------------------------------
(* What is paid out was held *)

\* What a request that pays out found in the account is there when it writes, or a receipt has left it.
Covered(s) == PayingOut(s) => s \in drained \/ req[s].in.amount <= Balance(req[s].in.acc, req[s].p)
Funded == \A s \in Sessions : Covered(s)

\* A payment that is not, or no longer, received into an account takes nothing from what it holds by leaving it.
LEMMA BalanceHolds ==
  ASSUME pay \in [Payments -> PayRows], pay' \in [Payments -> PayRows], NEW a, NEW e, NEW p \in Payments,
         pay[p].state = "kept" /\ pay[p].acc = a => pay[p].dir = "paid",
         pay'[p].state = "kept" => pay'[p].acc # a,
         \A q \in Payments \ {p} : /\ pay'[q].state = pay[q].state /\ pay'[q].dir = pay[q].dir
                                   /\ pay'[q].amount = pay[q].amount /\ pay'[q].acc = pay[q].acc
  PROVE  Balance(a, e) <= Balance(a, e)'
<1> DEFINE g == [q \in Payments |-> IF pay[q].dir = "received" THEN pay[q].amount ELSE -pay[q].amount]
           h == [q \in Payments |-> IF pay'[q].dir = "received" THEN pay'[q].amount ELSE -pay'[q].amount]
           S == {q \in Kept(pay) \ {e} : pay[q].acc = a}
           T == {q \in Kept(pay') \ {e} : pay'[q].acc = a}
<1>1. g \in [Payments -> Int] /\ h \in [Payments -> Int]
  BY DEF PayRows
<1>2. T = S \ {p} /\ S \in SUBSET Payments /\ T \in SUBSET Payments
  BY DEF Kept
<1>3. \A q \in T : g[q] = h[q]
  BY <1>2
<1>4. IsFiniteSet(S) /\ IsFiniteSet(T)
  BY <1>2, Finite, FS_Subset
<1>5. Balance(a, e) = Opening + SumFunctionOnSet(g, S) /\ Balance(a, e)' = Opening + SumFunctionOnSet(h, T)
  BY DEF Balance
<1>6. p \in S => g[p] <= 0
  <2>1. p \in S => pay[p].dir = "paid"
    BY DEF Kept
  <2> QED BY <2>1 DEF PayRows
<1> HIDE DEF g, h, S, T
<1>7. SumFunctionOnSet(g, T) = SumFunctionOnSet(h, T)
  BY <1>1, <1>2, <1>3, <1>4, SumAgrees
<1>8. SumFunctionOnSet(g, S) \in Int /\ SumFunctionOnSet(g, T) \in Int
  BY <1>1, <1>2, <1>4, SumIsInt
<1>9. SumFunctionOnSet(g, S) <= SumFunctionOnSet(g, T)
  <2>1. CASE p \in S
    <3>1. SumFunctionOnSet(g, S) = g[p] + SumFunctionOnSet(g, S \ {p})
      BY <1>1, <1>2, <1>4, <2>1, SumWithout
    <3>2. g[p] \in Int /\ g[p] <= 0
      BY <1>1, <1>6, <2>1
    <3> QED BY <1>2, <1>8, <3>1, <3>2
  <2>2. CASE p \notin S
    <3>1. S = T
      BY <1>2, <2>2
    <3> QED BY <1>8, <3>1
  <2> QED BY <2>1, <2>2
<1> QED BY <1>5, <1>7, <1>8, <1>9, ConstantsAssumption

LEMMA BalanceIsInt == ASSUME pay \in [Payments -> PayRows], NEW a, NEW e PROVE Balance(a, e) \in Int
<1> DEFINE g == [q \in Payments |-> IF pay[q].dir = "received" THEN pay[q].amount ELSE -pay[q].amount]
           S == {q \in Kept(pay) \ {e} : pay[q].acc = a}
<1>1. g \in [Payments -> Int]
  BY DEF PayRows
<1>2. S \in SUBSET Payments /\ IsFiniteSet(S)
  BY Finite, FS_Subset DEF Kept
<1>3. Balance(a, e) = Opening + SumFunctionOnSet(g, S)
  BY DEF Balance
<1> HIDE DEF g, S
<1>4. SumFunctionOnSet(g, S) \in Int
  BY <1>1, <1>2, SumIsInt
<1> QED BY <1>3, <1>4, ConstantsAssumption

LEMMA BalanceIsIntAfter == ASSUME pay' \in [Payments -> PayRows], NEW a, NEW e PROVE Balance(a, e)' \in Int
<1> DEFINE g == [q \in Payments |-> IF pay'[q].dir = "received" THEN pay'[q].amount ELSE -pay'[q].amount]
           S == {q \in Kept(pay') \ {e} : pay'[q].acc = a}
<1>1. g \in [Payments -> Int]
  BY DEF PayRows
<1>2. S \in SUBSET Payments /\ IsFiniteSet(S)
  BY Finite, FS_Subset DEF Kept
<1>3. Balance(a, e)' = Opening + SumFunctionOnSet(g, S)
  BY DEF Balance
<1> HIDE DEF g, S
<1>4. SumFunctionOnSet(g, S) \in Int
  BY <1>1, <1>2, SumIsInt
<1> QED BY <1>3, <1>4, ConstantsAssumption

LEMMA WroteAccounts ==
  ASSUME TypeOK, NEW s \in Sessions, Minds(s), WritePayment(s), pay' \in [Payments -> PayRows]
  PROVE  pay'[req[s].p].acc = req[s].in.acc /\ \A q \in Payments \ {req[s].p} : pay'[q].acc = pay[q].acc
<1> DEFINE r == req[s]
           row == [state |-> "kept", dir |-> r.in.dir, amount |-> r.in.amount, alloc |-> r.in.alloc, of |-> r.in.of, acc |-> r.in.acc,
                   left |-> IF r.in.of # Nothing THEN 0 ELSE r.in.amount - Cash(r.in.alloc) - seen[s].refunded]
           ps == [pay EXCEPT ![r.p] = row]
           new == seen[s].left - (r.in.amount - OldAmount(r))
<1>1. pay' = MoveRefund(ps, s, r.in.amount - OldAmount(r)) /\ r \in Requests /\ r.op \in Writes
  BY DEF WritePayment, Minds, Doing, Writes
<1>2. r.p \in Payments /\ ReceiptOf(r) = r.in.of
  BY <1>1, Asked_ DEF ReceiptOf, Writes
<1>3. pay \in [Payments -> PayRows]
  BY Typed
<1>4. row.acc = r.in.acc /\ "acc" \in DOMAIN row
  OBVIOUS
<1>9. \A q \in Payments : "acc" \in DOMAIN pay[q]
  BY <1>3 DEF PayRows
<1> HIDE DEF row
<1>5. ps[r.p] = row /\ \A q \in Payments \ {r.p} : ps[q] = pay[q]
  BY <1>2, <1>3
<1>6. DOMAIN ps = Payments
  BY <1>3
<1>7. pay' = ps \/ pay' = [ps EXCEPT ![r.in.of] = [ps[r.in.of] EXCEPT !.left = new]]
  BY <1>1, <1>2 DEF MoveRefund
<1>10. \A q \in Payments : "acc" \in DOMAIN ps[q]
  BY <1>4, <1>5, <1>9
<1> HIDE DEF ps, new
<1>8. ASSUME NEW q \in Payments PROVE pay'[q].acc = ps[q].acc
  BY <1>6, <1>7, <1>10
<1> QED BY <1>2, <1>4, <1>5, <1>8

\* Only a payment that is written pays out.
LEMMA PayersWrite ==
  ASSUME NEW s \in Sessions, Minds(s), PayingOut(s)
  PROVE  req[s] \in Requests /\ req[s].op \in Writes /\ req[s].p \in Payments /\ req[s].in.amount \in Nat
<1>1. req[s] \in Requests /\ req[s].in.dir = "paid"
  BY DEF Minds, PayingOut
<1>2. NoInput.dir = "received"
  BY DEF NoInput
<1>3. req[s].op \notin {"remove", "finalize", "cancel"}
  BY <1>1, <1>2, Asked_
<1>4. req[s].op \in Writes
  BY <1>1, <1>3, Asked_ DEF Writes
<1> QED BY <1>1, <1>4, Asked_ DEF Said

LEMMA CoveredStays ==
  ASSUME pay' = pay, drained' = drained, NEW u \in Sessions, Covered(u),
         at'[u] = "writing" => at[u] = "writing" /\ req'[u] = req[u]
  PROVE  Covered(u)'
<1> SUFFICES ASSUME at[u] = "writing" /\ req'[u] = req[u] PROVE Covered(u)'
  BY DEF Covered, PayingOut
<1>1. Balance(req[u].in.acc, req[u].p)' = Balance(req[u].in.acc, req[u].p)
  BY DEF Balance
<1> QED BY <1>1 DEF Covered, PayingOut

\* What a written payment, or one taken off, leaves in the accounts other requests pay out of.
LEMMA OthersFund ==
  ASSUME IInv, Funded, NEW s \in Sessions, WritePayment(s) \/ DeletePayment(s), NEW u \in Sessions \ {s}
  PROVE  Covered(u)'
<1>0. /\ TypeOK /\ RowsAreSound /\ Minds(s) /\ Holding(s) /\ Stands(s) /\ at[s] = "writing" /\ End(s)
      /\ Minds(u) /\ (at[u] = "writing" => Holding(u)) /\ Covered(u)
  BY DEF IInv, WorkIsSound, WritePayment, DeletePayment, Doing, Funded
<1>1. at'[u] = at[u] /\ req'[u] = req[u]
  BY <1>0, Ends DEF Untouched
<1>2. pay \in [Payments -> PayRows]
  BY <1>0, Typed
<1>3. CASE ~(PayingOut(u) /\ u \notin drained')
  BY <1>1, <1>3 DEF Covered, PayingOut
<1>4. CASE PayingOut(u) /\ u \notin drained'
  <2>1. u \notin drained /\ req[u].in.acc \notin Leaves(s)
    BY <1>4 DEF WritePayment, DeletePayment, Drain
  <2>2. req[u].op \in Writes /\ req[u].in.amount \in Nat
    BY <1>0, <1>4, PayersWrite
  <2>3. lock[req[u].in.acc] = u /\ req[u].in.amount <= Balance(req[u].in.acc, req[u].p)
    BY <1>0, <1>4, <2>1, <2>2 DEF Holding, Covered, PayingOut
  <2> DEFINE a == req[u].in.acc
             e == req[u].p
             p == req[s].p
  <2>4. /\ p \in Payments /\ pay' \in [Payments -> PayRows]
        /\ pay'[p].state = "gone" \/ pay'[p].acc # a
        /\ \A q \in Payments \ {p} : /\ pay'[q].state = pay[q].state /\ pay'[q].dir = pay[q].dir
                                      /\ pay'[q].amount = pay[q].amount /\ pay'[q].acc = pay[q].acc
    <3>1. CASE WritePayment(s)
      <4>1. Wrote(s)
        BY <1>0, <3>1, Written
      <4>2. pay'[p].acc = req[s].in.acc /\ \A q \in Payments \ {p} : pay'[q].acc = pay[q].acc
        BY <1>0, <3>1, <4>1, WroteAccounts DEF Wrote
      <4>3. lock[req[s].in.acc] = s
        BY <1>0, <4>1 DEF Holding, Wrote
      <4>4. pay'[p].acc # a
        BY <2>3, <4>2, <4>3
      <4> QED BY <4>1, <4>2, <4>4 DEF Wrote
    <3>2. CASE DeletePayment(s)
      <4>1. TookOff(s)
        BY <1>0, <3>2, Deleted
      <4>2. ASSUME NEW q \in Payments \ {p} PROVE pay'[q].acc = pay[q].acc
        <5>1. CASE q # pay[p].of \/ pay[q].state # "kept"
          BY <4>1, <5>1 DEF TookOff
        <5>2. CASE q = pay[p].of /\ pay[q].state = "kept"
          <6>1. q # Nothing
            BY Rows_
          <6>2. pay'[q] = [pay[q] EXCEPT !.left = pay[q].left + pay[p].amount]
            BY <4>1, <5>2, <6>1 DEF TookOff
          <6> QED BY <1>2, <6>2 DEF PayRows
        <5> QED BY <5>1, <5>2
      <4>3. pay'[p].state = "gone"
        BY <1>2, <4>1 DEF TookOff, PayRows
      <4> QED BY <4>1, <4>2, <4>3 DEF TookOff
    <3> QED BY <3>1, <3>2
  <2>5. pay'[p].state = "kept" => pay'[p].acc # a
    BY <2>4
  <2>6. pay[p].state = "kept" /\ pay[p].acc = a => pay[p].dir = "paid"
    <3> SUFFICES ASSUME pay[p].state = "kept", pay[p].acc = a, pay[p].dir # "paid" PROVE FALSE
      OBVIOUS
    <3>1. pay[p].dir = "received"
      BY <1>2, <2>4 DEF PayRows, Directions
    <3>2. Leaves(s) = {a}
      BY <2>4, <3>1 DEF Leaves
    <3> QED BY <2>1, <3>2
  <2>7. PICK b, f : b = a /\ f = e
    OBVIOUS
  <2> HIDE DEF a, e, p
  <2>8. Balance(b, f) <= Balance(b, f)'
    BY <1>2, <2>4, <2>5, <2>6, <2>7, BalanceHolds
  <2>9. Balance(a, e)' = Balance(b, f)' /\ Balance(a, e) = Balance(b, f)
    BY <1>1, <2>7 DEF Balance, a, e
  <2>10. Balance(b, f) \in Int /\ Balance(b, f)' \in Int
    <3>1. Balance(b, f) \in Int
      BY <1>2, BalanceIsInt
    <3>2. Balance(b, f)' \in Int
      BY <2>4, BalanceIsIntAfter
    <3> QED BY <3>1, <3>2
  <2>11. req[u].in.amount <= Balance(a, e)'
    BY <2>2, <2>3, <2>8, <2>9, <2>10 DEF a, e
  <2> QED BY <1>1, <2>11 DEF Covered, a, e
<1> QED BY <1>3, <1>4

LEMMA PaymentFunds ==
  ASSUME IInv, Funded, NEW s \in Sessions, WritePayment(s) \/ DeletePayment(s)
  PROVE  Funded'
<1>1. at'[s] = "idle"
  BY Ends DEF IInv, WritePayment, DeletePayment
<1>2. Covered(s)'
  BY <1>1 DEF Covered, PayingOut
<1>3. \A u \in Sessions \ {s} : Covered(u)'
  BY OthersFund
<1> QED BY <1>2, <1>3 DEF Funded

LEMMA DecideFunds == ASSUME IInv, Funded, NEW s \in Sessions, Decide(s) PROVE Funded'
<1>0. TypeOK /\ Minds(s)
  BY DEF IInv, WorkIsSound
<1>1. /\ at[s] = "locking" /\ Fits(req[s]) /\ pay' = pay /\ req' = req /\ at' = [at EXCEPT ![s] = "writing"]
      /\ drained' = drained
  BY DEF Decide, Locked
<1>2. Covered(s)'
  <2> SUFFICES ASSUME req[s].in.dir = "paid" PROVE req[s].in.amount <= Balance(req[s].in.acc, req[s].p)'
    BY <1>1 DEF Covered, PayingOut
  <2>1. req[s] \in Requests /\ NoInput.dir = "received"
    BY <1>0, <1>1 DEF Minds, NoInput
  <2>2. req[s].op \in Writes
    BY <2>1, Asked_ DEF Writes
  <2>3. req[s].in.amount <= Balance(req[s].in.acc, req[s].p)
    BY <1>1, <2>2 DEF Fits, WriteFits, Writes
  <2> QED BY <1>1, <2>3 DEF Balance
<1>3. ASSUME NEW u \in Sessions \ {s} PROVE Covered(u)'
  <2>1. at'[u] = at[u] /\ req'[u] = req[u]
    BY <1>0, <1>1 DEF TypeOK
  <2> QED BY <1>1, <2>1, CoveredStays DEF Funded
<1> QED BY <1>2, <1>3 DEF Funded

LEMMA StepFunds == ASSUME IInv, Funded, [Next]_vars PROVE Funded'
<1>0. TypeOK
  BY DEF IInv
<1>1. CASE UNCHANGED vars
  BY <1>1, CoveredStays DEF vars, Funded
<1>2. ASSUME NEW s \in Sessions, NEW r \in Requests, Ask(s, r) PROVE Funded'
  <2>1. pay' = pay /\ drained' = drained /\ at[s] = "idle" /\ at' = [at EXCEPT ![s] = "locking"] /\ req' = [req EXCEPT ![s] = r]
    BY <1>2 DEF Ask
  <2>2. \A u \in Sessions : at'[u] = "writing" => at[u] = "writing" /\ req'[u] = req[u]
    BY <1>0, <2>1 DEF TypeOK
  <2> QED BY <2>1, <2>2, CoveredStays DEF Funded
<1>3. ASSUME NEW s \in Sessions, NEW x \in Rows, Lock(s, x) PROVE Funded'
  BY <1>3, CoveredStays DEF Lock, Funded
<1>4. ASSUME NEW s \in Sessions, End(s), pay' = pay, drained' = drained PROVE Funded'
  <2>1. \A u \in Sessions : at'[u] = "writing" => at[u] = "writing" /\ req'[u] = req[u]
    BY <1>0, <1>4, Ends DEF Untouched
  <2> QED BY <1>4, <2>1, CoveredStays DEF Funded
<1>5. ASSUME NEW s \in Sessions, Decide(s) PROVE Funded'
  BY <1>5, DecideFunds
<1>6. ASSUME NEW s \in Sessions, WritePayment(s) \/ DeletePayment(s) PROVE Funded'
  BY <1>6, PaymentFunds
<1>7. ASSUME NEW s \in Sessions, FinalizeDocument(s) \/ CancelDocument(s) \/ BreakRing(s) \/ Refuse(s) PROVE Funded'
  BY <1>4, <1>7 DEF FinalizeDocument, CancelDocument, BreakRing, Refuse
<1> QED BY <1>1, <1>2, <1>3, <1>5, <1>6, <1>7 DEF Next

\* A request that pays out does so by writing its payment.
LEMMA OnlyPayersEnd ==
  ASSUME IInv, [Next]_vars, NEW s \in Sessions, PayingOut(s), at'[s] # "writing"
  PROVE  WritePayment(s)
<1>0. TypeOK /\ at[s] = "writing" /\ Minds(s)
  BY DEF IInv, WorkIsSound, PayingOut
<1>1. req[s].op \in Writes
  BY <1>0, PayersWrite
<1>2. ~UNCHANGED vars
  BY <1>0 DEF vars
<1>3. ASSUME NEW u \in Sessions, NEW r \in Requests PROVE ~Ask(u, r)
  BY <1>0 DEF Ask, TypeOK
<1>4. ASSUME NEW u \in Sessions, NEW x \in Rows PROVE ~Lock(u, x)
  BY <1>0 DEF Lock
<1>5. ASSUME NEW u \in Sessions PROVE ~Decide(u)
  BY <1>0 DEF Decide, Locked, TypeOK
<1>6. ASSUME NEW u \in Sessions, End(u) PROVE u = s
  BY <1>0, <1>6, Ends DEF Untouched
<1>7. ASSUME NEW u \in Sessions PROVE ~Refuse(u)
  BY <1>0, <1>6 DEF Refuse, Locked
<1>8. ASSUME NEW u \in Sessions PROVE ~BreakRing(u)
  <2>1. ASSUME NEW C \in SUBSET Sessions, s \in C, Ring(C) PROVE at[s] = "locking"
    BY <2>1 DEF Ring, WaitsFor, Wants
  <2> QED BY <1>0, <1>6, <2>1 DEF BreakRing
<1>9. ASSUME NEW u \in Sessions PROVE ~(DeletePayment(u) \/ FinalizeDocument(u) \/ CancelDocument(u))
  BY <1>1, <1>6 DEF DeletePayment, FinalizeDocument, CancelDocument, Doing, Writes
<1>10. ASSUME NEW u \in Sessions, WritePayment(u) PROVE u = s
  BY <1>6, <1>10 DEF WritePayment
<1> QED BY <1>2, <1>3, <1>4, <1>5, <1>7, <1>8, <1>9, <1>10 DEF Next

\* What is paid when a payment is written was covered.
LEMMA CoveredIsHeld ==
  ASSUME IInv, Funded, [Next]_vars, NEW s \in Sessions, PaidBeyondHoldings(s)
  PROVE  s \in drained
<1> SUFFICES ASSUME s \notin drained PROVE FALSE
  OBVIOUS
<1>1. PayingOut(s) /\ WritePayment(s)
  BY OnlyPayersEnd DEF PaidBeyondHoldings
<1>2. TypeOK /\ RowsAreSound /\ Minds(s) /\ Stands(s)
  BY <1>1 DEF IInv, WorkIsSound, PayingOut
<1>3. Wrote(s)
  BY <1>1, <1>2, Written
<1>4. pay'[req[s].p].acc = req[s].in.acc /\ pay'[req[s].p].amount = req[s].in.amount
  BY <1>1, <1>2, <1>3, WroteAccounts DEF Wrote
<1>5. req[s].in.amount <= Balance(req[s].in.acc, req[s].p)
  BY <1>1 DEF Funded, Covered
<1>6. req[s].in.amount \in Nat /\ Balance(req[s].in.acc, req[s].p) \in Int
  BY <1>1, <1>2, PayersWrite, Typed, BalanceIsInt
<1>7. req[s].in.amount > Balance(req[s].in.acc, req[s].p)
  BY <1>4 DEF PaidBeyondHoldings
<1> QED BY <1>5, <1>6, <1>7

(* Whatever is created, saved, turned, moved, refunded and removed at once, an account pays out more than it holds    *)
(* only if a receipt left it between the reading of its balance and the payment (writePayment's lock on the account).  *)
THEOREM WhatIsPaidWasHeld == Spec => PaysOutWhatItHeld
<1>1. Init => IInv /\ Funded
  <2>1. Init => Funded
    BY DEF Init, Funded, Covered, PayingOut
  <2> QED BY <2>1, InitHolds
<1>2. IInv /\ Funded /\ [Next]_vars => (IInv /\ Funded)'
  BY StepKeeps, StepFunds
<1>3. IInv /\ Funded /\ [Next]_vars => [\A s \in Sessions : PaidBeyondHoldings(s) => s \in drained]_vars
  BY CoveredIsHeld
<1> QED BY <1>1, <1>2, <1>3, PTL DEF Spec, PaysOutWhatItHeld

-----------------------------------------------------------------------------
(* Documents *)

ChainP == INSTANCE Documents_proofs WITH
  Given <- OrderAndBill, New <- {n1, n2}, Fresh <- {"invoice", "purchaseBill"}, Requests <- Sessions, MaxDay <- 2, MaxQty <- 2,
  Opening <- [t \in 1 .. 2 |-> t - 1], Ruled <- {"invoice"}, Over <- 1, MaxAsked <- 4,
  doc <- dDoc, posted <- dPosted, counted <- dCounted, rowLock <- dRowLock, itemLock <- dItemLock, task <- dTask,
  noted <- dNoted, asked <- dAsked

(* The composition takes the steps the proofs of Documents are about, *)
LEMMA ChainNext == Chain!Next => ChainP!Next
  BY DEF Chain!Next, ChainP!Next, Chain!Cancel, ChainP!Cancel, Chain!Idle, ChainP!Idle, Chain!Absent, ChainP!Absent,
      Chain!None, ChainP!None, Chain!MayCancel, ChainP!MayCancel, Chain!LiveReturns, ChainP!LiveReturns,
      Chain!Returns, ChainP!Returns, Chain!From, ChainP!From, Chain!Docs, ChainP!Docs, Chain!Begins, ChainP!Begins,
      Chain!Free, ChainP!Free, Chain!Issue, ChainP!Issue, Chain!Issues, ChainP!Issues, Chain!D, ChainP!D,
      Chain!Writes, ChainP!Writes, Chain!Unlocks, ChainP!Unlocks, Chain!Lets, ChainP!Lets, Chain!Ends, ChainP!Ends,
      Chain!Is, ChainP!Is, Chain!Sign, ChainP!Sign, Chain!Days, ChainP!Days, Chain!Conversions, ChainP!Conversions,
      Chain!ReadToEdit, ChainP!ReadToEdit, Chain!Seen, ChainP!Seen, Chain!Keeps, ChainP!Keeps, Chain!NoDraftLeft,
      ChainP!NoDraftLeft, Chain!ReadToDecide, ChainP!ReadToDecide, Chain!Overtaken, ChainP!Overtaken, Chain!Unread,
      ChainP!Unread, Chain!LockItemBack, ChainP!LockItemBack, Chain!Available, ChainP!Available, Chain!Min,
      ChainP!Min, Chain!OnDay, ChainP!OnDay, Chain!SumFunctionOnSet, ChainP!SumFunctionOnSet, Chain!FoldFunctionOnSet,
      ChainP!FoldFunctionOnSet, Chain!MapThenFoldSet, ChainP!MapThenFoldSet, Chain!InsertCopy, ChainP!InsertCopy,
      Chain!Block, ChainP!Block, Chain!Finalized, ChainP!Finalized, Chain!Onward, ChainP!Onward, Chain!Live,
      ChainP!Live, Chain!AdjustStock, ChainP!AdjustStock, Chain!OnHand, ChainP!OnHand, Chain!ShortCount,
      ChainP!ShortCount, Chain!FinalizeDocument, ChainP!FinalizeDocument, Chain!TakeDraft, ChainP!TakeDraft,
      Chain!MovedUpstream, ChainP!MovedUpstream, Chain!Deliveries, ChainP!Deliveries, Chain!Sources, ChainP!Sources,
      Chain!Via, ChainP!Via, Chain!NeedsApproval, ChainP!NeedsApproval, Chain!FinalizeApproved,
      ChainP!FinalizeApproved, Chain!Rollback, ChainP!Rollback, Chain!Close, ChainP!Close, Chain!MayClose,
      ChainP!MayClose, Chain!Create, ChainP!Create, Chain!ReadToConvert, ChainP!ReadToConvert, Chain!Reverse,
      ChainP!Reverse, Chain!Decide, ChainP!Decide, Chain!Delete, ChainP!Delete, Chain!IssueUnmoved,
      ChainP!IssueUnmoved, Chain!Moves, ChainP!Moves, Chain!WriteEdit, ChainP!WriteEdit, Chain!ReadToRemove,
      ChainP!ReadToRemove, Chain!LockItem, ChainP!LockItem, Chain!Short, ChainP!Short, Chain!LockSource,
      ChainP!LockSource, Chain!Returnable, ChainP!Returnable, Chain!LeftToReturn, ChainP!LeftToReturn,
      Chain!MapThenSumSet, ChainP!MapThenSumSet

LEMMA ChainRuns == AllSpec => ChainP!Spec
<1>1. AllInit => ChainP!Init
  BY DEF Chain!Init, ChainP!Init, Chain!Idle, ChainP!Idle, Chain!Absent, ChainP!Absent, Chain!None, ChainP!None,
      Chain!Docs, ChainP!Docs, Chain!Sign, ChainP!Sign, Chain!Free, ChainP!Free, AllInit
<1>2. [AllNext]_<<focus, settling, documents, books, aReceipt>> => [ChainP!Next]_ChainP!vars
  BY ChainNext DEF AllNext, documents, ChainP!vars
<1> QED BY <1>1, <1>2, PTL DEF AllSpec, ChainP!Spec

(* within the bounds they ask for, from confirmed documents and with no day below zero. *)
LEMMA ChainBounded == ChainP!Bounded
<1>1. \A d \in DOMAIN OrderAndBill : OrderAndBill[d] \in ChainP!Documents /\ OrderAndBill[d].status = "final" /\ OrderAndBill[d].version = 1
  BY DEF OrderAndBill, Confirmed, ChainP!Documents, ChainP!Docs, ChainP!Days, ChainP!Kinds, ChainP!None
<1>2. ChainP!ShortCount \notin ChainP!Docs /\ ChainP!Free \notin Sessions
  BY PartsAssumption DEF ChainP!ShortCount, ChainP!Docs, ChainP!Free, Chain!ShortCount, Chain!None, Chain!Free, OrderAndBill
<1>3. OrderAndBill \in [DOMAIN OrderAndBill -> ChainP!Documents]
  BY <1>1 DEF OrderAndBill
<1> QED BY <1>1, <1>2, <1>3 DEF ChainP!Bounded, ChainP!Numbered, ChainP!Kinds, ChainP!Days

LEMMA ChainStartsSound == ChainP!StartsSound
<1> DEFINE Came == [t \in 1 .. 2 |-> t - 1]
           Dated(t) == {d \in ChainP!Docs : d \in DOMAIN OrderAndBill /\ OrderAndBill[d].date \in 1 .. t}
<1>1. ChainP!IsFiniteSet(ChainP!Docs) /\ ChainP!None \notin ChainP!Docs
  <2>1. ChainP!Docs = {"order", "bill", n1, n2}
    BY DEF ChainP!Docs, OrderAndBill
  <2>2. ChainP!IsFiniteSet({"order", "bill", n1, n2})
    <3>1. ChainP!IsFiniteSet({"order"}) /\ ChainP!IsFiniteSet({"bill"}) /\ ChainP!IsFiniteSet({n1}) /\ ChainP!IsFiniteSet({n2})
      BY ChainP!FS_Singleton
    <3>2. ChainP!IsFiniteSet({"order"} \cup {"bill"}) /\ ChainP!IsFiniteSet({n1} \cup {n2})
      BY <3>1, ChainP!FS_Union
    <3>3. ChainP!IsFiniteSet(({"order"} \cup {"bill"}) \cup ({n1} \cup {n2}))
      BY <3>2, ChainP!FS_Union
    <3>4. ({"order"} \cup {"bill"}) \cup ({n1} \cup {n2}) = {"order", "bill", n1, n2}
      OBVIOUS
    <3> QED BY <3>3, <3>4
  <2> QED BY <2>1, <2>2, PartsAssumption DEF ChainP!None, Chain!None, Chain!ShortCount
<1>2. \A d \in DOMAIN OrderAndBill :
         ChainP!Issued(OrderAndBill[d]) /\ OrderAndBill[d].kind # ChainP!None /\ OrderAndBill[d].src = ChainP!None
         /\ OrderAndBill[d].qty >= 1 /\ OrderAndBill[d].date \in ChainP!Days
  BY DEF OrderAndBill, Confirmed, ChainP!Issued, ChainP!None, ChainP!Days
<1>3. ASSUME NEW t \in ChainP!Days
      PROVE  ChainP!SumFunctionOnSet(Came, 1 .. t) + ChainP!SumFunctionOnSet(ChainP!OpeningPosted, Dated(t)) >= 0
  <2>1. Came \in [1 .. 2 -> Int] /\ 1 .. t \in SUBSET (1 .. 2) /\ ChainP!IsFiniteSet(1 .. t) /\ \A x \in 1 .. t : Came[x] >= 0
    BY ChainP!FS_Interval DEF ChainP!Days
  <2>2. /\ ChainP!OpeningPosted \in [ChainP!Docs -> Int]
        /\ Dated(t) \in SUBSET ChainP!Docs /\ ChainP!IsFiniteSet(Dated(t)) /\ \A x \in Dated(t) : ChainP!OpeningPosted[x] >= 0
    <3>1. ChainP!IsFiniteSet(Dated(t))
      BY <1>1, ChainP!FS_Subset
    <3>2. \A x \in ChainP!Docs : ChainP!OpeningPosted[x] \in {0, 1}
      BY DEF ChainP!OpeningPosted, ChainP!Sign, OrderAndBill, Confirmed
    <3>3. ChainP!OpeningPosted \in [ChainP!Docs -> Int]
      BY <3>2 DEF ChainP!OpeningPosted
    <3> QED BY <3>1, <3>2, <3>3
  <2>3. ChainP!SumFunctionOnSet(Came, 1 .. t) \in Int /\ ChainP!SumFunctionOnSet(Came, 1 .. t) >= 0
    <3> HIDE DEF Came
    <3> QED BY <2>1, ChainP!SumIsInt, ChainP!SumIsNat
  <2>4. /\ ChainP!SumFunctionOnSet(ChainP!OpeningPosted, Dated(t)) \in Int
        /\ ChainP!SumFunctionOnSet(ChainP!OpeningPosted, Dated(t)) >= 0
    <3> HIDE DEF Dated
    <3> QED BY <2>2, ChainP!SumIsInt, ChainP!SumIsNat
  <2> HIDE DEF Came, Dated
  <2> QED BY <2>3, <2>4
<1> QED BY <1>1, <1>2, <1>3 DEF ChainP!StartsSound

(* No sale, return or cancellation takes the item below zero, in all or on a day, but for a  *)
(* count that asks only for the total; the ledger holds what the documents say; and the      *)
(* goods of an order move once (postStock, reverseStock, movedUpstream, conversionBlock): in *)
(* every run of the composition, for any requests.                                           *)
THEOREM GoodsAreAlwaysRight == AllSpec => []GoodsAreRight
<1>1. ChainP!Spec => [](ChainP!StockIsSound /\ ChainP!GoodsMoveOnce)
  BY ChainBounded, ChainStartsSound, ChainP!StockIsRight
<1>2. ChainP!StockIsSound /\ ChainP!GoodsMoveOnce => GoodsAreRight
  BY DEF Chain!StockIsSound, ChainP!StockIsSound, Chain!NothingSoldTwice, ChainP!NothingSoldTwice, Chain!Days,
      ChainP!Days, Chain!OnHand, ChainP!OnHand, Chain!OnDay, ChainP!OnDay, Chain!SumFunctionOnSet,
      ChainP!SumFunctionOnSet, Chain!FoldFunctionOnSet, ChainP!FoldFunctionOnSet, Chain!MapThenFoldSet,
      ChainP!MapThenFoldSet, Chain!Docs, ChainP!Docs, Chain!ShortCount, ChainP!ShortCount,
      Chain!LedgerFollowsDocuments, ChainP!LedgerFollowsDocuments, Chain!MovedUpstream, ChainP!MovedUpstream,
      Chain!Deliveries, ChainP!Deliveries, Chain!Sources, ChainP!Sources, Chain!None, ChainP!None, Chain!Via,
      ChainP!Via, Chain!Sign, ChainP!Sign, Chain!GoodsMoveOnce, ChainP!GoodsMoveOnce, Chain!Cardinality,
      ChainP!Cardinality, Chain!Chain, ChainP!Chain, Chain!Returns, ChainP!Returns, GoodsAreRight
<1> QED BY <1>1, <1>2, ChainRuns, PTL

(* No edit or deletion begun while a document was a draft lands on it once issued, and a     *)
(* decision falls on what was read, once (updateDocument, removeDocument, decide).           *)
THEOREM IssuedForGood == AllSpec => IssuedAndDecidedForGood
<1>1. ChainP!Spec => ChainP!FrozenOnceIssued /\ ChainP!DecidedAsRead
  BY ChainBounded, ChainP!IssuedForGood, ChainP!DecisionsAreInformed
<1>2. ChainP!FrozenOnceIssued /\ ChainP!DecidedAsRead => IssuedAndDecidedForGood
  BY DEF Chain!IssuedAndDecidedForGood, ChainP!IssuedAndDecidedForGood, Chain!FrozenOnceIssued,
      ChainP!FrozenOnceIssued, Chain!Finalized, ChainP!Finalized, Chain!Docs, ChainP!Docs, Chain!DecidedAsRead,
      ChainP!DecidedAsRead, Chain!D, ChainP!D, Chain!Is, ChainP!Is, Chain!vars, ChainP!vars, IssuedAndDecidedForGood
<1> QED BY <1>1, <1>2, ChainRuns

-----------------------------------------------------------------------------
(* What a sum of a sequence is (SumOf), and what becomes of an amount that is divided (Money). *)

(* The last of some numbers of 1 .. n is one of them. *)
LEMMA LastIsOne == ASSUME NEW n \in Nat, NEW t \in SUBSET (1 .. n), t # {} PROVE Max(t) \in t
<1> DEFINE U == {m \in Nat : \A y \in t : y <= m}
<1>1. n \in U
  OBVIOUS
<1>2. PICK m \in U : \A y \in U : ~(<<y, m>> \in OpToRel(<, Nat))
  <2> HIDE DEF U
  <2>1. U \subseteq Nat
    BY DEF U
  <2> QED BY <1>1, <2>1, NatLessThanWellFounded, WFMin
<1>3. m \in t
  <2> SUFFICES ASSUME m \notin t PROVE FALSE
    OBVIOUS
  <2>0. m \in Nat /\ (\A y \in t : y <= m) /\ (\A y \in t : y \in Int /\ 1 <= y)
    OBVIOUS
  <2>1. \A y \in t : y <= m - 1
    <3> HIDE DEF U
    <3> SUFFICES ASSUME NEW y \in t PROVE y <= m - 1
      OBVIOUS
    <3>1. y \in Int /\ y <= m /\ y # m
      BY <2>0
    <3> QED BY <2>0, <3>1
  <2>2. m - 1 \in Nat /\ m - 1 < m
    <3>1. PICK y \in t : TRUE
      OBVIOUS
    <3>2. y \in Int /\ 1 <= y /\ y <= m - 1
      BY <2>0, <2>1
    <3> QED BY <2>0, <3>2
  <2>3. m - 1 \in U
    BY <2>1, <2>2
  <2> QED BY <1>2, <2>2, <2>3 DEF OpToRel
<1>4. \A y \in t : m >= y
  BY <1>2
<1> HIDE DEF U
<1> QED BY <1>3, <1>4 DEF Max

(* A sequence adds up to the sum of its values: the fold takes the last one first. *)
LEMMA SumOfIsSum == \A s \in Seq(Int) : SumOf(s) = SumFunctionOnSet(s, DOMAIN s)
<1>0. SUFFICES ASSUME NEW s, s \in Seq(Int) PROVE SumOf(s) = SumFunctionOnSet(s, DOMAIN s)
  OBVIOUS
<1> DEFINE S == DOMAIN s
           F == CHOOSE f : f = [t \in SUBSET S |-> IF t = {} THEN 0 ELSE f[t \ {Max(t)}] + s[Max(t)]]
           G == Iter(s, S)
<1>1. SumOf(s) = F[S]
  BY DEF SumOf, FoldLeft, MapThenFoldSet
<1>2. s \in [S -> Int] /\ S = 1 .. Len(s) /\ Len(s) \in Nat
  BY <1>0
<1>3. IsFiniteSet(S)
  <2>1. IsFiniteSet(1 .. Len(s))
    <3>1. 1 \in Int /\ Len(s) \in Int
      BY <1>2
    <3> QED BY <3>1, FS_Interval
  <2> QED BY <1>2, <2>1
<1>4. \A t \in SUBSET S : t # {} => Max(t) \in t
  BY <1>2, LastIsOne
<1> HIDE DEF S
<1>5. Adds(G, s, S)
  BY <1>2, <1>3, IterAdds
<1>a. ASSUME NEW t, t \in SUBSET S, NEW x, x \in t PROVE G[t] = s[x] + G[t \ {x}]
  <2>1. s \in [S -> Int] /\ S \subseteq S
    BY <1>2
  <2> HIDE DEF F, G
  <2> QED BY <1>3, <1>5, <1>a, <2>1, AnyOrder
<1>6. ASSUME NEW t \in SUBSET S PROVE G[t] = IF t = {} THEN 0 ELSE G[t \ {Max(t)}] + s[Max(t)]
  <2>1. CASE t = {}
    BY <1>5, <2>1 DEF Adds
  <2>2. CASE t # {}
    <3>1. Max(t) \in t
      BY <1>4, <2>2
    <3>2. G[t] = s[Max(t)] + G[t \ {Max(t)}]
      BY <1>a, <3>1
    <3>3. s[Max(t)] \in Int /\ G[t \ {Max(t)}] \in Int
      BY <1>2, <1>5, <3>1 DEF Adds
    <3> HIDE DEF G
    <3> QED BY <2>2, <3>2, <3>3
  <2> QED BY <2>1, <2>2
<1> HIDE DEF G
<1>7. G = [t \in SUBSET S |-> IF t = {} THEN 0 ELSE G[t \ {Max(t)}] + s[Max(t)]]
  <2>1. G \in [SUBSET S -> Int]
    BY <1>5 DEF Adds
  <2> QED BY <1>6, <2>1
<1>8. F = [t \in SUBSET S |-> IF t = {} THEN 0 ELSE F[t \ {Max(t)}] + s[Max(t)]]
  BY <1>7
<1> HIDE DEF F
<1> DEFINE T == {n \in Nat : \A t \in SUBSET S : Cardinality(t) <= n => F[t] = G[t]}
<1>9. \A t \in SUBSET S : IsFiniteSet(t) /\ Cardinality(t) \in Nat
  BY <1>3, FS_Subset, FS_CardinalityType
<1>10. \A t \in SUBSET S : F[t] = IF t = {} THEN 0 ELSE F[t \ {Max(t)}] + s[Max(t)]
  BY <1>8
<1>11. 0 \in T
  <2>1. \A t \in SUBSET S : Cardinality(t) <= 0 => t = {}
    BY <1>9, FS_EmptySet
  <2>2. \A t \in SUBSET S : t = {} => F[t] = 0 /\ G[t] = 0
    BY <1>6, <1>10
  <2> QED BY <2>1, <2>2
<1>12. ASSUME NEW n \in T, NEW t \in SUBSET S, Cardinality(t) <= n + 1 PROVE F[t] = G[t]
  <2>1. CASE t = {}
    BY <1>6, <1>10, <2>1
  <2>2. CASE t # {}
    <3>1. Max(t) \in t
      BY <1>4, <2>2
    <3>2. Cardinality(t \ {Max(t)}) <= n
      BY <1>9, <1>12, <3>1, FS_RemoveElement
    <3>3. F[t \ {Max(t)}] = G[t \ {Max(t)}]
      BY <3>2
    <3>4. F[t] = F[t \ {Max(t)}] + s[Max(t)] /\ G[t] = G[t \ {Max(t)}] + s[Max(t)]
      BY <1>6, <1>10, <2>2
    <3> QED BY <3>3, <3>4
  <2> QED BY <2>1, <2>2
<1>13. T = Nat
  <2>1. \A n \in T : n + 1 \in T
    BY <1>12
  <2> HIDE DEF T
  <2> QED BY <1>11, <2>1, NatInd DEF T
<1>14. F[S] = G[S]
  <2>1. Cardinality(S) \in T /\ Cardinality(S) <= Cardinality(S)
    BY <1>9, <1>13
  <2> QED BY <2>1
<1>15. SumFunctionOnSet(s, S) = G[S]
  BY Unfolded DEF G
<1> QED BY <1>1, <1>14, <1>15 DEF S

(* A sum over 1 .. n, one by one. *)
LEMMA SumUpTo ==
  \A n, g, k : n \in Nat /\ g \in [1 .. n -> Int] /\ k \in Nat /\ k + 1 <= n =>
    /\ SumFunctionOnSet(g, 1 .. k) \in Int
    /\ SumFunctionOnSet(g, 1 .. (k + 1)) = SumFunctionOnSet(g, 1 .. k) + g[k + 1]
<1>0. SUFFICES ASSUME NEW n, NEW g, NEW k, n \in Nat, g \in [1 .. n -> Int], k \in Nat, k + 1 <= n
              PROVE  /\ SumFunctionOnSet(g, 1 .. k) \in Int
                     /\ SumFunctionOnSet(g, 1 .. (k + 1)) = SumFunctionOnSet(g, 1 .. k) + g[k + 1]
  OBVIOUS
<1> DEFINE A == 1 .. k
           D == 1 .. n
           x == k + 1
<1>1. A \cup {x} = 1 .. (k + 1) /\ x \in D /\ x \notin A /\ A \in SUBSET D
  BY <1>0
<1>2. IsFiniteSet(A)
  <2>1. 1 \in Int /\ k \in Int
    BY <1>0
  <2> QED BY <2>1, FS_Interval
<1>3. g \in [D -> Int]
  BY <1>0
<1> HIDE DEF A, D, x
<1>4. SumFunctionOnSet(g, A \cup {x}) = g[x] + SumFunctionOnSet(g, A)
  BY <1>1, <1>2, <1>3, SumWithAdded
<1>5. SumFunctionOnSet(g, A) \in Int /\ g[x] \in Int
  BY <1>1, <1>2, <1>3, SumIsInt
<1>6. SumFunctionOnSet(g, A \cup {x}) = SumFunctionOnSet(g, A) + g[x]
  BY <1>4, <1>5
<1> QED BY <1>1, <1>5, <1>6 DEF A, x

(* Each of n is given c, the first r of them one more. *)
LEMMA SumIsRaised ==
  ASSUME NEW n \in Nat, NEW g \in [1 .. n -> Int], NEW c \in Int, NEW r \in 0 .. n,
         NEW h \in [1 .. n -> Int], \A i \in 1 .. n : h[i] = g[i] + c + (IF i <= r THEN 1 ELSE 0)
  PROVE  SumFunctionOnSet(h, 1 .. n) = SumFunctionOnSet(g, 1 .. n) + n * c + r
<1> DEFINE E(k) == SumFunctionOnSet(h, 1 .. k) = SumFunctionOnSet(g, 1 .. k) + k * c + (IF k <= r THEN k ELSE r)
           T == {k \in Nat : k <= n => E(k)}
<1>1. 0 \in T
  <2>1. 1 .. 0 = {} /\ SumFunctionOnSet(h, {}) = 0 /\ SumFunctionOnSet(g, {}) = 0
    BY SumOfNone
  <2>2. E(0)
    BY <2>1
  <2> QED BY <2>2
<1>2. ASSUME NEW k \in T, k + 1 <= n PROVE E(k + 1)
  <2>1. E(k) /\ k \in Nat /\ k + 1 \in 1 .. n
    BY <1>2
  <2> DEFINE a == SumFunctionOnSet(g, 1 .. k)
             b == SumFunctionOnSet(h, 1 .. k)
             gNext == SumFunctionOnSet(g, 1 .. (k + 1))
             hNext == SumFunctionOnSet(h, 1 .. (k + 1))
  <2>2. a \in Int /\ gNext = a + g[k + 1]
    BY <1>2, <2>1, SumUpTo
  <2>3. b \in Int /\ hNext = b + h[k + 1]
    BY <1>2, <2>1, SumUpTo
  <2>4. h[k + 1] = g[k + 1] + c + (IF k + 1 <= r THEN 1 ELSE 0) /\ g[k + 1] \in Int
    BY <2>1
  <2>5. (k + 1) * c = k * c + c /\ k * c \in Int
    BY <2>1
  <2>6. b = a + k * c + (IF k <= r THEN k ELSE r)
    BY <2>1
  <2> DEFINE p == k * c
             q == (k + 1) * c
  <2>7. q = p + c /\ p \in Int /\ b = a + p + (IF k <= r THEN k ELSE r)
    BY <2>5, <2>6
  <2> HIDE DEF a, b, gNext, hNext, p, q, T
  <2>8. hNext = gNext + q + (IF k + 1 <= r THEN k + 1 ELSE r)
    <3> DEFINE x == g[k + 1]
               y == h[k + 1]
    <3>1. x \in Int /\ gNext = a + x /\ hNext = b + y /\ y = x + c + (IF k + 1 <= r THEN 1 ELSE 0)
      BY <2>2, <2>3, <2>4
    <3>2. a \in Int /\ b \in Int /\ k \in Nat /\ r \in Int
      BY <2>1, <2>2, <2>3
    <3> HIDE DEF x, y
    <3> QED BY <2>7, <3>1, <3>2
  <2> QED BY <2>8 DEF gNext, hNext, q
<1>3. T = Nat
  <2>1. \A k \in T : k + 1 \in T
    BY <1>2
  <2> HIDE DEF T
  <2> QED BY <1>1, <2>1, NatInd DEF T
<1>4. n \in T
  BY <1>3
<1>5. E(n)
  BY <1>4
<1> QED BY <1>5

(* What a division leaves is less than the divisor. *)
LEMMA Divided ==
  ASSUME NEW m \in Int, NEW d \in Int, d > 0, NEW q \in Int, q = m \div d PROVE d * q <= m /\ m < d * q + d
  BY SMTT(30)
LEMMA LittleLeft == ASSUME NEW m \in Int, NEW d \in Int, 0 <= m, m < d PROVE m \div d = 0 /\ m % d = m
  OBVIOUS

(* What shares rounded down leave over is less than a paisa each. *)
LEMMA FloorsFallShort ==
  ASSUME NEW n \in Nat, n > 0, NEW a \in Int, NEW d \in Int, d > 0,
         NEW w \in [1 .. n -> Int], SumFunctionOnSet(w, 1 .. n) = d,
         NEW p \in [1 .. n -> Int], \A i \in 1 .. n : d * p[i] <= a * w[i] /\ a * w[i] < d * p[i] + d
  PROVE  /\ SumFunctionOnSet(p, 1 .. n) \in Int
         /\ 0 <= a - SumFunctionOnSet(p, 1 .. n) /\ a - SumFunctionOnSet(p, 1 .. n) < n
<1> DEFINE W(k) == SumFunctionOnSet(w, 1 .. k)
           P(k) == SumFunctionOnSet(p, 1 .. k)
           E(k) == d * P(k) <= a * W(k) /\ a * W(k) <= d * P(k) + k * (d - 1)
           T == {k \in Nat : k <= n => E(k)}
<1>1. 0 \in T
  <2>1. 1 .. 0 = {} /\ W(0) = 0 /\ P(0) = 0
    BY SumOfNone
  <2> HIDE DEF W, P
  <2>2. E(0)
    BY <2>1
  <2> QED BY <2>2
<1>2. ASSUME NEW k \in T, k + 1 <= n PROVE E(k + 1)
  <2>1. E(k) /\ k \in Nat /\ k + 1 \in 1 .. n
    BY <1>2
  <2>2. W(k) \in Int /\ W(k + 1) = W(k) + w[k + 1]
    BY <1>2, <2>1, SumUpTo
  <2>3. P(k) \in Int /\ P(k + 1) = P(k) + p[k + 1]
    BY <1>2, <2>1, SumUpTo
  <2>4. w[k + 1] \in Int /\ p[k + 1] \in Int
    BY <2>1
  <2>5. d * p[k + 1] <= a * w[k + 1] /\ a * w[k + 1] <= d * p[k + 1] + (d - 1)
    <3>1. d * p[k + 1] <= a * w[k + 1] /\ a * w[k + 1] < d * p[k + 1] + d
      BY <2>1
    <3>2. d * p[k + 1] \in Int /\ a * w[k + 1] \in Int
      BY SMTT(30), <2>4
    <3> DEFINE x == d * p[k + 1]
               y == a * w[k + 1]
    <3>3. x \in Int /\ y \in Int /\ x <= y /\ y < x + d
      BY <3>1, <3>2
    <3> HIDE DEF x, y
    <3>4. x <= y /\ y <= x + (d - 1)
      BY <3>3
    <3> QED BY <3>4 DEF x, y
  <2> DEFINE u == W(k)
             v == P(k)
             y == w[k + 1]
             x == p[k + 1]
  <2>6. u \in Int /\ v \in Int /\ y \in Int /\ x \in Int /\ W(k + 1) = u + y /\ P(k + 1) = v + x
    BY <2>2, <2>3, <2>4
  <2>7. d * v <= a * u /\ a * u <= d * v + k * (d - 1) /\ d * x <= a * y /\ a * y <= d * x + (d - 1)
    BY <2>1, <2>5
  <2> HIDE DEF u, v, x, y, W, P, T
  <2>8. d * (v + x) = d * v + d * x /\ a * (u + y) = a * u + a * y /\ (k + 1) * (d - 1) = k * (d - 1) + (d - 1)
    BY <2>1, <2>6
  <2>9. d * v \in Int /\ d * x \in Int /\ a * u \in Int /\ a * y \in Int /\ k * (d - 1) \in Int
    BY <2>1, <2>6
  <2>10. d * (v + x) <= a * (u + y) /\ a * (u + y) <= d * (v + x) + (k + 1) * (d - 1)
    <3> DEFINE e == d * v
               f == d * x
               g == a * u
               h == a * y
               c == k * (d - 1)
    <3>1. e \in Int /\ f \in Int /\ g \in Int /\ h \in Int /\ c \in Int
      BY <2>9
    <3>2. e <= g /\ g <= e + c /\ f <= h /\ h <= f + (d - 1)
      BY <2>7
    <3>3. d * (v + x) = e + f /\ a * (u + y) = g + h /\ (k + 1) * (d - 1) = c + (d - 1)
      BY <2>8
    <3> HIDE DEF e, f, g, h, c
    <3>4. e + f <= g + h /\ g + h <= (e + f) + (c + (d - 1))
      BY <3>1, <3>2
    <3> QED BY <3>3, <3>4
  <2> QED BY <2>6, <2>10
<1>3. T = Nat
  <2>1. \A k \in T : k + 1 \in T
    BY <1>2
  <2> HIDE DEF T
  <2> QED BY <1>1, <2>1, NatInd DEF T
<1>4. n \in T
  BY <1>3
<1>5. E(n)
  BY <1>4
<1> DEFINE q == P(n)
<1>6. q \in Int
  <2> DEFINE B == 1 .. n
  <2>1. IsFiniteSet(B)
    <3>1. 1 \in Int /\ n \in Int
      OBVIOUS
    <3> QED BY <3>1, FS_Interval
  <2>2. p \in [B -> Int] /\ B \subseteq B
    OBVIOUS
  <2> HIDE DEF B
  <2>3. SumFunctionOnSet(p, B) \in Int
    BY <2>1, <2>2, SumIsInt
  <2> QED BY <2>3 DEF B
<1>7. d * q <= a * d /\ a * d <= d * q + n * (d - 1)
  BY <1>5
<1> HIDE DEF q
<1>8. q <= a
  <2>1. d * q <= d * a
    BY <1>6, <1>7
  <2> QED BY <1>6, <2>1
<1>9. a - q < n
  <2> SUFFICES ASSUME n <= a - q PROVE FALSE
    BY <1>6
  <2>1. d * n <= d * (a - q)
    BY <1>6
  <2>2. d * (a - q) = a * d - d * q /\ n * (d - 1) = d * n - n
    BY <1>6
  <2> DEFINE e == a * d
             f == d * q
             g == d * n
  <2>3. e \in Int /\ f \in Int /\ g \in Int
    BY <1>6
  <2>4. g <= e - f /\ e <= f + (g - n)
    BY <1>7, <2>1, <2>2
  <2> HIDE DEF e, f, g
  <2> QED BY <2>3, <2>4
<1> QED BY <1>6, <1>8, <1>9 DEF q

(* No paisa is lost or made when an amount is divided (allocate): the parts add up to it, each    *)
(* is its share rounded down or a paisa more, and the last never gets the paisa more.             *)
THEOREM PartsAddUp ==
  ASSUME NEW a \in Int, NEW weights \in Seq(Int), SumOf(weights) > 0
  PROVE  /\ SumOf(Allocate(a, weights)) = a
         /\ \A i \in DOMAIN weights : LET share == (a * weights[i]) \div SumOf(weights)
                                      IN  Allocate(a, weights)[i] \in (IF i = Len(weights) THEN {share} ELSE {share, share + 1})
<1> DEFINE d == SumOf(weights)
           n == Len(weights)
           D == DOMAIN weights
           p == [i \in D |-> (a * weights[i]) \div d]
           over == a - SumOf(p)
           h == Allocate(a, weights)
<1>1. n \in Nat /\ D = 1 .. n /\ weights \in [1 .. n -> Int]
  OBVIOUS
<1>2. d = SumFunctionOnSet(weights, 1 .. n)
  BY <1>1, SumOfIsSum
<1>3. d \in Int /\ d > 0 /\ n > 0
  <2>1. IsFiniteSet(1 .. n)
    <3>1. 1 \in Int /\ n \in Int
      BY <1>1
    <3> QED BY <3>1, FS_Interval
  <2>2. d \in Int
    <3> HIDE DEF n
    <3> DEFINE B == 1 .. n
    <3>1. weights \in [B -> Int] /\ IsFiniteSet(B) /\ B \subseteq B
      BY <1>1, <2>1
    <3> HIDE DEF B
    <3>2. SumFunctionOnSet(weights, B) \in Int
      BY <3>1, SumIsInt
    <3> QED BY <1>2, <3>2 DEF B
  <2>3. ASSUME n = 0 PROVE d = 0
    <3>1. 1 .. n = {}
      BY <2>3
    <3>2. SumFunctionOnSet(weights, {}) = 0
      BY <1>1, SumOfNone
    <3> QED BY <1>2, <3>1, <3>2
  <2> QED BY <1>1, <2>2, <2>3
<1> HIDE DEF n, D, d
<1>4. p \in [1 .. n -> Int] /\ p \in Seq(Int)
      /\ \A i \in 1 .. n : p[i] = (a * weights[i]) \div d /\ d * p[i] <= a * weights[i] /\ a * weights[i] < d * p[i] + d
  <2>1. ASSUME NEW i \in 1 .. n
        PROVE  /\ p[i] \in Int /\ p[i] = (a * weights[i]) \div d
               /\ d * p[i] <= a * weights[i] /\ a * weights[i] < d * p[i] + d
    <3> DEFINE m == a * weights[i]
    <3>1. m \in Int /\ p[i] = m \div d
      BY <1>1
    <3> HIDE DEF m, p
    <3>2. m \div d \in Int
      BY <1>3, <3>1
    <3> DEFINE q == p[i]
    <3>3. q \in Int /\ q = m \div d
      BY <3>1, <3>2
    <3> HIDE DEF q
    <3>4. d * q <= m /\ m < d * q + d
      BY <1>3, <3>1, <3>3, Divided
    <3> QED BY <3>3, <3>4 DEF q, m
  <2>2. DOMAIN p = 1 .. n /\ p = [i \in 1 .. n |-> p[i]]
    BY <1>1
  <2> HIDE DEF p
  <2>3. p \in [1 .. n -> Int]
    BY <2>1, <2>2
  <2> QED BY <1>1, <2>1, <2>3
<1> HIDE DEF p
<1>5. SumOf(p) = SumFunctionOnSet(p, 1 .. n)
  <2>1. DOMAIN p = 1 .. n
    BY <1>4
  <2> QED BY <1>4, <2>1, SumOfIsSum
<1>6. over \in Int /\ 0 <= over /\ over < n /\ SumOf(p) \in Int /\ SumOf(p) + over = a
  <2>1. /\ SumFunctionOnSet(p, 1 .. n) \in Int
        /\ 0 <= a - SumFunctionOnSet(p, 1 .. n) /\ a - SumFunctionOnSet(p, 1 .. n) < n
    BY <1>1, <1>2, <1>3, <1>4, FloorsFallShort
  <2> QED BY <1>5, <2>1
<1> HIDE DEF over
<1>8. over \div n = 0 /\ over % n = over
  BY <1>1, <1>6, LittleLeft
<1>9. h = [i \in 1 .. n |-> p[i] + (IF i <= over THEN 1 ELSE 0)]
  <2>1. h = [i \in D |-> IF d <= 0 THEN 0 ELSE (a * weights[i]) \div d + over \div n + (IF i <= over % n THEN 1 ELSE 0)]
    BY DEF Allocate, over, n, d, p, D
  <2>2. ~(d <= 0)
    BY <1>3
  <2> HIDE DEF h
  <2>3. ASSUME NEW i \in 1 .. n
        PROVE  (a * weights[i]) \div d + 0 + (IF i <= over THEN 1 ELSE 0) = p[i] + (IF i <= over THEN 1 ELSE 0)
    BY <1>4
  <2> QED BY <1>1, <1>8, <2>1, <2>2, <2>3
<1>10. h \in [1 .. n -> Int] /\ \A i \in 1 .. n : h[i] = p[i] + 0 + (IF i <= over THEN 1 ELSE 0)
  <2> HIDE DEF h
  <2>1. \A i \in 1 .. n : p[i] \in Int
    BY <1>4
  <2> QED BY <1>9, <2>1
<1> HIDE DEF h
<1>11. SumFunctionOnSet(h, 1 .. n) = SumFunctionOnSet(p, 1 .. n) + n * 0 + over
  <2>1. over \in 0 .. n /\ 0 \in Int /\ p \in [1 .. n -> Int]
    BY <1>1, <1>4, <1>6
  <2> QED BY <1>1, <1>10, <2>1, SumIsRaised
<1>12. SumOf(h) = SumFunctionOnSet(h, 1 .. n)
  <2>1. DOMAIN h = 1 .. n /\ h \in Seq(Int)
    BY <1>1, <1>10
  <2> QED BY <2>1, SumOfIsSum
<1>13. SumOf(h) = a
  BY <1>1, <1>5, <1>6, <1>11, <1>12
<1>14. ASSUME NEW i \in D
       PROVE  h[i] \in (IF i = n THEN {(a * weights[i]) \div d} ELSE {(a * weights[i]) \div d, (a * weights[i]) \div d + 1})
  <2>1. i \in 1 .. n /\ p[i] \in Int /\ p[i] = (a * weights[i]) \div d
    BY <1>1, <1>4
  <2>2. h[i] = p[i] + 0 + (IF i <= over THEN 1 ELSE 0)
    BY <1>10, <2>1
  <2>3. h[i] = p[i] \/ h[i] = p[i] + 1
    BY <2>1, <2>2
  <2>4. i = n => h[i] = p[i]
    <3>1. CASE i = n
      <4>1. ~(i <= over)
        BY <1>1, <1>6, <3>1
      <4> QED BY <2>1, <2>2, <4>1
    <3> QED BY <3>1
  <2> QED BY <2>1, <2>3, <2>4
<1> QED BY <1>13, <1>14 DEF h, d, D, n
=============================================================================
