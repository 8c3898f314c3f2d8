--------------------------------- MODULE Outbox ---------------------------------
(***************************************************************************)
(* The device's side of editing one record: the outbox (remote/outbox.ts), *)
(* a save that waits for its answer (save.ts), a sync run that sends and   *)
(* pulls (sync.ts), the four modes of connectivity.ts, and what a person   *)
(* may do with a failed change (retry.ts, Settings -> Sync).               *)
(*                                                                         *)
(* The server answers an entry it has seen with what it answered before;   *)
(* how it gets there through crashes is SyncPush.  What other devices do   *)
(* is a raised version.  Ids made offline are taken as the server's.       *)
(***************************************************************************)
EXTENDS Naturals, Sequences, FiniteSets, SequencesExt

CONSTANTS
  Known0,     \* BOOLEANs: is the record on the server, and here, at the start?
  MaxSaves,   \* bound: edits made on this device, numbered in the order they are made
  MaxEvents   \* bound: faults, refusals, edits of others and choices of the person

VARIABLES
  doc,      \* the server's record: its version (0: there is none) and what it says
  answers,  \* answers[i]: what the server recorded for entry i
  late,     \* requests nobody waits for that may still arrive
  row,      \* what the record says on this device
  shown,    \* history: the version of the server's copy the row is, or was edited from
  older,    \* history: was an older copy ever shown after a newer one?
  known,    \* meta.versions: 0, or the version later edits are made against
  cursor,   \* the version the pull has got to
  queue,    \* syncQueue
  nextId,   \* the next entry id
  run,      \* what the sync run is at
  saving,   \* the save that waits for its answer
  mode, link,
  made,     \* edits made so far
  outcome,  \* outcome[n]: what the person was told of edit n
  reached,  \* history: the edits the server has carried out
  discarded, \* history: the edits the person discarded
  revived,  \* history: the last edit that revived a refused create, or made the record anew
  overtaken, \* history: the edits behind an entry that took a newer one
  events

server == <<doc, answers, late, reached>>
screen == <<row, shown, older>>
store == <<screen, known, queue, nextId>>
saves == <<saving, outcome, made, discarded, revived, overtaken>>
vars == <<server, store, cursor, run, saves, mode, link, events>>

Edits == 1 .. MaxSaves
None == <<"none", 0>>
Mine(n) == <<"me", n>>
Theirs(v) == <<"them", v>>
Bodies == {"none", "me", "them"} \X Nat
NoBase == 0
Modes == {"online", "readonly", "offline", "draining"}

\* An entry; saw is history: the version that was on screen when it was last decided on
Entry == [id : Nat, method : {"POST", "PUT"}, n : Nat, base : Nat, sent : BOOLEAN, tries : BOOLEAN,
          status : {"pending", "failed"}, conflict : BOOLEAN, saw : Nat]
\* A push result, with the server's copy
Result == [is : {"applied", "rejected", "conflict", "retry"}, v : Nat, body : Bodies]
Res(is, d) == [is |-> is, v |-> d.v, body |-> d.body]
NoEntry == [id |-> 0, method |-> "PUT", n |-> 0, base |-> NoBase, sent |-> FALSE, tries |-> FALSE,
            status |-> "pending", conflict |-> FALSE, saw |-> 0]
NoRes == [is |-> "retry", v |-> 0, body |-> None]
Idle == [st |-> "idle", tried |-> {}, ask |-> NoEntry, got |-> NoRes]
NotSaving == [id |-> 0, n |-> 0, before |-> None, shown |-> 0]

TypeOK ==
  /\ doc \in [v : Nat, body : Bodies]
  /\ \A i \in DOMAIN answers : answers[i] \in Result
  /\ late \subseteq Entry /\ reached \cup discarded \cup overtaken \subseteq Edits
  /\ row \in Bodies /\ {shown, known, cursor, nextId, made, revived, events} \subseteq Nat
  /\ queue \in Seq(Entry)
  /\ run \in [st : {"idle", "asked", "answered", "pull", "pulled"}, tried : SUBSET Nat, ask : Entry, got : Result]
  /\ saving \in [id : Nat, n : Nat, before : Bodies, shown : Nat]
  /\ mode \in Modes /\ {link, older} \subseteq BOOLEAN
  /\ outcome \in [Edits -> {"none", "saved", "folded", "queued", "refused", "unreachable", "unconfirmed"}]

Init ==
  /\ \E k \in Known0 :
       /\ doc = IF k THEN [v |-> 1, body |-> Theirs(1)] ELSE [v |-> 0, body |-> None]
       /\ row = doc.body /\ shown = doc.v /\ known = doc.v /\ cursor = doc.v
  /\ answers = <<>> /\ late = {} /\ queue = <<>> /\ nextId = 1
  /\ run = Idle /\ saving = NotSaving
  /\ mode = "online" /\ link = TRUE /\ older = FALSE
  /\ made = 0 /\ outcome = [n \in Edits |-> "none"] /\ reached = {} /\ discarded = {} /\ overtaken = {} /\ revived = 0 /\ events = 0

Happens == events < MaxEvents /\ events' = events + 1

-----------------------------------------------------------------------------
(* The queue.  Everything in it is about the one record. *)

Pending(e) == e.status = "pending"
Failed(e) == ~Pending(e)
\* blockerOf: an earlier change of the record that failed
Blocked(q, e) == Pending(e) /\ \E i \in DOMAIN q : Failed(q[i])
\* dropAll of one change; ids are never used twice.
Without(q, id) == IF \E i \in DOMAIN q : q[i].id = id THEN RemoveAt(q, CHOOSE i \in DOMAIN q : q[i].id = id) ELSE q
Replaced(q, i, e) == [q EXCEPT ![i] = e]
\* rebase: entries made against a version move on to the new one; the others have none and keep none.
Rebased(q, v) == [i \in DOMAIN q |-> IF Pending(q[i]) /\ q[i].base # NoBase THEN [q[i] EXCEPT !.base = v] ELSE q[i]]

\* connectivity.ts hasPending
Waits(q) == \E i \in DOMAIN q : Pending(q[i]) /\ ~q[i].tries /\ ~Blocked(q, q[i])
\* settleDrain, which follows every change of the queue
SettleDrain(q) == mode' = IF mode = "draining" /\ ~Waits(q) /\ link THEN "online" ELSE mode
\* What the record says on this device
Shows(body, v) == row' = body /\ shown' = v /\ older' = (older \/ v < shown)
Lost == mode' = IF mode = "draining" THEN "offline" ELSE IF mode = "online" THEN "readonly" ELSE mode

-----------------------------------------------------------------------------
(* Saving *)

New(method, n, base) == [NoEntry EXCEPT !.id = nextId, !.method = method, !.n = n, !.base = base, !.saw = shown]
Enqueue(e) == queue' = Append(queue, e) /\ nextId' = nextId + 1

\* upsert, a create not sent yet: the edit folds into it.
FoldIntoCreate(n) ==
  \E i \in DOMAIN queue :
    /\ queue[i].method = "POST" /\ Pending(queue[i]) /\ ~queue[i].sent
    /\ queue' = Replaced(queue, i, [queue[i] EXCEPT !.n = n, !.saw = shown])
    /\ UNCHANGED nextId
\* A create that was refused goes again, with the edit, under a new id.
ReviveCreate(n) ==
  \E i \in DOMAIN queue :
    /\ queue[i].method = "POST" /\ Failed(queue[i])
    /\ queue' = Replaced(queue, i, [queue[i] EXCEPT !.id = nextId, !.status = "pending", !.sent = FALSE, !.n = n, !.saw = shown])
    /\ nextId' = nextId + 1
\* Behind a create that was sent: an update without a version.
BehindCreate(n) ==
  /\ \E e \in Range(queue) : e.method = "POST" /\ Pending(e) /\ e.sent
  /\ Enqueue(New("PUT", n, NoBase))
NoCreate == \A e \in Range(queue) : e.method # "POST"
Create(n) == NoCreate /\ known = 0 /\ Enqueue(New("POST", n, NoBase))
\* Mutant: an edit folds into an entry that was sent.
FoldableSent(e) == e.method = "PUT" /\ Pending(e)
Foldable(e) == e.method = "PUT" /\ Pending(e) /\ ~e.sent
FoldIntoUpdate(n) ==
  /\ NoCreate /\ known # 0
  /\ \E i \in DOMAIN queue :
       /\ Foldable(queue[i]) /\ \A j \in 1 .. i - 1 : ~Foldable(queue[j])
       /\ queue' = Replaced(queue, i, [queue[i] EXCEPT !.n = n, !.saw = shown])
  /\ UNCHANGED nextId
Update(n) ==
  /\ NoCreate /\ known # 0 /\ ~\E e \in Range(queue) : Foldable(e)
  /\ Enqueue(New("PUT", n, known))

Upsert(n) == \/ FoldIntoCreate(n) \/ ReviveCreate(n) \/ BehindCreate(n) \/ Create(n)
             \/ FoldIntoUpdate(n) \/ Update(n)

\* saveOnline: one save at a time waits.  Nothing new in the queue means nothing to wait for
\* ("folded": the code says `saved`).
\* A record that is not on the device is not edited; a new one has an id of its own.
Save ==
  LET n == made + 1 IN
  /\ made < MaxSaves /\ saving = NotSaving /\ mode # "readonly"
  /\ row # None \/ made = 0
  /\ Upsert(n)
  /\ revived' = IF (\E e \in Range(queue) : e.method = "POST" /\ Failed(e)) \/ (made # 0 /\ NoCreate /\ known = 0) THEN n ELSE revived
  /\ overtaken' = overtaken \cup {queue[j].n : j \in {j \in DOMAIN queue : \E i \in 1 .. j - 1 : queue'[i] # queue[i]}}
  /\ made' = n /\ row' = Mine(n)
  /\ IF nextId' = nextId THEN outcome' = [outcome EXCEPT ![n] = "folded"] /\ UNCHANGED saving
     ELSE IF mode # "online" THEN outcome' = [outcome EXCEPT ![n] = "queued"] /\ UNCHANGED saving
     ELSE saving' = [id |-> nextId, n |-> n, before |-> row, shown |-> shown] /\ UNCHANGED outcome
  /\ SettleDrain(queue')
  /\ UNCHANGED <<server, shown, older, known, cursor, run, discarded, link, events>>

\* No answer in time: kept if the person went on offline meanwhile, else undone and dropped.
\* A change that was sent has been asked about again before this.
GiveUp ==
  /\ saving # NotSaving
  /\ IF mode \in {"offline", "draining"}
     THEN /\ outcome' = [outcome EXCEPT ![saving.n] = "queued"]
          /\ UNCHANGED <<screen, queue, mode>>
     ELSE /\ Shows(saving.before, saving.shown)
          /\ queue' = Without(queue, saving.id)
          /\ outcome' = [outcome EXCEPT ![saving.n] =
                           IF \E e \in Range(queue) : e.id = saving.id /\ e.sent THEN "unconfirmed" ELSE "unreachable"]
          /\ SettleDrain(queue')
  /\ saving' = NotSaving
  /\ UNCHANGED <<server, known, nextId, cursor, run, made, discarded, revived, overtaken, link, events>>

-----------------------------------------------------------------------------
(* A sync run *)

\* nextBatch: one entry of a record at a time, in order
Sendable(q, i, tried) == Pending(q[i]) /\ q[i].id \notin tried /\ ~Blocked(q, q[i])
First(q, tried, i) == Sendable(q, i, tried) /\ \A j \in 1 .. i - 1 : ~Sendable(q, j, tried)
AsSent(e) == [e EXCEPT !.sent = TRUE]
\* The next entry is marked as sent before the request goes out; with none left the pull begins.
GoOn(q, tried) ==
  \/ \E i \in DOMAIN q :
       /\ First(q, tried, i)
       /\ queue' = Replaced(q, i, AsSent(q[i]))
       /\ run' = [st |-> "asked", tried |-> tried, ask |-> queue'[i], got |-> NoRes]
  \/ /\ \A i \in DOMAIN q : ~Sendable(q, i, tried)
     /\ queue' = q
     /\ run' = [Idle EXCEPT !.st = "pull"]

Held == mode = "offline"
\* Offline mode holds the outbox; the pull goes on.
StartRun ==
  /\ run = Idle
  /\ IF Held THEN run' = [Idle EXCEPT !.st = "pull"] /\ UNCHANGED queue ELSE GoOn(queue, {})
  /\ UNCHANGED <<server, screen, known, nextId, cursor, saves, mode, link, events>>

\* settleWaiting: a save still waiting behind a failed change is given up with the run's end.
\* The request of a run that ends in error may still arrive.
Asking == IF run.st = "asked" THEN {run.ask} ELSE {}
NetError ==
  /\ run # Idle /\ Happens
  /\ run' = Idle
  /\ late' \in {late} \cup {late \cup {e} : e \in Asking}
  /\ link' = FALSE /\ IF link THEN Lost ELSE UNCHANGED mode
  /\ UNCHANGED <<doc, answers, reached, store, cursor, saves>>
\* The server answers with an error of its own: the run goes on to the pull, and ends in error.
PushError ==
  /\ run.st = "asked" /\ Happens
  /\ run' = [run EXCEPT !.st = "pull"]
  /\ late' \in {late} \cup {late \cup {e} : e \in Asking}
  /\ UNCHANGED <<doc, answers, reached, store, cursor, saves, mode, link>>

-----------------------------------------------------------------------------
(* The server *)

Recorded(e, r) == answers' = [i \in DOMAIN answers \cup {e.id} |-> IF i = e.id THEN r ELSE answers[i]]
Executed(e) ==
  /\ doc' = [v |-> doc.v + 1, body |-> Mine(e.n)]
  /\ reached' = reached \cup {e.n}
  /\ Recorded(e, Res("applied", doc'))
  /\ UNCHANGED events
NotExecuted == UNCHANGED <<doc, reached>>

\* Carrying an entry out for the first time
Runs(e) ==
  /\ e.id \notin DOMAIN answers
  /\ \/ e.method = "POST" /\ doc.v = 0 /\ Executed(e)
     \* already created under another entry: the copy is handed back
     \/ e.method = "POST" /\ doc.v # 0 /\ NotExecuted /\ Recorded(e, Res("applied", doc)) /\ UNCHANGED events
     \/ e.method = "PUT" /\ doc.v # 0 /\ e.base \in {NoBase, doc.v} /\ Executed(e)
     \/ /\ e.method = "PUT" /\ doc.v # 0 /\ e.base \notin {NoBase, doc.v}
        /\ NotExecuted /\ Recorded(e, Res("conflict", doc)) /\ UNCHANGED events
     \/ /\ e.method = "PUT" /\ doc.v = 0
        /\ NotExecuted /\ Recorded(e, Res("rejected", doc)) /\ UNCHANGED events
     \/ NotExecuted /\ Happens /\ Recorded(e, Res("rejected", doc))

Serve ==
  /\ run.st = "asked"
  /\ \/ Runs(run.ask) /\ run' = [run EXCEPT !.st = "answered", !.got = answers'[run.ask.id]]
     \/ /\ run.ask.id \in DOMAIN answers
        /\ run' = [run EXCEPT !.st = "answered", !.got = answers[run.ask.id]]
        /\ UNCHANGED <<doc, answers, reached, events>>
     \* a passing error, or a copy of it still being applied: nothing is recorded
     \/ /\ run.ask.id \notin DOMAIN answers /\ Happens
        /\ run' = [run EXCEPT !.st = "answered", !.got = Res("retry", doc)]
        /\ UNCHANGED <<doc, answers, reached>>
  /\ UNCHANGED <<late, store, cursor, saves, mode, link>>

ServeLate(e) ==
  /\ \/ Runs(e)
     \/ e.id \in DOMAIN answers /\ UNCHANGED <<doc, answers, reached, events>>
  /\ late' = late \ {e}
  /\ UNCHANGED <<store, cursor, run, saves, mode, link>>

EditByOther ==
  /\ doc.v # 0 /\ Happens
  /\ doc' = [v |-> doc.v + 1, body |-> Theirs(doc.v + 1)]
  /\ UNCHANGED <<answers, late, reached, store, cursor, run, saves, mode, link>>

-----------------------------------------------------------------------------
(* Handling the answer, and with it the save that waits for it *)

Asked == run.ask
Tried == run.tried \cup {Asked.id}
Answered(is) == run.st = "answered" /\ run.got.is = is
Told(o) ==
  IF saving.id = Asked.id THEN saving' = NotSaving /\ outcome' = [outcome EXCEPT ![saving.n] = o]
  ELSE UNCHANGED <<saving, outcome>>
Applied == Shows(run.got.body, run.got.v)

HandleApplied ==
  LET left == Without(queue, Asked.id) IN
  /\ Answered("applied")
  /\ GoOn(Rebased(left, run.got.v), Tried) /\ known' = run.got.v
  \* Something newer is queued for it: the local copy stays.
  /\ IF \E i \in DOMAIN left : Pending(left[i]) THEN UNCHANGED screen ELSE Applied
  /\ Told("saved") /\ SettleDrain(queue')
  /\ UNCHANGED <<server, nextId, cursor, made, discarded, revived, overtaken, link, events>>

\* The entry may have been given up meanwhile: then there is nothing to note.
HandleRetry ==
  /\ Answered("retry")
  /\ GoOn([i \in DOMAIN queue |-> IF queue[i].id = Asked.id THEN [queue[i] EXCEPT !.tries = TRUE] ELSE queue[i]], Tried)
  /\ SettleDrain(queue')
  /\ UNCHANGED <<server, screen, known, nextId, cursor, saves, link, events>>

\* Failed, and kept until the person decides; a save that waited for it is over and leaves nothing.
Refuse(conflict) ==
  GoOn(IF saving.id = Asked.id THEN Without(queue, Asked.id)
       ELSE [i \in DOMAIN queue |-> IF queue[i].id # Asked.id THEN queue[i]
               ELSE [queue[i] EXCEPT !.status = "failed", !.tries = TRUE, !.conflict = conflict]], Tried)
HandleConflict ==
  /\ Answered("conflict")
  /\ Applied /\ known' = run.got.v
  /\ Refuse(TRUE) /\ Told("refused") /\ SettleDrain(queue')
  /\ UNCHANGED <<server, nextId, cursor, made, discarded, revived, overtaken, link, events>>
HandleRejected ==
  /\ Answered("rejected")
  /\ Refuse(FALSE) /\ Told("refused") /\ SettleDrain(queue')
  /\ IF saving.id = Asked.id THEN Shows(saving.before, saving.shown) ELSE UNCHANGED screen
  /\ UNCHANGED <<server, known, nextId, cursor, made, discarded, revived, overtaken, link, events>>

-----------------------------------------------------------------------------
(* Pulling, and the person *)

Pull ==
  /\ run.st = "pull"
  /\ run' = [run EXCEPT !.st = "pulled", !.got = Res("applied", doc)]
  /\ UNCHANGED <<server, store, cursor, saves, mode, link, events>>

\* Mutant: a pull moves the known version of a row it leaves as it is.
ApplyPullVersionOnly ==
  /\ run.st = "pulled"
  /\ known' = IF run.got.v > cursor THEN run.got.v ELSE known
  /\ IF run.got.v > cursor /\ (queue = <<>> \/ row = None) THEN Applied ELSE UNCHANGED screen
  /\ cursor' = run.got.v
  /\ run' = Idle /\ link' = TRUE /\ UNCHANGED mode
  /\ UNCHANGED <<server, queue, nextId, saves, events>>
\* applyChanges: a row with a change still to send is left as it is, and the cursor moves on.
\* The run that gets here has reached the server; it says so unless its push failed, which it
\* still has in hand then.
PushFailed == run.ask # NoEntry
ApplyPull ==
  /\ run.st = "pulled"
  /\ IF run.got.v > cursor /\ (queue = <<>> \/ row = None)
     THEN Applied /\ known' = run.got.v
     ELSE UNCHANGED <<screen, known>>
  /\ cursor' = run.got.v
  /\ run' = Idle
  /\ link' = (link \/ ~PushFailed)
  /\ mode' = CASE mode = "readonly" /\ ~PushFailed -> "online"
               [] mode = "draining" /\ ~Waits(queue) /\ link' -> "online"
               [] OTHER -> mode
  /\ UNCHANGED <<server, queue, nextId, saves, events>>

LinkLost ==
  /\ link /\ Happens
  /\ link' = FALSE /\ Lost
  /\ UNCHANGED <<server, store, cursor, run, saves>>
LinkBack ==
  /\ ~link
  /\ link' = TRUE
  /\ mode' = IF mode = "readonly" THEN "online" ELSE mode
  /\ UNCHANGED <<server, store, cursor, run, saves, events>>
AcceptOffline ==
  /\ mode = "readonly"
  /\ mode' = "offline"
  /\ UNCHANGED <<server, store, cursor, run, saves, link, events>>
\* The connection has been back for long enough.
Drain ==
  /\ mode = "offline" /\ link
  /\ mode' = "draining"
  /\ UNCHANGED <<server, store, cursor, run, saves, link, events>>

\* requeue: under a new id, against the version the device knows now
Retry(i) ==
  /\ Failed(queue[i]) /\ Happens
  /\ queue' = Replaced(queue, i, [queue[i] EXCEPT !.id = nextId, !.status = "pending", !.sent = FALSE, !.conflict = FALSE,
                 !.base = IF @ = NoBase THEN NoBase ELSE IF known # 0 THEN known ELSE @, !.saw = shown])
  /\ nextId' = nextId + 1
  /\ SettleDrain(queue')
  /\ UNCHANGED <<server, screen, known, cursor, run, saves, link>>
\* The change is dropped and everything reloaded, if the server is reached: a row with another change
\* to send is kept, one the server does not have is gone.
Discard(i) ==
  /\ Failed(queue[i]) /\ link /\ Happens /\ run = Idle
  /\ queue' = Without(queue, queue[i].id)
  /\ \/ UNCHANGED <<screen, known, cursor>>
     \/ /\ IF queue' = <<>> THEN Shows(doc.body, doc.v) /\ known' = doc.v ELSE UNCHANGED <<screen, known>>
        /\ cursor' = doc.v
  /\ discarded' = discarded \cup {queue[i].n}
  /\ SettleDrain(queue')
  /\ UNCHANGED <<server, nextId, run, saving, outcome, made, revived, overtaken, link>>

\* The app is closed and opened again: what was queued goes out after the connection has stayed back.
Restart ==
  /\ Happens
  /\ late' \in {late} \cup {late \cup {e} : e \in Asking}
  /\ run' = Idle /\ saving' = NotSaving
  /\ mode' = IF Waits(queue) THEN "offline" ELSE IF link THEN "online" ELSE "readonly"
  /\ UNCHANGED <<doc, answers, reached, store, cursor, outcome, made, discarded, revived, overtaken, link>>

-----------------------------------------------------------------------------
Handle == HandleApplied \/ HandleRetry \/ HandleConflict \/ HandleRejected
RunStep == Serve \/ Handle \/ Pull \/ ApplyPull

Next ==
  \/ Save \/ GiveUp \/ StartRun \/ RunStep \/ NetError \/ PushError
  \/ EditByOther \/ \E e \in late : ServeLate(e)
  \/ LinkLost \/ LinkBack \/ AcceptOffline \/ Drain \/ Restart
  \/ \E i \in DOMAIN queue : Retry(i) \/ Discard(i)

Spec == Init /\ [][Next]_vars

Fairness == WF_vars(StartRun) /\ WF_vars(RunStep) /\ WF_vars(LinkBack) /\ WF_vars(Drain) /\ WF_vars(GiveUp)

-----------------------------------------------------------------------------
(* Properties *)

CarriedOut(e) == e.id \notin DOMAIN answers /\ e.id \in DOMAIN answers' /\ doc' # doc

\* save.ts "`unreachable`: no connection, so nothing was kept", "`refused`: the server said no":
\* what a person is told so of, and types in again, is not found twice.
NothingKeptIsNothingSent ==
  \A n \in Edits : outcome[n] \in {"refused", "unreachable"} => n \notin reached

\* save.ts:18 "`saved`: the server has it", of a save that waited: also when what answers it was
\* sent earlier, given up, or made by an earlier entry.
SavedIsThere == [][\A n \in Edits : saving.n = n /\ outcome'[n] = "saved" => n \in reached \/ revived # 0]_vars

\* save.ts:18 "`queued`: kept on this device (offline mode), sent when it can be": until the server
\* has it, or the person discards it, the outbox holds the edit or one made on top of it.
QueuedIsKept ==
  \A n \in Edits : outcome[n] \in {"queued", "folded"} =>
    \/ \E i \in DOMAIN queue : queue[i].n >= n
    \/ \E k \in reached \cup discarded : k >= n
QueuedIsKeptUnlessRevived == QueuedIsKept \/ revived # 0

Overwrites(e) == doc.v # 0 /\ doc.body \notin {Mine(n) : n \in Edits} /\ e.saw < doc.v
\* "Nothing is ever overwritten silently": an edit never replaces what another saved unless
\* that was on the screen when the edit was made, or sent again.
NoSilentOverwrite ==
  [][\A e \in late \cup Asking : CarriedOut(e) => ~Overwrites(e)]_vars
\* The same of edits that carry the version they were made against, while the device has not gone
\* back to an older copy and has made the record once.
NoSilentOverwriteWithBase ==
  [][\A e \in late \cup Asking : CarriedOut(e) /\ e.base # NoBase => ~Overwrites(e) \/ older \/ revived # 0]_vars

\* sync.ts:266 "The next entries to send, in order": the server carries edits out in the order
\* they were made.
EditsInOrder ==
  [][\A e \in late \cup Asking : CarriedOut(e) => \A k \in reached : k < e.n]_vars
\* The same of entries still in the outbox that the server has not asked to have again, and that
\* were not behind one that took a newer edit.
EditsInOrderAtFirst ==
  [][\A e \in late \cup Asking : CarriedOut(e) =>
       \A i \in DOMAIN queue : queue[i].id = e.id /\ ~queue[i].tries /\ e.n \notin overtaken => \A k \in reached : k < e.n]_vars

\* What was queued is sent and answered, or waits for the person, once faults stop.
EveryChangeIsAnswered ==
  \A n \in Edits : outcome[n] \in {"queued", "folded"} ~>
    \A i \in DOMAIN queue : queue[i].n = n => Failed(queue[i]) \/ Blocked(queue, queue[i])

\* What is in the outbox is what was promised to be sent, and nothing else.
QueueIsSound == TypeOK /\ NothingKeptIsNothingSent /\ QueuedIsKeptUnlessRevived

\* What the server carries out is what the device was told of, made against what it showed, and in its order.
EditsLand == SavedIsThere /\ NoSilentOverwriteWithBase /\ EditsInOrderAtFirst
=============================================================================
