------------------------------- MODULE ChangeFeed -------------------------------
(***************************************************************************)
(* The change log (recordChange, apps/api/src/lib/audit.ts), the pull of   *)
(* it (syncPull, apps/api/src/modules/sync/handlers.ts), and the device    *)
(* that follows it (packages/app/remote/sync.ts, session.ts).  The device  *)
(* has nothing of its own to send.                                         *)
(*                                                                         *)
(* A change is logged in the transaction that makes it, under that         *)
(* transaction's id; ids are given in the order of the first writes,       *)
(* commits come in any order.  Within a transaction the rows of the log    *)
(* are numbered as they are written (seq).                                 *)
(***************************************************************************)
EXTENDS Naturals, FiniteSets, Sequences

CONSTANTS
  Entities,   \* synced rows; a business is one of them, the row of itself
  CompanyOf,  \* CompanyOf[e]: the business of e; CompanyOf[c] = c for a business c
  Foundings,  \* sequences of rows that may have been written first, by transaction 1
  Members0,       \* the businesses the account is in from the start
  Requests,   \* the write requests that may be under way at once
  Limit,      \* how many changes a page holds
  MaxTx,      \* bound: transactions
  MaxWrites,  \* bound: logged changes of one transaction
  MaxEvents   \* bound: answers lost, reads that fail, sign-outs and reloads

VARIABLES
  store,    \* store[e]: the version of e that is committed, or Absent
  tx,       \* tx[r]: the transaction of request r
  nextTx,   \* the next transaction id
  log,      \* the committed rows of change_log
  member,   \* the businesses of the account
  signedIn,
  session,  \* moves on at sign-out
  cursor,   \* the device's cursor
  copy,     \* copy[e]: the version of e the device has, or Absent
  task,     \* task[p]: what the sync run, or a reload, is at
  whole,    \* history: the businesses of which a snapshot was taken to its end
  gone,     \* history: the rows the device had when it began its first snapshot
  mixed,    \* history: a reload replaced the copy in the middle of a sync run, or of another session
  events

server == <<store, tx, nextTx, log>>
device == <<member, signedIn, session, cursor, copy, task, whole, gone, mixed, events>>
vars == <<server, device>>

Companies == {CompanyOf[e] : e \in Entities}
Pullers == {"sync", "reload"}
Absent == 0
Nothing == [e \in Entities |-> Absent]
Start == [tx |-> 0, n |-> 0]
NoTx == [id |-> 0, seen |-> Nothing, rows |-> {}]

Change == [tx : Nat, n : Nat, e : Entities, op : {"upsert", "delete"}, version : Nat]
Position == [tx : Nat, n : Nat]
\* A snapshot's cursor carries what it is a snapshot of; the first page is asked for without a cursor.
Cursor == [at : Position, snapshot : BOOLEAN, upTo : Position]
Fresh == [at |-> Start, snapshot |-> TRUE, upTo |-> Start]
All == "all"

Pos(c) == [tx |-> c.tx, n |-> c.n]
Before(a, b) == a.tx < b.tx \/ (a.tx = b.tx /\ a.n < b.n)
IsLast(c, S) == c \in S /\ \A d \in S : ~Before(c, d)

Open == {r \in Requests : tx[r].id # 0}

NoTask == [st |-> "idle", of |-> All, todo |-> {}, session |-> 0, since |-> Fresh, covers |-> {}, held |-> Nothing,
           rows |-> {}, data |-> Nothing, snapshot |-> FALSE, upTo |-> Start, next |-> Fresh, more |-> FALSE]

Tasks == [st : {"idle", "ask", "read", "answer"}, of : {All} \cup Companies, todo : SUBSET Companies,
          session : Nat, since : Cursor, covers : SUBSET Companies, held : [Entities -> Nat],
          rows : SUBSET Change, data : [Entities -> Nat], snapshot : BOOLEAN, upTo : Position,
          next : Cursor, more : BOOLEAN]

TypeOK ==
  /\ store \in [Entities -> Nat] /\ copy \in [Entities -> Nat]
  /\ tx \in [Requests -> [id : Nat, seen : [Entities -> Nat], rows : SUBSET Change]]
  /\ nextTx \in Nat \ {0} /\ events \in Nat /\ session \in Nat
  /\ log \subseteq Change
  /\ cursor \in Cursor
  /\ member \subseteq Companies /\ whole \subseteq Companies /\ gone \subseteq Entities
  /\ signedIn \in BOOLEAN /\ mixed \in BOOLEAN
  /\ task \in [Pullers -> Tasks]

Init ==
  /\ \E f \in Foundings :
       /\ store = [e \in Entities |-> IF \E i \in DOMAIN f : f[i] = e THEN 1 ELSE Absent]
       /\ log = {[tx |-> 1, n |-> i, e |-> f[i], op |-> "upsert", version |-> 1] : i \in DOMAIN f}
  /\ tx = [r \in Requests |-> NoTx] /\ nextTx = 2
  /\ member = Members0
  /\ signedIn = FALSE /\ session = 0
  /\ cursor = Fresh /\ copy = Nothing
  /\ task = [p \in Pullers |-> NoTask]
  /\ whole = {} /\ gone = {} /\ mixed = FALSE /\ events = 0

-----------------------------------------------------------------------------
(* Writing *)

\* What request r sees of e: its own write, or what is committed.
Written(r, e) == {c \in tx[r].rows : c.e = e}
Current(r, e) ==
  IF Written(r, e) = {} THEN store[e]
  ELSE LET c == CHOOSE c \in Written(r, e) : IsLast(c, Written(r, e))
       IN  IF c.op = "delete" THEN Absent ELSE c.version
\* A row written by an open transaction is locked by it.
Lockable(r, e) == \A q \in Requests \ {r} : Written(q, e) = {}
\* The ids of rows are never used twice.
Unused(e) == /\ \A c \in log : c.e # e
             /\ \A r \in Requests : Written(r, e) = {}
CanWrite(r) == r \in Open /\ Cardinality(tx[r].rows) < MaxWrites
Logged(r, e, op, v) ==
  tx' = [tx EXCEPT ![r].rows = @ \cup {[tx |-> tx[r].id, n |-> Cardinality(tx[r].rows) + 1, e |-> e, op |-> op, version |-> v]}]

\* The request has read the rows it is about; its first write gives the transaction its id.
Begin(r) ==
  /\ tx[r].id = 0 /\ nextTx <= MaxTx
  /\ tx' = [tx EXCEPT ![r] = [id |-> nextTx, seen |-> store, rows |-> {}]]
  /\ nextTx' = nextTx + 1
  /\ UNCHANGED <<store, log, device>>

\* A row is made, edited, or moved along by a change of another row.
Upsert(r, e) ==
  /\ CanWrite(r) /\ Lockable(r, e)
  /\ Current(r, e) # Absent \/ Unused(e)
  /\ e \in Companies \/ Current(r, CompanyOf[e]) # Absent
  /\ Logged(r, e, "upsert", Current(r, e) + 1)
  /\ UNCHANGED <<store, nextTx, log, device>>

\* Mutant: the DELETE asks for no version.
DeleteUnguarded(r, e) ==
  /\ CanWrite(r) /\ Lockable(r, e) /\ Current(r, e) # Absent /\ e \notin Companies
  /\ Logged(r, e, "delete", Current(r, e) + 1)
  /\ UNCHANGED <<store, nextTx, log, device>>

\* DELETE ... WHERE version = the version read before the transaction
Delete(r, e) ==
  /\ CanWrite(r) /\ Lockable(r, e) /\ Current(r, e) # Absent /\ e \notin Companies
  /\ Current(r, e) = tx[r].seen[e]
  /\ Logged(r, e, "delete", Current(r, e) + 1)
  /\ UNCHANGED <<store, nextTx, log, device>>

\* A delete that asks for no version is the transaction's first write (removeParty).
DeleteAtOnce(r, e) ==
  /\ tx[r].id = 0 /\ nextTx <= MaxTx
  /\ Lockable(r, e) /\ store[e] # Absent /\ e \notin Companies
  /\ tx' = [tx EXCEPT ![r] = [id |-> nextTx, seen |-> store,
               rows |-> {[tx |-> nextTx, n |-> 1, e |-> e, op |-> "delete", version |-> store[e] + 1]}]]
  /\ nextTx' = nextTx + 1
  /\ UNCHANGED <<store, log, device>>

Commit(r) ==
  /\ r \in Open
  /\ log' = log \cup tx[r].rows
  /\ store' = [e \in Entities |-> Current(r, e)]
  /\ tx' = [tx EXCEPT ![r] = NoTx]
  /\ UNCHANGED <<nextTx, device>>

Abort(r) ==
  /\ r \in Open
  /\ tx' = [tx EXCEPT ![r] = NoTx]
  /\ UNCHANGED <<store, nextTx, log, device>>

-----------------------------------------------------------------------------
(* Answering a pull *)

\* Mutant: every committed change counts as settled.
SettledAny(c) == TRUE
\* pg_snapshot_xmin: older than every transaction still running
Settled(c) == \A r \in Open : c.tx < tx[r].id

Served(p) == {c \in log : IF task[p].of = All THEN CompanyOf[c.e] \in member ELSE CompanyOf[c.e] = task[p].of}
\* The first Limit of the changes found
Page(found) == {c \in found : Cardinality({d \in found : Before(d, c)}) < Limit}
\* Repeated changes to an entity collapse to the latest.
Collapsed(page) == {c \in page : \A d \in page : d.e = c.e => ~Before(c, d)}

Chosen(p, rows, snapshot, upTo, next, more) ==
  /\ task' = [task EXCEPT ![p] = [@ EXCEPT !.st = "read", !.rows = rows, !.snapshot = snapshot, !.upTo = upTo,
                                           !.next = next, !.more = more,
                                           !.covers = IF task[p].since = Fresh THEN member ELSE task[p].covers]]
  /\ gone' = IF p = "sync" /\ task[p].of = All /\ task[p].since = Fresh THEN {e \in Entities : copy[e] # Absent} ELSE gone
  /\ UNCHANGED <<server, member, signedIn, session, cursor, copy, whole, mixed, events>>

\* With a cursor: every settled change after it
PullChanges(p) ==
  /\ task[p].st = "ask" /\ signedIn /\ ~task[p].since.snapshot
  /\ LET found == {c \in Served(p) : Settled(c) /\ Before(task[p].since.at, c)} IN
     \/ found = {} /\ Chosen(p, {}, FALSE, Start, task[p].since, FALSE)
     \/ \E last \in Page(found) :
          /\ IsLast(last, Page(found))
          /\ Chosen(p, Collapsed(Page(found)), FALSE, Start,
                    [at |-> Pos(last), snapshot |-> FALSE, upTo |-> Start], Page(found) # found)

\* The snapshot is as of the last settled change when its first page is asked for.
AsOf(p, upTo) ==
  IF task[p].since # Fresh THEN upTo = task[p].since.upTo
  ELSE \/ {c \in Served(p) : Settled(c)} = {} /\ upTo = Start
       \/ \E c \in log : IsLast(c, {d \in Served(p) : Settled(d)}) /\ upTo = Pos(c)

\* Without one: the latest change of every entity that is alive, page by page
InSnapshot(p, upTo) ==
  {c \in Collapsed({d \in Served(p) : ~Before(upTo, d)}) : c.op # "delete" /\ Before(task[p].since.at, c)}
PullSnapshot(p) ==
  /\ task[p].st = "ask" /\ signedIn /\ task[p].since.snapshot
  /\ \E upTo \in {Start} \cup {Pos(c) : c \in log} :
       /\ AsOf(p, upTo)
       /\ LET found == InSnapshot(p, upTo)
              page == Page(found)
          IN \/ /\ page = found
                /\ Chosen(p, page, TRUE, upTo, [at |-> upTo, snapshot |-> FALSE, upTo |-> Start], FALSE)
             \/ /\ page # found
                /\ \E last \in page :
                     /\ IsLast(last, page)
                     /\ Chosen(p, page, TRUE, upTo, [at |-> Pos(last), snapshot |-> TRUE, upTo |-> upTo], TRUE)

\* The current copy of each change's entity is read afterwards.
DataOf(rows) == [e \in Entities |-> IF \E c \in rows : c.e = e /\ c.op = "upsert" THEN store[e] ELSE Absent]
ReadEntities(p) ==
  /\ task[p].st = "read"
  /\ task' = [task EXCEPT ![p] = [@ EXCEPT !.st = "answer", !.data = DataOf(task[p].rows)]]
  /\ UNCHANGED <<server, member, signedIn, session, cursor, copy, whole, gone, mixed, events>>

Happens == events < MaxEvents /\ events' = events + 1

\* One that cannot be read stops the page short of it; if it is the first, the answer is 503.
ReadFails(p, bad) ==
  LET rows == {c \in task[p].rows : Before(c, bad)} IN
  /\ task[p].st = "read" /\ Happens
  /\ bad.op = "upsert"
  /\ \/ rows = {} /\ task' = [task EXCEPT ![p] = NoTask]
     \/ \E last \in rows :
          /\ IsLast(last, rows)
          /\ task' = [task EXCEPT ![p] = [@ EXCEPT !.st = "answer", !.rows = rows, !.data = DataOf(rows), !.more = TRUE,
                        !.next = [at |-> Pos(last), snapshot |-> task[p].snapshot, upTo |-> task[p].upTo]]]
  /\ UNCHANGED <<server, member, signedIn, session, cursor, copy, whole, gone, mixed>>

-----------------------------------------------------------------------------
(* The device *)

\* applyChanges: an upsert without data is skipped
Applied(have, t) ==
  [e \in Entities |-> IF \E c \in t.rows : c.e = e /\ c.op = "delete" THEN Absent
                      ELSE IF t.data[e] # Absent THEN t.data[e] ELSE have[e]]

\* begin: who the user is and the businesses they are in; the books come with the first pull.
SignIn ==
  /\ ~signedIn
  /\ signedIn' = TRUE
  /\ copy' = [e \in Entities |-> IF e \in member THEN store[e] ELSE Absent]
  /\ cursor' = Fresh /\ whole' = {}
  /\ UNCHANGED <<server, member, session, task, gone, mixed, events>>

\* signOut, clearLocal: everything on the device is forgotten; what was asked for is still on its way.
SignOut ==
  /\ signedIn /\ Happens
  /\ signedIn' = FALSE /\ session' = session + 1
  /\ copy' = Nothing /\ cursor' = Fresh /\ whole' = {}
  /\ UNCHANGED <<server, member, task, gone, mixed>>

\* The account joins a business: an invitation accepted on another device.
Join(c) ==
  /\ c \notin member /\ store[c] # Absent
  /\ member' = member \cup {c}
  /\ UNCHANGED <<server, signedIn, session, cursor, copy, task, whole, gone, mixed, events>>

\* Mutant: a run goes on from a bare position, not a cursor.
OnwardPlain == cursor.at
Onward == cursor
\* A sync run pulls the history of businesses it does not know, one by one, then goes on from the cursor.
GoOn(t, todo) ==
  IF todo = {} THEN [t EXCEPT !.st = "ask", !.of = All, !.todo = {}, !.since = Onward]
  ELSE LET c == CHOOSE c \in todo : TRUE
       IN  [t EXCEPT !.st = "ask", !.of = c, !.todo = todo \ {c}, !.since = Fresh]
\* Mutant: a run pulls only until the first snapshot is there.
MayRunAtFirst == task["sync"].st = "idle" /\ signedIn /\ (cursor.snapshot \/ member # Members0)
MayRun == task["sync"].st = "idle" /\ signedIn
StartRun ==
  /\ MayRun
  /\ task' = [task EXCEPT !["sync"] = GoOn([NoTask EXCEPT !.session = session], {c \in member : copy[c] = Absent})]
  /\ UNCHANGED <<server, member, signedIn, session, cursor, copy, whole, gone, mixed, events>>

\* Settings -> Sync: everything again from the server, once no sync run is under way
StartReload ==
  /\ \A p \in Pullers : task[p].st = "idle"
  /\ signedIn /\ Happens
  /\ task' = [task EXCEPT !["reload"] = [NoTask EXCEPT !.st = "ask", !.session = session]]
  /\ UNCHANGED <<server, member, signedIn, session, cursor, copy, whole, gone, mixed>>

OfThisSession(t) == t.session = session

\* An answer to a request from an earlier session is dropped (assertSession).
DropLate ==
  /\ task["sync"].st = "answer" /\ ~OfThisSession(task["sync"])
  /\ task' = [task EXCEPT !["sync"] = NoTask]
  /\ UNCHANGED <<server, member, signedIn, session, cursor, copy, whole, gone, mixed, events>>

\* pullCompany: the main cursor stays where it is
ApplyCompanyPage ==
  LET t == task["sync"] IN
  /\ t.st = "answer" /\ t.of # All /\ OfThisSession(t)
  /\ copy' = Applied(copy, t)
  /\ IF t.more THEN /\ task' = [task EXCEPT !["sync"] = [t EXCEPT !.st = "ask", !.since = t.next]]
                    /\ UNCHANGED whole
     ELSE /\ task' = [task EXCEPT !["sync"] = GoOn([NoTask EXCEPT !.session = session], t.todo)]
          /\ whole' = whole \cup {t.of}
  /\ UNCHANGED <<server, member, signedIn, session, cursor, gone, mixed, events>>

\* pullAll
ApplyPage ==
  LET t == task["sync"] IN
  /\ t.st = "answer" /\ t.of = All /\ OfThisSession(t)
  /\ copy' = Applied(copy, t)
  /\ cursor' = t.next
  /\ whole' = IF t.snapshot /\ ~t.next.snapshot THEN whole \cup t.covers ELSE whole
  /\ task' = [task EXCEPT !["sync"] = IF t.more THEN [t EXCEPT !.st = "ask", !.since = t.next] ELSE NoTask]
  /\ UNCHANGED <<server, member, signedIn, session, gone, mixed, events>>

\* The app is closed when the page is stored and the cursor is not: they are two stores.
CloseBetween ==
  LET t == task["sync"] IN
  /\ t.st = "answer" /\ t.of = All /\ OfThisSession(t) /\ Happens
  /\ copy' = Applied(copy, t)
  /\ task' = [p \in Pullers |-> NoTask]
  /\ UNCHANGED <<server, member, signedIn, session, cursor, whole, gone, mixed>>

\* reloadSnapshot keeps the pages until the last is there; it does not look at the session.
ApplyReload ==
  LET t == task["reload"] IN
  /\ t.st = "answer"
  /\ IF t.more
     THEN /\ task' = [task EXCEPT !["reload"] = [t EXCEPT !.st = "ask", !.since = t.next, !.held = Applied(t.held, t)]]
          /\ UNCHANGED <<cursor, copy, whole, mixed>>
     ELSE /\ copy' = Applied(t.held, t)
          /\ cursor' = t.next /\ whole' = t.covers
          /\ mixed' = (mixed \/ task["sync"].st # "idle" \/ t.session # session)
          /\ task' = [task EXCEPT !["reload"] = NoTask]
  /\ UNCHANGED <<server, member, signedIn, session, gone, events>>

\* The connection is lost, or the token is gone with the sign-out: the run ends.
PullLost(p) ==
  /\ task[p].st # "idle"
  /\ IF signedIn THEN Happens ELSE UNCHANGED events
  /\ task' = [task EXCEPT ![p] = NoTask]
  /\ UNCHANGED <<server, member, signedIn, session, cursor, copy, whole, gone, mixed>>

-----------------------------------------------------------------------------
Finishes(r) == Commit(r) \/ Abort(r)
Pull(p) == PullChanges(p) \/ PullSnapshot(p) \/ ReadEntities(p)
Apply == DropLate \/ ApplyCompanyPage \/ ApplyPage

Next ==
  \/ \E r \in Requests : Begin(r) \/ Finishes(r)
  \/ \E r \in Requests, e \in Entities : Upsert(r, e) \/ Delete(r, e) \/ DeleteAtOnce(r, e)
  \/ SignIn \/ SignOut \/ \E c \in Companies : Join(c)
  \/ StartRun \/ StartReload \/ Apply \/ ApplyReload \/ CloseBetween
  \/ \E p \in Pullers : Pull(p) \/ PullLost(p) \/ \E c \in task[p].rows : ReadFails(p, c)

Spec == Init /\ [][Next]_vars

\* The device signs in and polls, answers come, and no transaction stays open for ever.
Fairness ==
  /\ WF_vars(SignIn) /\ WF_vars(StartRun) /\ WF_vars(Apply) /\ WF_vars(ApplyReload)
  /\ \A p \in Pullers : WF_vars(Pull(p))
  /\ \A r \in Requests : WF_vars(Finishes(r))

-----------------------------------------------------------------------------
(* Properties *)

\* A change that commits late, under an id given out early, is still ahead of the device:
\* no row ever appears in the log at or before its cursor, nor before the one an answer
\* under way will give it (handlers.ts:194 "a change committing late is never passed over").
NoChangePassedOver ==
  [][\A c \in log' \ log :
       /\ Before(cursor.at, c)
       /\ \A p \in Pullers : task[p].st \in {"read", "answer"} => Before(task[p].next.at, c)]_vars

\* Wherever the device's copy differs from the committed row, a change that tells it so is
\* still to be served.  Data is read after the page is chosen, pages collapse and stop short,
\* answers are lost, a change may sort before another committed earlier, and a business may
\* be joined at any time: none of it leaves a row wrong for good.  (For a business whose
\* history was pulled to its end, and without a reload in the middle of a run: see the README.)
StaleIsStillToCome ==
  \A e \in Entities :
    (~mixed /\ CompanyOf[e] \in whole /\ copy[e] # store[e]) =>
      \/ \E c \in log : c.e = e /\ Before(cursor.at, c)
      \/ e \in gone /\ store[e] = Absent

\* Nothing of the last user's books is left, or comes back, once they have signed out
\* (sync.ts:27 "An answer to a request from an earlier session is dropped, not applied").
\* A reload that was under way is the exception: see LeavesNothingBehind.
SignedOutIsEmpty == (~signedIn /\ ~mixed) => copy = Nothing

\* What the device holds is true of the server, or a change that makes it so is still to come, and
\* nothing of it is left to the next user (sync.ts, apply.ts, session.ts).
CopyIsTrue == StaleIsStillToCome /\ SignedOutIsEmpty

\* Once writing stops, the device ends up with what the server has.
CatchesUp ==
  <>[](~mixed => \A e \in Entities :
          CompanyOf[e] \in whole => copy[e] = store[e] \/ (e \in gone /\ store[e] = Absent))

\* sync.ts:449 "Anything new in the account's list gets its own snapshot": a business the
\* device knows is one whose history it has, or is being pulled.
KnownIsWhole ==
  \A e \in Entities :
    LET c == CompanyOf[e] IN
    (/\ signedIn /\ task["sync"].st = "idle" /\ ~cursor.snapshot
     /\ c \in member /\ copy[c] # Absent /\ copy[e] # store[e])
    => (\E x \in log : x.e = e /\ Before(cursor.at, x)) \/ (e \in gone /\ store[e] = Absent)

\* sync.ts:27, of every request: also those of a reload.
LeavesNothingBehind == ~signedIn => copy = Nothing
=============================================================================
