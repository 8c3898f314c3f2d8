-------------------------------- MODULE Filing ---------------------------------
(***************************************************************************)
(* The GST returns of one month, GSTR-1 and GSTR-3B, saved and filed       *)
(* through the government's portal, whose answers may be lost, and the     *)
(* month's books, closed when GSTR-3B is filed (apps/api/src/modules/gst/  *)
(* filing.ts; saveCompany of modules/companies/handlers.ts).               *)
(*                                                                         *)
(* A request reads first, then calls the portal, then writes what it was   *)
(* told; anything may happen in between, and it may die.                   *)
(***************************************************************************)
EXTENDS Naturals

CONSTANTS
  Requests,  \* requests of people that may be under way at once
  Runners,   \* runs of the gst.returns.recover job
  MaxEdits,  \* bound: savings of the company
  MaxEvents  \* bound: answers lost and deaths

VARIABLES
  row,       \* row[t]: the gst_returns row of return t; lost: its last error is ANSWER_LOST
  company,   \* lock: the books are closed through the month before (0), this one (1) or the next (2)
  setOffs,   \* set-off journals posted for the month, counted up to 2
  portal,    \* portal[t]: what the portal has of return t
  task,      \* task[p]: what request or run p does, and what it has read
  reopened,  \* history: returns written over after they were recorded as filed
  loosened,  \* history: a save of the company moved its lock date back
  events

vars == <<row, company, setOffs, portal, task, reopened, loosened, events>>

Returns == {"gstr1", "gstr3b"}
Procs == Requests \cup Runners
Statuses == {"prepared", "saved", "failed", "submitted", "filed"}
\* "prepared" stands for no row too: nothing tells them apart.
NoReturn == [status |-> "prepared", lost |-> FALSE]
Idle == [op |-> "none", t |-> "gstr1", status |-> "saved", lock |-> 0, version |-> 0]
Ops == {"none", "save", "save write", "advance", "advance write", "track", "file", "mark lost", "check", "record", "recover", "company"}

TypeOK ==
  /\ row \in [Returns -> [status : Statuses, lost : BOOLEAN]]
  /\ company \in [lock : 0 .. 2, version : 0 .. MaxEdits] /\ setOffs \in 0 .. 2
  /\ portal \in [Returns -> {"nothing", "saved", "filed"}]
  /\ task \in [Procs -> [op : Ops, t : Returns, status : {"saved", "failed"}, lock : 0 .. 2, version : 0 .. MaxEdits]]
  /\ reopened \subseteq Returns /\ loosened \in BOOLEAN /\ events \in 0 .. MaxEvents

Init ==
  /\ row = [t \in Returns |-> NoReturn] /\ company = [lock |-> 0, version |-> 0] /\ setOffs = 0
  /\ portal = [t \in Returns |-> "nothing"]
  /\ task = [p \in Procs |-> Idle]
  /\ reopened = {} /\ loosened = FALSE /\ events = 0

-----------------------------------------------------------------------------
(* Helpers *)

Is(p, op) == task[p].op = op
T(p) == task[p].t
\* What a request reads before anything else: its company with its session, then the return.
Starts(p, op, t) ==
  task' = [task EXCEPT ![p] = [Idle EXCEPT !.op = op, !.t = t, !.lock = company.lock, !.version = company.version]]
Goes(p, op) == task' = [task EXCEPT ![p].op = op]
Ends(p) == task' = [task EXCEPT ![p] = Idle]
Happens == events < MaxEvents /\ events' = events + 1
FiledThere(t) == portal[t] = "filed"
KeepsRecord == UNCHANGED <<row, company, setOffs, reopened, loosened>>
\* Written with no look at what the row has become.
Writes(t, r) ==
  /\ row' = [row EXCEPT ![t] = r]
  /\ reopened' = IF row[t].status = "filed" /\ r.status # "filed" THEN reopened \cup {t} ELSE reopened

-----------------------------------------------------------------------------
(* Saved, and made ready to be filed *)

SaveGstReturn(p, t) ==
  /\ task[p] = Idle /\ row[t].status # "filed"
  /\ task' = [task EXCEPT ![p] = [Idle EXCEPT !.op = "save", !.t = t]]
  /\ KeepsRecord /\ UNCHANGED <<portal, events>>
\* The portal takes it, and is asked what came of it; or says no: it was filed.
PortalSaves(p, status) ==
  /\ Is(p, "save") /\ ~FiledThere(T(p))
  /\ portal' = [portal EXCEPT ![T(p)] = "saved"]
  /\ task' = [task EXCEPT ![p].op = "save write", ![p].status = status]
  /\ KeepsRecord /\ UNCHANGED events
WriteSave(p) ==
  /\ Is(p, "save write")
  /\ Writes(T(p), [status |-> task[p].status, lost |-> FALSE])
  /\ Ends(p) /\ UNCHANGED <<company, setOffs, portal, loosened, events>>

\* proceedGstReturn of a GSTR-1, offsetGstReturn of a GSTR-3B
Advance(p, t) ==
  /\ task[p] = Idle /\ row[t].status \in {"saved", "submitted"}
  /\ Starts(p, "advance", t) /\ KeepsRecord /\ UNCHANGED <<portal, events>>
PortalAdvances(p) ==
  /\ Is(p, "advance") /\ ~FiledThere(T(p)) /\ Goes(p, "advance write")
  /\ KeepsRecord /\ UNCHANGED <<portal, events>>
WriteAdvance(p) ==
  /\ Is(p, "advance write") /\ Writes(T(p), [row[T(p)] EXCEPT !.status = "submitted", !.lost = FALSE])
  /\ Ends(p) /\ UNCHANGED <<company, setOffs, portal, loosened, events>>

\* The answer to either is lost, and nothing is written.
Unanswered(p) ==
  /\ Happens /\ Ends(p)
  /\ \/ Is(p, "save") /\ ~FiledThere(T(p)) /\ portal' = [portal EXCEPT ![T(p)] = "saved"]
     \/ Is(p, "advance") /\ UNCHANGED portal
  /\ KeepsRecord
\* Filed already; or, of a filing, anything the portal finds wrong with it.
Refused(p) ==
  /\ task[p].op \in {"save", "advance", "file"} /\ (FiledThere(T(p)) \/ Is(p, "file")) /\ Ends(p)
  /\ KeepsRecord /\ UNCHANGED <<portal, events>>

-----------------------------------------------------------------------------
(* Filed *)

FileGstReturn(p, t) ==
  /\ task[p] = Idle /\ row[t].status = "submitted" /\ (t = "gstr3b" => row["gstr1"].status = "filed")
  /\ Starts(p, "track", t) /\ KeepsRecord /\ UNCHANGED <<portal, events>>
\* trackedFiling before the filing, and the summary of what is saved, by which it is filed.
Track(p) ==
  /\ Is(p, "track")
  /\ IF FiledThere(T(p)) THEN Goes(p, "record") ELSE Goes(p, "file")
  /\ KeepsRecord /\ UNCHANGED <<portal, events>>
PortalFiles(p) ==
  /\ Is(p, "file") /\ portal[T(p)] = "saved" /\ portal' = [portal EXCEPT ![T(p)] = "filed"]
Answered(p) == PortalFiles(p) /\ Goes(p, "record") /\ KeepsRecord /\ UNCHANGED events
\* UNANSWERED: it may have gone through or not.
AnswerLost(p) ==
  /\ Is(p, "file") /\ Happens /\ Goes(p, "mark lost") /\ KeepsRecord
  /\ PortalFiles(p) \/ UNCHANGED portal
MarkLost(p) ==
  /\ Is(p, "mark lost") /\ row' = [row EXCEPT ![T(p)].lost = TRUE] /\ Goes(p, "check")
  /\ UNCHANGED <<company, setOffs, portal, reopened, loosened, events>>
\* trackedFiling after it. Mutant: what was sent is taken as filed.
CheckTrusting(p) == Is(p, "check") /\ Goes(p, "record") /\ KeepsRecord /\ UNCHANGED <<portal, events>>
Check(p) ==
  /\ Is(p, "check") /\ (IF FiledThere(T(p)) THEN Goes(p, "record") ELSE Ends(p))
  /\ KeepsRecord /\ UNCHANGED <<portal, events>>

\* recordFiled, with afterFiled3b in the same transaction; only the first to record it writes.
\* The month has credit to set off.
RecordAgain(p) ==
  /\ Is(p, "record") /\ Ends(p)
  /\ row' = [row EXCEPT ![T(p)] = [@ EXCEPT !.status = "filed", !.lost = FALSE]]
  /\ IF T(p) = "gstr3b"
     THEN /\ company' = IF task[p].lock < 1 THEN [company EXCEPT !.lock = 1] ELSE company
          /\ setOffs' = IF setOffs < 2 THEN setOffs + 1 ELSE setOffs
     ELSE UNCHANGED <<company, setOffs>>
  /\ UNCHANGED <<portal, reopened, loosened, events>>
RecordFiled(p) == IF row[T(p)].status # "filed" THEN RecordAgain(p)
                  ELSE Is(p, "record") /\ Ends(p) /\ KeepsRecord /\ UNCHANGED <<portal, events>>

\* gst.returns.recover: the returns to ask about are read first, the company as each comes up.
StartRecover(w, t) ==
  /\ task[w] = Idle /\ row[t].status = "submitted" /\ row[t].lost
  /\ Starts(w, "recover", t) /\ KeepsRecord /\ UNCHANGED <<portal, events>>
Recover(w) ==
  /\ Is(w, "recover")
  /\ IF FiledThere(T(w)) THEN task' = [task EXCEPT ![w].op = "record", ![w].lock = company.lock] ELSE Ends(w)
  /\ KeepsRecord /\ UNCHANGED <<portal, events>>
\* The tracker does not answer, or the process dies.
Fails(p) ==
  /\ task[p].op # "none" /\ Happens /\ Ends(p)
  /\ KeepsRecord /\ UNCHANGED portal

-----------------------------------------------------------------------------
(* Around it *)

\* A person files on the portal's own site what is saved there; GSTR-1 comes first there too.
FiledByHand(t) ==
  /\ portal[t] = "saved" /\ (t = "gstr3b" => FiledThere("gstr1"))
  /\ portal' = [portal EXCEPT ![t] = "filed"]
  /\ KeepsRecord /\ UNCHANGED <<task, events>>

\* saveCompany, by the version a person read; it writes the lock date with the rest.
ReadCompany(p) ==
  /\ task[p] = Idle /\ company.version < MaxEdits
  /\ Starts(p, "company", "gstr1") /\ KeepsRecord /\ UNCHANGED <<portal, events>>
SaveCompany(p, lock) ==
  /\ Is(p, "company") /\ company.version = task[p].version
  /\ company' = [lock |-> lock, version |-> company.version + 1]
  /\ loosened' = (loosened \/ lock < company.lock)
  /\ Ends(p) /\ UNCHANGED <<row, setOffs, portal, reopened, events>>
Overtaken(p) ==
  /\ Is(p, "company") /\ company.version # task[p].version /\ Ends(p)
  /\ KeepsRecord /\ UNCHANGED <<portal, events>>

Next ==
  \/ \E t \in Returns : FiledByHand(t) \/ \E w \in Runners : StartRecover(w, t)
  \/ \E p \in Requests, t \in Returns : SaveGstReturn(p, t) \/ Advance(p, t) \/ FileGstReturn(p, t)
  \/ \E p \in Requests :
       \/ \E status \in {"saved", "failed"} : PortalSaves(p, status)
       \/ \E lock \in 0 .. 2 : SaveCompany(p, lock)
       \/ WriteSave(p) \/ PortalAdvances(p) \/ WriteAdvance(p) \/ Unanswered(p) \/ Refused(p)
       \/ Track(p) \/ Answered(p) \/ AnswerLost(p) \/ MarkLost(p) \/ Check(p)
       \/ ReadCompany(p) \/ Overtaken(p)
  \/ \E w \in Runners : Recover(w)
  \/ \E p \in Procs : RecordFiled(p) \/ Fails(p)

Spec == Init /\ [][Next]_vars

-----------------------------------------------------------------------------
(* Properties *)

(* A return is on record as filed only when the portal has filed it, whoever filed it and    *)
(* whichever answers were lost (fileGstReturn, recoverLostFilings).                          *)
FiledHereIsFiledThere == \A t \in Returns : row[t].status = "filed" => FiledThere(t)

(* GSTR-3B is not filed before GSTR-1 (GSTR1_FIRST): the portal is never asked to.           *)
FiledInOrder == FiledThere("gstr3b") => FiledThere("gstr1")

(* With GSTR-3B on record as filed its set-off is posted, and once, however many requests    *)
(* and runs learn of the filing (recordFiled); unless a request that read the return before  *)
(* it was filed wrote over the row after.                                                    *)
SetOffIsPostedOnce ==
  /\ row["gstr3b"].status = "filed" => setOffs >= 1
  /\ "gstr3b" \notin reopened => setOffs = IF row["gstr3b"].status = "filed" THEN 1 ELSE 0

(* A return is never marked filed with its month still open (recordFiled, afterFiled3b);     *)
(* unless a save of the company ever moved the lock date back, meant or not.                 *)
FiledWithBooksClosed == row["gstr3b"].status = "filed" /\ ~loosened => company.lock >= 1

FilingIsSound == FiledHereIsFiledThere /\ FiledInOrder /\ SetOffIsPostedOnce /\ FiledWithBooksClosed
=============================================================================
