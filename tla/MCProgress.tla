------------------------------ MODULE MCProgress -------------------------------
(* What must happen in the end, as one instance for TLC: a device catches up     *)
(* (ChangeFeed) and gets an answer for what it has to send (Outbox), the server  *)
(* settles what a portal left open (Compliance) and books what was paid          *)
(* (OnlinePayments).  The models do not meet, so a behaviour is one of any of    *)
(* them: focus says which, and the others stand still where they began.          *)
EXTENDS Naturals, Sequences

CONSTANTS
  own, other, d, r1, r2,  \* ChangeFeed: the account's own business, another, a document of that one, and requests
  q1, w,                  \* Compliance: a request and a job run
  c1, v1, v2              \* OnlinePayments: a request for a link, and deliveries

VARIABLES
  focus,
  fStore, fTx, fNextTx, fLog, fMember, fSignedIn, fSession, fCursor, fCopy, fTask, fWhole, fGone, fMixed, fEvents,
  oDoc, oAnswers, oLate, oRow, oShown, oOlder, oKnown, oCursor, oQueue, oNextId, oRun, oSaving, oMode, oLink,
  oMade, oOutcome, oReached, oDiscarded, oRevived, oOvertaken, oEvents,
  gDoc, gEinvoice, gRows, gCurrent, gAttempts, gPortalIrn, gPortalBills, gWire, gTask, gAdopted, gUnsure, gOverlapped, gEvents,
  pDoc, pLinks, pPayment, pCollected, pRefunds, pSeen, pTask, pLost, pEvents

Entities == {own, other, d}
CompanyOf == [e \in Entities |-> IF e = own THEN own ELSE other]
Feed == INSTANCE ChangeFeed WITH
  Foundings <- {<<other, d, own>>}, Members0 <- {own}, Requests <- {r1, r2}, Limit <- 1, MaxTx <- 2, MaxWrites <- 1, MaxEvents <- 1,
  store <- fStore, tx <- fTx, nextTx <- fNextTx, log <- fLog, member <- fMember, signedIn <- fSignedIn,
  session <- fSession, cursor <- fCursor, copy <- fCopy, task <- fTask, whole <- fWhole, gone <- fGone,
  mixed <- fMixed, events <- fEvents
Box == INSTANCE Outbox WITH
  Known0 <- BOOLEAN, MaxSaves <- 2, MaxEvents <- 1,
  doc <- oDoc, answers <- oAnswers, late <- oLate, row <- oRow, shown <- oShown, older <- oOlder, known <- oKnown,
  cursor <- oCursor, queue <- oQueue, nextId <- oNextId, run <- oRun, saving <- oSaving, mode <- oMode,
  link <- oLink, made <- oMade, outcome <- oOutcome, reached <- oReached, discarded <- oDiscarded,
  revived <- oRevived, overtaken <- oOvertaken, events <- oEvents
Gst == INSTANCE Compliance WITH
  Requests <- {q1}, Runners <- {w}, MaxAttempts <- 2, MaxEvents <- 2,
  doc <- gDoc, einvoice <- gEinvoice, rows <- gRows, current <- gCurrent, attempts <- gAttempts,
  portalIrn <- gPortalIrn, portalBills <- gPortalBills, wire <- gWire, task <- gTask, adopted <- gAdopted,
  unsure <- gUnsure, overlapped <- gOverlapped, events <- gEvents
Online == INSTANCE OnlinePayments WITH
  Total <- 2, Requests <- {c1}, Deliveries <- {v1, v2}, MaxLinks <- 2, MaxRefunds <- 0, MaxEvents <- 1,
  doc <- pDoc, links <- pLinks, payment <- pPayment, collected <- pCollected, refunds <- pRefunds, seen <- pSeen,
  task <- pTask, lost <- pLost, events <- pEvents

feed == <<fStore, fTx, fNextTx, fLog, fMember, fSignedIn, fSession, fCursor, fCopy, fTask, fWhole, fGone, fMixed, fEvents>>
box == <<oDoc, oAnswers, oLate, oRow, oShown, oOlder, oKnown, oCursor, oQueue, oNextId, oRun, oSaving, oMode, oLink,
         oMade, oOutcome, oReached, oDiscarded, oRevived, oOvertaken, oEvents>>
gst == <<gDoc, gEinvoice, gRows, gCurrent, gAttempts, gPortalIrn, gPortalBills, gWire, gTask, gAdopted, gUnsure, gOverlapped, gEvents>>
online == <<pDoc, pLinks, pPayment, pCollected, pRefunds, pSeen, pTask, pLost, pEvents>>
vars == <<focus, feed, box, gst, online>>

OnFeed(A) == focus = "feed" /\ A /\ UNCHANGED <<focus, box, gst, online>>
OnBox(A) == focus = "box" /\ A /\ UNCHANGED <<focus, feed, gst, online>>
OnGst(A) == focus = "gst" /\ A /\ UNCHANGED <<focus, feed, box, online>>
OnOnline(A) == focus = "online" /\ A /\ UNCHANGED <<focus, feed, box, gst>>

Init ==
  /\ focus \in {"feed", "box", "gst", "online"}
  /\ Feed!Init /\ Box!Init /\ Gst!Init /\ Online!Init
  /\ focus # "box" => oDoc.v = 0
Next == OnFeed(Feed!Next) \/ OnBox(Box!Next) \/ OnGst(Gst!Next) \/ OnOnline(Online!Next)

(* The Fairness of each model, for the behaviours that are its own *)
FeedFairness ==
  /\ WF_feed(focus = "feed" /\ Feed!SignIn) /\ WF_feed(focus = "feed" /\ Feed!StartRun)
  /\ WF_feed(focus = "feed" /\ Feed!Apply) /\ WF_feed(focus = "feed" /\ Feed!ApplyReload)
  /\ WF_feed(focus = "feed" /\ Feed!Pull("sync")) /\ WF_feed(focus = "feed" /\ Feed!Pull("reload"))
  /\ \A r \in {r1, r2} : WF_feed(focus = "feed" /\ Feed!Finishes(r))
BoxFairness ==
  /\ WF_box(focus = "box" /\ Box!StartRun) /\ WF_box(focus = "box" /\ Box!RunStep) /\ WF_box(focus = "box" /\ Box!LinkBack)
  /\ WF_box(focus = "box" /\ Box!Drain) /\ WF_box(focus = "box" /\ Box!GiveUp)
GstFairness ==
  /\ \A p \in {q1, w} : WF_gst(focus = "gst" /\ Gst!Step(p))
  /\ SF_gst(focus = "gst" /\ Gst!Claim(w))
  /\ \A i \in 1 .. 2 :
       /\ SF_gst(focus = "gst" /\ i \in DOMAIN gAttempts /\ Gst!TakeUp(w, i))
       /\ WF_gst(focus = "gst" /\ i \in DOMAIN gAttempts /\ (Gst!GrowsDue(i) \/ Gst!GrowsOld(i) \/ Gst!Recheck(i)))
  /\ WF_gst(focus = "gst" /\ Gst!GrowsOverdue) /\ WF_gst(focus = "gst" /\ \E m \in gWire : Gst!Arrive(m))
OnlineFairness ==
  /\ \A p \in {v1, v2} : WF_online(focus = "online" /\ Online!Finish(p))
  /\ \A i \in 1 .. 2 : WF_online(focus = "online" /\ i \in pCollected /\ \E p \in {v1, v2} : Online!Receive(p, Online!Paid(i)))
FairSpec == Init /\ [][Next]_vars /\ FeedFairness /\ BoxFairness /\ GstFairness /\ OnlineFairness

\* A device that keeps polling has what the server has, and an answer for all it sent.
DeviceSettles == Feed!CatchesUp /\ Box!EveryChangeIsAnswered
\* What a portal left open is settled, what it raised is on record, and what a gateway collected is booked.
ServerSettles == Gst!EInvoiceSettles /\ Gst!BillIsRecorded /\ Online!CollectionIsBooked
=============================================================================
