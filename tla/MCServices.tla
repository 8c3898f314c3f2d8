------------------------------ MODULE MCServices -------------------------------
(* What the server agrees on with others, as one instance for TLC: with its      *)
(* clients over a key (Idempotency), with the government portals (Compliance,     *)
(* Filing), with the payment gateway over plans (Subscriptions) and payments     *)
(* (OnlinePayments); and with itself over what is queued (JobQueue).  The models *)
(* do not meet, so a behaviour is one of any of them: focus says which, and the  *)
(* others stand still where they began.                                          *)
EXTENDS Idempotency, TLC

CONSTANTS
  Parts,                                            \* the models to be checked: of "idem", "jobs", "gst", "billing", "online", "filing"
  r1, r2, r3, r4, b1, b2,                           \* requests with one key, and what they ask for
  p1, p2,                                           \* what the others have two of that are alike
  Jobs, Workers, Slots, Keys, NoKey, Periods, NoPeriod,
  Concurrency, MaxStops, MaxCrashes, MaxClaims,     \* of JobQueue
  Requests, Runners, MaxAttempts, MaxPortalEvents,  \* of Compliance; the first two of Filing, MaxAttempts of JobQueue too
  Plans, Checkouts, Deliveries, MaxSubs, MaxSent,   \* of Subscriptions; Deliveries of OnlinePayments too
  Total, LinkRequests, MaxLinks, MaxRefunds,        \* of OnlinePayments
  MaxEdits, MaxEvents                               \* of Filing; MaxEvents of Subscriptions and OnlinePayments too

ASSUME PartsAssumption ==
  /\ NoKey \notin Keys /\ NoPeriod \notin Periods /\ Concurrency \in Nat \ {0} /\ MaxAttempts \in Nat \ {0}
  /\ {MaxStops, MaxCrashes, MaxClaims, MaxPortalEvents, MaxSubs, MaxSent, Total, MaxLinks, MaxRefunds, MaxEdits, MaxEvents} \subseteq Nat

VARIABLES
  focus,
  jRow, jScheduleRuns, jPeriodOf, jProc, jRunning, jUnfinished, jPoll, jRuns, jClaims, jSucceeded, jStops, jCrashes,
  gDoc, gEinvoice, gRows, gCurrent, gAttempts, gPortalIrn, gPortalBills, gWire, gTask, gAdopted, gUnsure, gOverlapped, gEvents,
  sRow, sPlan, sSubs, sSent, sSeen, sTask, sRaces, sEvents,
  pDoc, pLinks, pPayment, pCollected, pRefunds, pSeen, pTask, pLost, pEvents,
  fRow, fCompany, fSetOffs, fPortal, fTask, fReopened, fLoosened, fEvents

\* One request reuses the key for something else.
LastOther == [r \in Reqs |-> IF r = r4 THEN b2 ELSE b1]

Queue == INSTANCE JobQueue WITH
  row <- jRow, scheduleRuns <- jScheduleRuns, periodOf <- jPeriodOf, proc <- jProc, running <- jRunning,
  unfinished <- jUnfinished, poll <- jPoll, runs <- jRuns, claims <- jClaims, succeeded <- jSucceeded,
  stops <- jStops, crashes <- jCrashes
Gst == INSTANCE Compliance WITH
  MaxEvents <- MaxPortalEvents,
  doc <- gDoc, einvoice <- gEinvoice, rows <- gRows, current <- gCurrent, attempts <- gAttempts,
  portalIrn <- gPortalIrn, portalBills <- gPortalBills, wire <- gWire, task <- gTask, adopted <- gAdopted,
  unsure <- gUnsure, overlapped <- gOverlapped, events <- gEvents
Billing == INSTANCE Subscriptions WITH
  Requests <- Checkouts,
  row <- sRow, plan <- sPlan, subs <- sSubs, sent <- sSent, seen <- sSeen, task <- sTask, races <- sRaces, events <- sEvents
Online == INSTANCE OnlinePayments WITH
  Requests <- LinkRequests,
  doc <- pDoc, links <- pLinks, payment <- pPayment, collected <- pCollected, refunds <- pRefunds, seen <- pSeen,
  task <- pTask, lost <- pLost, events <- pEvents
Returns == INSTANCE Filing WITH
  row <- fRow, company <- fCompany, setOffs <- fSetOffs, portal <- fPortal, task <- fTask,
  reopened <- fReopened, loosened <- fLoosened, events <- fEvents

idem == vars
jobs == <<jRow, jScheduleRuns, jPeriodOf, jProc, jRunning, jUnfinished, jPoll, jRuns, jClaims, jSucceeded, jStops, jCrashes>>
gst == <<gDoc, gEinvoice, gRows, gCurrent, gAttempts, gPortalIrn, gPortalBills, gWire, gTask, gAdopted, gUnsure, gOverlapped, gEvents>>
billing == <<sRow, sPlan, sSubs, sSent, sSeen, sTask, sRaces, sEvents>>
online == <<pDoc, pLinks, pPayment, pCollected, pRefunds, pSeen, pTask, pLost, pEvents>>
filing == <<fRow, fCompany, fSetOffs, fPortal, fTask, fReopened, fLoosened, fEvents>>

\* Bound: two kinds of faults in a behaviour.  With {"fail"} or {"expire"} alone it is one of those with two.
FaultSets == {{}, {"late"}, {"late", "fail"}, {"late", "expire"}, {"fail", "expire"}}
AllInit ==
  /\ focus \in Parts
  /\ Init /\ Queue!Init /\ Gst!Init /\ Billing!Init /\ Online!Init /\ Returns!Init
  /\ faults \in IF focus = "idem" THEN FaultSets ELSE {{}}
AllNext ==
  /\ UNCHANGED focus
  /\ \/ focus = "idem" /\ Next /\ UNCHANGED <<jobs, gst, billing, online, filing>>
     \/ focus = "jobs" /\ Queue!Next /\ UNCHANGED <<idem, gst, billing, online, filing>>
     \/ focus = "gst" /\ Gst!Next /\ UNCHANGED <<idem, jobs, billing, online, filing>>
     \/ focus = "billing" /\ Billing!Next /\ UNCHANGED <<idem, jobs, gst, online, filing>>
     \/ focus = "online" /\ Online!Next /\ UNCHANGED <<idem, jobs, gst, billing, filing>>
     \/ focus = "filing" /\ Returns!Next /\ UNCHANGED <<idem, jobs, gst, billing, online>>
AllSpec == AllInit /\ [][AllNext]_<<focus, idem, jobs, gst, billing, online, filing>>

Symmetry == Permutations({r1, r2}) \cup Permutations({p1, p2})

\* The other models keep their types; those that stand still keep theirs.
PartsTypeOK ==
  CASE focus = "jobs" -> Queue!TypeOK
    [] focus = "gst" -> Gst!TypeOK
    [] focus = "billing" -> Billing!TypeOK
    [] focus = "online" -> Online!TypeOK
    [] focus = "filing" -> Returns!TypeOK
    [] OTHER -> TRUE
\* Properties of the others
NoDuplicateWork == Queue!NoDuplicateWork
RecordsAgreeWithPortals == Gst!RecordsAgreeWithPortals
CancelledHasNothingLive == Gst!CancelledHasNothingLive
PlanIsWhatIsPaid == Billing!PlanIsWhatIsPaid
EndedIsForGood == Billing!EndedIsForGood
BooksAgreeWithGateway == Online!BooksAgreeWithGateway
FilingIsSound == Returns!FilingIsSound
=============================================================================
